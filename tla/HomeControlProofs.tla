-------------------------- MODULE HomeControlProofs -------------------------
(***************************************************************************)
(* Proofs about HomeControl: the door commands and the answers on the bus, *)
(* for every set of doors, number of slots and length of frames.           *)
(***************************************************************************)
EXTENDS HomeControl, SequenceTheorems, TLAPS

Commands == [addr : Doors \cup {"none"}, cmd : {"none", "open", "junk"}]
Open(a) == [addr |-> a, cmd |-> "open"]

PlcType ==
    /\ ctrlnum \in 0 .. NCtrl /\ ctrlstate \in [Slots -> Commands]
    /\ job \in {"s1", "s2", "ctrl"} /\ stage \in {"test", "loop", "drain", "done"}
    /\ i \in Nat /\ frame \in Commands
    /\ stage = "loop" => job = "ctrl"
    /\ job = "ctrl" /\ stage = "drain" => i \in Slots /\ frame.addr \in Doors
    /\ door \in Seq(Doors) /\ Len(door) <= NCtrl
    /\ loops \in BOOLEAN /\ overlap \in BOOLEAN

(***************************************************************************)
(* The steps of QrCodeTask: the count follows the filling.                 *)
(***************************************************************************)
Steps == {"pause", "mute", "voice", "voiceLate", "fill", "count", "scene", "open", "shut"}
Ordered(p) == \A k \in 1 .. Len(p) : p[k] = "count" => k > 1 /\ p[k - 1] = "fill"

\* What is left of a program may begin with the count.
CountFollowsFill ==
    /\ todo \in Seq(Steps)
    /\ \A k \in 2 .. Len(todo) : todo[k] = "count" => todo[k - 1] = "fill"

LEMMA ConcatOrdered ==
    ASSUME NEW p \in Seq(Steps), NEW q \in Seq(Steps), Ordered(p), Ordered(q)
    PROVE  p \o q \in Seq(Steps) /\ Ordered(p \o q)
<1>1. /\ p \o q \in Seq(Steps) /\ Len(p \o q) = Len(p) + Len(q)
      /\ \A k \in 1 .. Len(p) + Len(q) : (p \o q)[k] = IF k <= Len(p) THEN p[k] ELSE q[k - Len(p)]
  BY ConcatProperties
<1>2. Len(p) \in Nat /\ Len(q) \in Nat
  BY LenProperties
<1>3. ASSUME NEW k \in 1 .. Len(p) + Len(q), (p \o q)[k] = "count"
      PROVE  k > 1 /\ (p \o q)[k - 1] = "fill"
  <2>1. CASE k <= Len(p)
    BY <1>1, <1>2, <1>3, <2>1 DEF Ordered
  <2>2. CASE k > Len(p)
    <3>1. k - Len(p) \in 1 .. Len(q) /\ q[k - Len(p)] = "count"
      BY <1>1, <1>2, <1>3, <2>2
    <3>2. k - Len(p) > 1 /\ q[k - Len(p) - 1] = "fill"
      BY <3>1 DEF Ordered
    <3>3. k - 1 \in 1 .. Len(p) + Len(q) /\ k - 1 > Len(p) /\ (k - 1) - Len(p) = k - Len(p) - 1
      BY <1>2, <3>2
    <3>4. (p \o q)[k - 1] = q[(k - 1) - Len(p)]
      BY <1>1, <1>2, <3>3
    <3> QED
      BY <1>2, <3>2, <3>3, <3>4
  <2> QED
    BY <1>2, <2>1, <2>2
<1> QED
  BY <1>1, <1>3 DEF Ordered

LEMMA ShortOrdered ==
    ASSUME NEW a \in Steps, NEW b \in Steps, NEW c \in Steps,
           a # "count", b = "count" => a = "fill", c # "count"
    PROVE  /\ <<a>> \in Seq(Steps) /\ Ordered(<<a>>)
           /\ <<a, b>> \in Seq(Steps) /\ Ordered(<<a, b>>)
           /\ <<a, b, c>> \in Seq(Steps) /\ Ordered(<<a, b, c>>)
<1>1. <<a>> \in Seq(Steps) /\ Len(<<a>>) = 1 /\ <<a>>[1] = a
  OBVIOUS
<1>2. <<a, b>> \in Seq(Steps) /\ Len(<<a, b>>) = 2 /\ <<a, b>>[1] = a /\ <<a, b>>[2] = b
  OBVIOUS
<1>3. /\ <<a, b, c>> \in Seq(Steps) /\ Len(<<a, b, c>>) = 3
      /\ <<a, b, c>>[1] = a /\ <<a, b, c>>[2] = b /\ <<a, b, c>>[3] = c
  OBVIOUS
<1>4. Ordered(<<a>>)
  BY <1>1 DEF Ordered
<1>5. Ordered(<<a, b>>)
  <2>1. \A k \in 1 .. 2 : k = 1 \/ (k = 2 /\ k - 1 = 1)
    OBVIOUS
  <2> QED
    BY <1>2, <2>1 DEF Ordered
<1>6. Ordered(<<a, b, c>>)
  <2>1. \A k \in 1 .. 3 : k = 1 \/ (k = 2 /\ k - 1 = 1) \/ k = 3
    OBVIOUS
  <2> QED
    BY <1>3, <2>1 DEF Ordered
<1> QED
  BY <1>1, <1>2, <1>3, <1>4, <1>5, <1>6

LEMMA PartsOrdered ==
    /\ <<>> \in Seq(Steps) /\ Ordered(<<>>)
    /\ <<"pause", "mute">> \in Seq(Steps) /\ Ordered(<<"pause", "mute">>)
    /\ <<"mute", "pause">> \in Seq(Steps) /\ Ordered(<<"mute", "pause">>)
    /\ <<"voice">> \in Seq(Steps) /\ Ordered(<<"voice">>)
    /\ <<"voiceLate">> \in Seq(Steps) /\ Ordered(<<"voiceLate">>)
    /\ <<"fill", "count">> \in Seq(Steps) /\ Ordered(<<"fill", "count">>)
    /\ <<"scene", "open", "shut">> \in Seq(Steps) /\ Ordered(<<"scene", "open", "shut">>)
    /\ <<"open", "shut">> \in Seq(Steps) /\ Ordered(<<"open", "shut">>)
<1>1. <<>> \in Seq(Steps) /\ Ordered(<<>>)
  BY EmptySeq DEF Ordered
<1>3. \A a, b, c \in Steps : a # "count" /\ (b = "count" => a = "fill") /\ c # "count" =>
           /\ <<a>> \in Seq(Steps) /\ Ordered(<<a>>)
           /\ <<a, b>> \in Seq(Steps) /\ Ordered(<<a, b>>)
           /\ <<a, b, c>> \in Seq(Steps) /\ Ordered(<<a, b, c>>)
  BY ShortOrdered
<1>4. {"pause", "mute", "voice", "voiceLate", "fill", "count", "scene", "open", "shut"} \subseteq Steps
  BY DEF Steps
<1> QED
  BY <1>1, <1>3, <1>4

LEMMA ProgramsOrdered ==
    ASSUME NEW reader \in {"GM", "JM", "CM"}, NEW r \in Verdicts
    PROVE  /\ Program(reader, r) \in Seq(Steps) /\ Ordered(Program(reader, r))
           /\ OpenDoor(reader, r) \in Seq(Steps) /\ Ordered(OpenDoor(reader, r))
<1>1. OpenDoor(reader, r) \in {<<>>, <<"fill", "count">>, <<"scene", "open", "shut">>, <<"open", "shut">>}
  BY Zenon DEF OpenDoor
<1>2. PlayVoice(r) \in {<<>>, <<"voice">>, <<"voiceLate">>}
  BY Zenon DEF PlayVoice, Verdicts
<1>3. OpenDoor(reader, r) \in Seq(Steps) /\ Ordered(OpenDoor(reader, r))
  BY <1>1, PartsOrdered
<1>4. PlayVoice(r) \in Seq(Steps) /\ Ordered(PlayVoice(r))
  BY <1>2, PartsOrdered
<1>5. \/ Program(reader, r) = <<"pause", "mute">> \o PlayVoice(r) \o OpenDoor(reader, r)
      \/ Program(reader, r) = OpenDoor(reader, r) \o PlayVoice(r)
      \/ Program(reader, r) = <<"mute", "pause">> \o OpenDoor(reader, r) \o PlayVoice(r)
  BY Zenon DEF Program
<1>6. /\ <<"pause", "mute">> \o PlayVoice(r) \in Seq(Steps)
      /\ Ordered(<<"pause", "mute">> \o PlayVoice(r))
      /\ <<"mute", "pause">> \o OpenDoor(reader, r) \in Seq(Steps)
      /\ Ordered(<<"mute", "pause">> \o OpenDoor(reader, r))
  BY <1>3, <1>4, PartsOrdered, ConcatOrdered
<1>7. /\ <<"pause", "mute">> \o PlayVoice(r) \o OpenDoor(reader, r) \in Seq(Steps)
      /\ Ordered(<<"pause", "mute">> \o PlayVoice(r) \o OpenDoor(reader, r))
  BY <1>3, <1>6, ConcatOrdered
<1>8. /\ <<"mute", "pause">> \o OpenDoor(reader, r) \o PlayVoice(r) \in Seq(Steps)
      /\ Ordered(<<"mute", "pause">> \o OpenDoor(reader, r) \o PlayVoice(r))
  BY <1>4, <1>6, ConcatOrdered
<1>9. /\ OpenDoor(reader, r) \o PlayVoice(r) \in Seq(Steps)
      /\ Ordered(OpenDoor(reader, r) \o PlayVoice(r))
  BY <1>3, <1>4, ConcatOrdered
<1> QED
  BY <1>3, <1>5, <1>7, <1>8, <1>9

(***************************************************************************)
(* The invariant behind DoorsOpened.                                       *)
(***************************************************************************)
AtCount == todo # <<>> /\ Head(todo) = "count"

\* The slots that are to be sent hold doors.  Between the filling and the count
\* only a PlcTask that is in its loop changes them.
Filling ==
    /\ \A s \in Slots : s < ctrlnum => ctrlstate[s].addr \in Doors
    /\ AtCount => \A s \in Slots : s < Len(door) => ctrlstate[s].addr = door[s + 1]
    /\ AtCount /\ ~loops =>
        /\ ~InLoop
        /\ \A s \in Slots : s < Len(door) => ctrlstate[s] = Open(door[s + 1])

\* PlcTask has the command for door a before it: in a slot that it has not come
\* to yet, or in the frame it is about to send.
Coming(a) ==
    \/ \E s \in Slots : /\ s < ctrlnum /\ ctrlstate[s] = Open(a)
                        /\ InLoop => IF stage = "loop" THEN s >= i ELSE s > i
    \/ job = "ctrl" /\ stage = "drain" /\ frame = Open(a)

OwedComing == ~overlap => \A a \in owed : a \notin FarDoors /\ Coming(a)

DInv == PlcType /\ CountFollowsFill /\ Filling /\ OwedComing

LEMMA SlotFacts == Slots \subseteq Nat /\ NCtrl \in Nat /\ \A n \in 0 .. NCtrl, s \in Nat : s < n => s \in Slots
BY PlcBusAssumption DEF Slots

\* Steps that leave the commands alone.
LEMMA ElsewhereKeeps ==
    ASSUME DInv, UNCHANGED plcVars, UNCHANGED door, CountFollowsFill', AtCount' => AtCount
    PROVE  DInv'
<1>1. UNCHANGED <<ctrlnum, ctrlstate, job, stage, i, frame, owed, loops, overlap>>
  BY DEF plcVars
<1>2. PlcType'
  BY <1>1 DEF DInv, PlcType
<1>3. Filling'
  BY <1>1 DEF DInv, Filling, InLoop
<1>4. OwedComing'
  BY <1>1 DEF DInv, OwedComing, Coming, InLoop
<1> QED
  BY <1>2, <1>3, <1>4 DEF DInv

LEMMA NextJobKeeps == ASSUME DInv, NextJob, UNCHANGED <<todo, door>> PROVE DInv'
<1>1. /\ stage = "test" /\ job' \in {"s1", "s2", "ctrl"}
      /\ job' = "ctrl" => stage' = "loop" /\ i' = 0 /\ loops' = TRUE
      /\ job' # "ctrl" => stage' = "drain" /\ i' = i /\ loops' = loops
      /\ UNCHANGED <<ctrlnum, ctrlstate, frame, owed, overlap>>
  BY DEF NextJob, PlcRead
<1>2. PlcType'
  <2>1. /\ ctrlnum \in 0 .. NCtrl /\ ctrlstate \in [Slots -> Commands] /\ frame \in Commands
        /\ door \in Seq(Doors) /\ Len(door) <= NCtrl /\ overlap \in BOOLEAN
        /\ i \in Nat /\ loops \in BOOLEAN
    BY DEF DInv, PlcType
  <2>2. i' \in Nat
    BY <1>1, <2>1
  <2>5. loops' \in BOOLEAN
    BY <1>1, <2>1, Zenon
  <2>3. CASE job' = "ctrl"
    BY <1>1, <2>1, <2>2, <2>3, <2>5 DEF PlcType
  <2>4. CASE job' # "ctrl"
    BY <1>1, <2>1, <2>2, <2>4, <2>5 DEF PlcType
  <2> QED
    BY <2>3, <2>4
<1>3. Filling' /\ CountFollowsFill'
  BY <1>1 DEF DInv, Filling, CountFollowsFill, AtCount, InLoop
<1>4. ASSUME NEW a, Coming(a) PROVE Coming(a)'
  <2>1. PICK s \in Slots : s < ctrlnum /\ ctrlstate[s] = Open(a)
    BY <1>1, <1>4 DEF Coming
  <2>2. s \in Nat
    BY SlotFacts
  <2> QED
    BY <1>1, <2>1, <2>2 DEF Coming, InLoop
<1> QED
  BY <1>1, <1>2, <1>3, <1>4 DEF DInv, OwedComing

LEMMA CtrlNextKeeps == ASSUME DInv, CtrlNext, UNCHANGED <<todo, door>> PROVE DInv'
<1>1. /\ job = "ctrl" /\ stage = "loop" /\ i < ctrlnum
      /\ UNCHANGED <<ctrlnum, ctrlstate, job, owed, loops, overlap>>
  BY DEF CtrlNext, MoreCtrl
<1>2. i \in Slots /\ i \in Nat /\ ctrlnum \in Nat /\ ctrlstate[i] \in Commands /\ ctrlstate[i].addr \in Doors
  <2>1. i \in Slots /\ i \in Nat /\ ctrlnum \in Nat
    BY <1>1, SlotFacts DEF DInv, PlcType
  <2> QED
    BY <1>1, <2>1 DEF DInv, PlcType, Filling
<1>3. CASE ctrlstate[i].addr \in FarDoors
  <2>1. i' = i + 1 /\ UNCHANGED <<frame, stage>>
    BY <1>3 DEF CtrlNext
  <2>2. PlcType'
    BY <1>1, <1>2, <2>1 DEF DInv, PlcType
  <2>3. Filling' /\ CountFollowsFill'
    BY <1>1, <2>1 DEF DInv, Filling, CountFollowsFill, AtCount, InLoop
  <2>4. ASSUME NEW a, a \notin FarDoors, Coming(a) PROVE Coming(a)'
    <3>1. PICK s \in Slots : s < ctrlnum /\ ctrlstate[s] = Open(a) /\ s >= i
      BY <1>1, <2>4 DEF Coming, InLoop
    <3>2. s \in Nat /\ s # i
      BY <1>3, <2>4, <3>1, SlotFacts DEF Open
    <3>3. s >= i + 1
      BY <1>2, <3>1, <3>2
    <3> QED
      BY <1>1, <2>1, <3>1, <3>3 DEF Coming, InLoop
  <2> QED
    BY <1>1, <2>2, <2>3, <2>4 DEF DInv, OwedComing
<1>4. CASE ctrlstate[i].addr \notin FarDoors
  <2>1. stage' = "drain" /\ frame' = ctrlstate[i] /\ i' = i
    BY <1>4 DEF CtrlNext, PlcCtrlMet
  <2>2. PlcType'
    BY <1>1, <1>2, <2>1 DEF DInv, PlcType
  <2>3. Filling' /\ CountFollowsFill'
    BY <1>1, <2>1 DEF DInv, Filling, CountFollowsFill, AtCount, InLoop
  <2>4. ASSUME NEW a, Coming(a) PROVE Coming(a)'
    <3>1. PICK s \in Slots : s < ctrlnum /\ ctrlstate[s] = Open(a) /\ s >= i
      BY <1>1, <2>4 DEF Coming, InLoop
    <3>2. s \in Nat
      BY SlotFacts
    <3>3. CASE s = i
      BY <1>1, <2>1, <3>1, <3>3 DEF Coming
    <3>4. CASE s > i
      BY <1>1, <2>1, <3>1, <3>4 DEF Coming, InLoop
    <3> QED
      BY <1>2, <3>1, <3>2, <3>3, <3>4
  <2> QED
    BY <1>1, <2>2, <2>3, <2>4 DEF DInv, OwedComing
<1> QED
  BY <1>3, <1>4

LEMMA CtrlEndKeeps == ASSUME DInv, CtrlEnd, UNCHANGED <<todo, door>> PROVE DInv'
<1>1. /\ job = "ctrl" /\ stage = "loop" /\ ~(i < ctrlnum)
      /\ ctrlnum' = 0 /\ job' = "s1" /\ stage' = "test" /\ i' = 0
      /\ UNCHANGED <<ctrlstate, frame, owed, loops, overlap>>
  BY DEF CtrlEnd, MoreCtrl
<1>2. i \in Nat /\ ctrlnum \in Nat /\ NCtrl \in Nat
  BY SlotFacts DEF DInv, PlcType
<1>3. PlcType'
  BY <1>1, <1>2 DEF DInv, PlcType
<1>4. Filling' /\ CountFollowsFill'
  BY <1>1, SlotFacts DEF DInv, Filling, CountFollowsFill, AtCount, InLoop
<1>5. ASSUME NEW a, Coming(a) PROVE FALSE
  <2>1. PICK s \in Slots : s < ctrlnum /\ s >= i
    BY <1>1, <1>5 DEF Coming, InLoop
  <2>2. s \in Nat
    BY SlotFacts
  <2> QED
    BY <1>1, <1>2, <2>1, <2>2
<1> QED
  BY <1>1, <1>3, <1>4, <1>5 DEF DInv, OwedComing

LEMMA DrainKeeps == ASSUME DInv, Drain, UNCHANGED <<todo, door>> PROVE DInv'
<1>1. /\ stage = "drain"
      /\ ctrlstate' = IF job = "ctrl" THEN [ctrlstate EXCEPT ![i].cmd = "junk"] ELSE ctrlstate
      /\ UNCHANGED <<ctrlnum, job, stage, i, frame, owed, loops, overlap>>
  BY DEF Drain
<1>2. CASE job # "ctrl"
  BY <1>1, <1>2 DEF DInv, PlcType, Filling, CountFollowsFill, AtCount, InLoop, OwedComing, Coming
<1>3. CASE job = "ctrl"
  <2>1. i \in Slots /\ ctrlstate \in [Slots -> Commands] /\ Slots \subseteq Nat
    BY <1>1, <1>3, SlotFacts DEF DInv, PlcType
  <2>2. /\ ctrlstate' \in [Slots -> Commands]
        /\ \A s \in Slots : /\ ctrlstate'[s].addr = ctrlstate[s].addr
                            /\ s # i => ctrlstate'[s] = ctrlstate[s]
    BY <1>1, <1>3, <2>1 DEF Commands
  <2>3. PlcType'
    BY <1>1, <2>2 DEF DInv, PlcType
  <2>4. Filling' /\ CountFollowsFill'
    BY <1>1, <1>3, <2>2 DEF DInv, Filling, CountFollowsFill, AtCount, InLoop
  <2>5. ASSUME NEW a, Coming(a) PROVE Coming(a)'
    BY <1>1, <1>3, <2>1, <2>2, <2>5 DEF Coming, InLoop
  <2> QED
    BY <1>1, <2>3, <2>4, <2>5 DEF DInv, OwedComing
<1> QED
  BY <1>2, <1>3

LEMMA SendKeeps == ASSUME DInv, Send, UNCHANGED <<todo, door>> PROVE DInv'
<1>1. /\ stage = "drain" /\ stage' = "done"
      /\ owed' = IF job = "ctrl" /\ frame.cmd = "open" THEN owed \ {frame.addr} ELSE owed
      /\ UNCHANGED <<ctrlnum, ctrlstate, job, i, frame, loops, overlap>>
  BY DEF Send
<1>2. PlcType'
  BY <1>1 DEF DInv, PlcType
<1>3. Filling' /\ CountFollowsFill'
  BY <1>1 DEF DInv, Filling, CountFollowsFill, AtCount, InLoop
<1>4. ASSUME NEW a \in owed', Coming(a) PROVE a \in owed /\ Coming(a)'
  <2>1. a \in owed
    BY <1>1
  <2>2. ~(job = "ctrl" /\ frame = Open(a))
    BY <1>1 DEF Open
  <2>3. PICK s \in Slots : s < ctrlnum /\ ctrlstate[s] = Open(a) /\ (InLoop => s > i)
    BY <1>1, <1>4, <2>2 DEF Coming
  <2> QED
    BY <1>1, <2>1, <2>3 DEF Coming, InLoop
<1>5. owed' \subseteq owed
  BY <1>1
<1> QED
  BY <1>1, <1>2, <1>3, <1>4, <1>5 DEF DInv, OwedComing

LEMMA SendDoneKeeps == ASSUME DInv, SendDone, UNCHANGED <<todo, door>> PROVE DInv'
<1>1. /\ stage = "done" /\ frame' = NoCommand
      /\ job = "ctrl" => i' = i + 1 /\ stage' = "loop" /\ job' = job
      /\ job # "ctrl" => job' = After(job) /\ stage' = "test" /\ i' = i
      /\ UNCHANGED <<ctrlnum, ctrlstate, owed, loops, overlap>>
  BY DEF SendDone
<1>2. job # "ctrl" => After(job) \in {"s1", "s2", "ctrl"}
  BY Zenon DEF After, DInv, PlcType
<1>3. NoCommand \in Commands
  BY DEF NoCommand, Commands
<1>4. PlcType'
  BY <1>1, <1>2, <1>3 DEF DInv, PlcType
<1>5. Filling' /\ CountFollowsFill'
  BY <1>1 DEF DInv, Filling, CountFollowsFill, AtCount, InLoop
<1>6. ASSUME NEW a, Coming(a) PROVE Coming(a)'
  <2>1. PICK s \in Slots : s < ctrlnum /\ ctrlstate[s] = Open(a) /\ (InLoop => s > i)
    BY <1>1, <1>6 DEF Coming
  <2>2. s \in Nat /\ i \in Nat
    BY SlotFacts DEF DInv, PlcType
  <2>3. job = "ctrl" => s >= i + 1
    BY <1>1, <2>1, <2>2 DEF InLoop
  <2> QED
    BY <1>1, <2>1, <2>3 DEF Coming, InLoop
<1> QED
  BY <1>1, <1>4, <1>5, <1>6 DEF DInv, OwedComing

\* The next step of QrCodeTask.
LEMMA TailKeeps ==
    ASSUME DInv, todo # <<>>, todo' = Tail(todo)
    PROVE  CountFollowsFill' /\ (AtCount' => Head(todo) = "fill")
<1>1. todo \in Seq(Steps)
  BY DEF DInv, CountFollowsFill
<1>2. /\ todo' \in Seq(Steps) /\ Len(todo') = Len(todo) - 1 /\ Len(todo) \in Nat
      /\ \A k \in 1 .. Len(todo') : todo'[k] = todo[k + 1]
  BY <1>1, HeadTailProperties, LenProperties
<1>3. ASSUME NEW k \in 1 .. Len(todo'), todo'[k] = "count" PROVE todo[k] = "fill"
  <2>1. k + 1 \in 2 .. Len(todo) /\ todo[k + 1] = "count" /\ (k + 1) - 1 = k
    BY <1>2, <1>3
  <2> QED
    BY <2>1 DEF DInv, CountFollowsFill
<1>4. CountFollowsFill'
  <2>1. ASSUME NEW k \in 2 .. Len(todo'), todo'[k] = "count" PROVE todo'[k - 1] = "fill"
    <3>1. k \in 1 .. Len(todo') /\ k - 1 \in 1 .. Len(todo') /\ (k - 1) + 1 = k
      BY <1>2
    <3> QED
      BY <1>2, <1>3, <2>1, <3>1
  <2> QED
    BY <1>2, <2>1 DEF CountFollowsFill
<1>5. ASSUME AtCount' PROVE Head(todo) = "fill"
  <2>1. todo' # <<>> /\ Head(todo') = "count"
    BY <1>5 DEF AtCount
  <2>2. 1 \in 1 .. Len(todo') /\ todo'[1] = "count"
    BY <1>2, <2>1
  <2> QED
    BY <1>1, <1>3, <2>2
<1> QED
  BY <1>4, <1>5

LEMMA FillKeeps == ASSUME DInv, OpenDoorFill PROVE DInv'
<1>1. /\ todo # <<>> /\ todo' = Tail(todo)
      /\ ctrlstate' = [s \in Slots |-> IF s < Len(door) THEN Filled(s) ELSE ctrlstate[s]]
      /\ loops' = InLoop /\ owed' = {}
      /\ UNCHANGED <<ctrlnum, job, stage, i, frame, overlap, door>>
  BY DEF OpenDoorFill, At
<1>2. /\ ctrlstate \in [Slots -> Commands] /\ door \in Seq(Doors)
      /\ Len(door) \in Nat /\ Slots \subseteq Nat
  BY SlotFacts, LenProperties DEF DInv, PlcType
<1>3. ASSUME NEW s \in Slots, s < Len(door) PROVE Filled(s) = Open(door[s + 1]) /\ door[s + 1] \in Doors
  <2>1. s + 1 \in 1 .. Len(door)
    BY <1>2, <1>3
  <2> QED
    BY <1>2, <2>1, ElementOfSeq DEF Filled, Open
<1>4. /\ ctrlstate' \in [Slots -> Commands]
      /\ \A s \in Slots : ctrlstate'[s] = IF s < Len(door) THEN Open(door[s + 1]) ELSE ctrlstate[s]
  BY <1>1, <1>2, <1>3 DEF Commands, Open
<1>5. PlcType'
  BY <1>1, <1>4 DEF DInv, PlcType, InLoop
<1>6. Filling'
  <2>1. \A s \in Slots : s < ctrlnum => ctrlstate'[s].addr \in Doors
    BY <1>3, <1>4 DEF DInv, Filling, Open
  <2>2. \A s \in Slots : s < Len(door) => ctrlstate'[s] = Open(door[s + 1])
    BY <1>4
  <2>3. InLoop' = InLoop
    BY <1>1 DEF InLoop
  <2>4. \A s \in Slots : s < Len(door) => ctrlstate'[s].addr = door[s + 1]
    <3>1. \A a : Open(a).addr = a
      BY DEF Open
    <3> QED
      BY <2>2, <3>1
  <2> QED
    BY <1>1, <2>1, <2>2, <2>3, <2>4 DEF Filling
<1>7. OwedComing'
  BY <1>1 DEF OwedComing
<1> QED
  BY <1>1, <1>5, <1>6, <1>7, TailKeeps DEF DInv

LEMMA CountKeeps == ASSUME DInv, OpenDoorCount PROVE DInv'
<1>1. /\ todo # <<>> /\ Head(todo) = "count" /\ todo' = Tail(todo)
      /\ ctrlnum' = Len(door) /\ owed' = {door[k] : k \in DOMAIN door} \ FarDoors
      /\ overlap' = loops /\ loops' = FALSE /\ door' = <<>>
      /\ UNCHANGED <<ctrlstate, job, stage, i, frame>>
  BY DEF OpenDoorCount, At
<1>2. /\ AtCount /\ door \in Seq(Doors) /\ Len(door) \in Nat /\ DOMAIN door = 1 .. Len(door)
      /\ Slots \subseteq Nat /\ NCtrl \in Nat /\ Len(door) <= NCtrl
  BY <1>1, SlotFacts, LenProperties DEF DInv, PlcType, AtCount
<1>3. door' \in Seq(Doors) /\ Len(door') = 0
  BY <1>1, EmptySeq
<1>9. overlap' \in BOOLEAN /\ loops' \in BOOLEAN
  BY <1>1, Zenon DEF DInv, PlcType
<1>10. Len(door) \in 0 .. NCtrl /\ 0 <= NCtrl
  BY <1>2
<1>4. PlcType'
  BY <1>1, <1>3, <1>9, <1>10 DEF DInv, PlcType
<1>5. CountFollowsFill' /\ ~AtCount'
  BY <1>1, TailKeeps
<1>6. Filling'
  <2>1. ASSUME NEW s \in Slots, s < Len(door) PROVE ctrlstate[s].addr \in Doors
    <3>1. s + 1 \in 1 .. Len(door)
      BY <1>2, <2>1
    <3>2. ctrlstate[s].addr = door[s + 1]
      BY <1>2, <2>1 DEF DInv, Filling
    <3> QED
      BY <1>2, <3>1, <3>2, ElementOfSeq
  <2> QED
    BY <1>1, <1>5, <2>1 DEF Filling
<1>7. ASSUME ~loops, NEW a \in owed' PROVE a \notin FarDoors /\ Coming(a)'
  <2>1. PICK k \in 1 .. Len(door) : a = door[k]
    BY <1>1, <1>2, <1>7
  <2>2. k - 1 \in Slots /\ k - 1 < Len(door) /\ (k - 1) + 1 = k
    BY <1>2, <2>1, SlotFacts
  <2>3. ctrlstate[k - 1] = Open(door[(k - 1) + 1]) /\ ~InLoop
    BY <1>2, <1>7, <2>2 DEF DInv, Filling
  <2>4. ctrlstate[k - 1] = Open(a)
    BY <2>1, <2>2, <2>3
  <2>5. ~InLoop'
    BY <1>1, <2>3 DEF InLoop
  <2> QED
    BY <1>1, <2>2, <2>4, <2>5 DEF Coming
<1>8. OwedComing'
  BY <1>1, <1>7 DEF OwedComing
<1> QED
  BY <1>4, <1>5, <1>6, <1>8 DEF DInv

\* A new program begins.
LEMMA NewProgramKeeps ==
    ASSUME DInv, UNCHANGED plcVars, door' \in Seq(Doors), Len(door') <= NCtrl,
           NEW p \in Seq(Steps), Ordered(p), todo' = p
    PROVE  DInv'
<1>1. UNCHANGED <<ctrlnum, ctrlstate, job, stage, i, frame, owed, loops, overlap>>
  BY DEF plcVars
<1>2. Len(p) \in Nat
  BY LenProperties
<1>3. CountFollowsFill'
  BY <1>2 DEF CountFollowsFill, Ordered
<1>4. ~AtCount'
  <2>1. SUFFICES ASSUME p # <<>>, Head(p) = "count" PROVE FALSE
    BY DEF AtCount
  <2>2. 1 \in 1 .. Len(p) /\ p[1] = "count"
    BY <1>2, <2>1
  <2> QED
    BY <2>2 DEF Ordered
<1>5. PlcType'
  BY <1>1 DEF DInv, PlcType
<1>6. Filling'
  BY <1>1, <1>4 DEF DInv, Filling
<1>7. OwedComing'
  BY <1>1 DEF DInv, OwedComing, Coming, InLoop
<1> QED
  BY <1>3, <1>5, <1>6, <1>7 DEF DInv

LEMMA ScanKeeps == ASSUME DInv, Scan PROVE DInv'
<1>1. PICK reader \in {"GM", "JM", "CM"}, r \in Verdicts :
          /\ todo' = Program(reader, r)
          /\ door' \in UNION {[1 .. n -> Doors] : n \in 0 .. NCtrl} \/ door' = door
  BY DEF Scan
<1>2. UNCHANGED plcVars
  BY DEF Scan, busVars
<1>3. door' \in Seq(Doors) /\ Len(door') <= NCtrl
  <2>1. CASE door' = door
    BY <2>1 DEF DInv, PlcType
  <2>2. CASE door' \in UNION {[1 .. n -> Doors] : n \in 0 .. NCtrl}
    <3>1. PICK n \in 0 .. NCtrl : door' \in [1 .. n -> Doors]
      BY <2>2
    <3>2. n \in Nat /\ n <= NCtrl
      BY <3>1, SlotFacts
    <3> QED
      BY <3>1, <3>2
  <2> QED
    BY <1>1, <2>1, <2>2
<1>4. Program(reader, r) \in Seq(Steps) /\ Ordered(Program(reader, r))
  BY ProgramsOrdered
<1> QED
  BY <1>1, <1>2, <1>3, <1>4, NewProgramKeeps

LEMMA ScanAdminKeeps == ASSUME DInv, ScanAdmin PROVE DInv'
<1>1. PICK reader \in {"JM", "CM"} : todo' = OpenDoor(reader, 0)
  BY DEF ScanAdmin
<1>2. UNCHANGED plcVars /\ door' = door
  BY DEF ScanAdmin, busVars
<1>3. door' \in Seq(Doors) /\ Len(door') <= NCtrl
  BY <1>2 DEF DInv, PlcType
<1>4. reader \in {"GM", "JM", "CM"} /\ 0 \in Verdicts
  BY DEF Verdicts
<1>5. OpenDoor(reader, 0) \in Seq(Steps) /\ Ordered(OpenDoor(reader, 0))
  BY <1>4, ProgramsOrdered
<1> QED
  BY <1>1, <1>2, <1>3, <1>5, NewProgramKeeps

\* The other steps of QrCodeTask.
LEMMA QrKeeps ==
    ASSUME DInv, QrPause \/ QrMute \/ QrVoice \/ QrScene \/ QrDoor
    PROVE  DInv'
<1>1. UNCHANGED plcVars /\ UNCHANGED door
  BY DEF QrPause, QrMute, QrVoice, QrScene, QrDoor, busVars
<1>2. todo # <<>> /\ todo' = Tail(todo) /\ Head(todo) # "fill"
  BY DEF QrPause, QrMute, QrVoice, QrScene, QrDoor, At
<1>3. CountFollowsFill' /\ ~AtCount'
  BY <1>2, TailKeeps
<1> QED
  BY <1>1, <1>3, ElsewhereKeeps

LEMMA StepKeeps == ASSUME DInv, [Next]_vars PROVE DInv'
<1>1. ASSUME UNCHANGED plcVars, UNCHANGED <<todo, door>> PROVE DInv'
  <2>1. CountFollowsFill' /\ (AtCount' => AtCount)
    BY <1>1 DEF DInv, CountFollowsFill, AtCount
  <2> QED
    BY <1>1, <2>1, ElsewhereKeeps
<1>2. CASE UNCHANGED vars
  BY <1>1, <1>2 DEF vars, busVars, scanVars
<1>3. CASE QrCodeTask
  BY <1>3, QrKeeps, FillKeeps, CountKeeps DEF QrCodeTask
<1>4. CASE SensorTimer
  <2>1. UNCHANGED <<ctrlnum, ctrlstate, job, stage, i, frame, owed, loops, overlap, todo, door>>
    BY <1>4 DEF SensorTimer, RTimeUpdateTemperature, qrVars
  <2>2. PlcType' /\ CountFollowsFill'
    BY <2>1 DEF DInv, PlcType, CountFollowsFill
  <2>3. Filling'
    BY <2>1 DEF DInv, Filling, AtCount, InLoop
  <2>4. OwedComing'
    BY <2>1 DEF DInv, OwedComing, Coming, InLoop
  <2> QED
    BY <2>2, <2>3, <2>4 DEF DInv
<1>5. CASE ShellTimer \/ SceneTimer
  BY <1>1, <1>5 DEF ShellTimer, SceneTimer, busVars, qrVars
<1>6. CASE Scenes \/ Music
  BY <1>1, <1>6 DEF Scenes, Music, busVars, scanVars
<1>7. CASE Answers
  BY <1>1, <1>7 DEF Answers, Arrive, scanVars
<1>8. CASE Bus
  <2>1. UNCHANGED <<todo, door>>
    BY <1>8 DEF Bus, scanVars
  <2>2. CASE ModBusTask
    BY <1>1, <2>1, <2>2 DEF ModBusTask, RecvBegin, RecvByte, RecvEmpty
  <2>3. CASE PlcTask
    BY <2>1, <2>3, NextJobKeeps, CtrlNextKeeps, CtrlEndKeeps, DrainKeeps, SendKeeps,
       SendDoneKeeps DEF PlcTask
  <2> QED
    BY <1>8, <2>2, <2>3 DEF Bus
<1> QED
  BY <1>2, <1>3, <1>4, <1>5, <1>6, <1>7, <1>8, ScanKeeps, ScanAdminKeeps DEF Next

LEMMA InitHolds == HomeInit => DInv
<1> SUFFICES ASSUME HomeInit PROVE DInv
  OBVIOUS
<1>1. /\ ctrlnum = 0 /\ ctrlstate = [s \in Slots |-> NoCommand] /\ job = "s1" /\ stage = "test"
      /\ i = 0 /\ frame = NoCommand /\ owed = {} /\ loops = FALSE /\ overlap = FALSE
      /\ todo = <<>> /\ door = <<>>
  BY DEF HomeInit, BusInit
<1>2. NoCommand \in Commands
  BY DEF NoCommand, Commands
<1>3. todo \in Seq(Steps) /\ Len(todo) = 0 /\ door \in Seq(Doors) /\ Len(door) = 0
  BY <1>1, EmptySeq
<1>8. loops \in BOOLEAN /\ overlap \in BOOLEAN
  BY <1>1, Zenon
<1>4. PlcType
  BY <1>1, <1>2, <1>3, <1>8, SlotFacts DEF PlcType
<1>5. CountFollowsFill /\ ~AtCount
  BY <1>1, <1>3 DEF CountFollowsFill, AtCount
<1>6. Filling
  BY <1>1, <1>5, SlotFacts DEF Filling
<1>7. OwedComing
  BY <1>1 DEF OwedComing
<1> QED
  BY <1>4, <1>5, <1>6, <1>7 DEF DInv

\* The door commands of PlcTask and OpenDoor, which share ctrlstate and ctrlnum
\* with no lock: unless PlcTask was in its loop while a code was entered, every
\* door of the last code that can be reached has been sent its command when
\* PlcTask has nothing more to send, for every set of doors and number of slots.
THEOREM DoorsGetCommands == Spec => []DoorsOpened
<1>1. ASSUME DInv PROVE DoorsOpened
  <2>1. SUFFICES ASSUME ~overlap, ctrlnum = 0, ~InLoop, NEW a \in owed PROVE FALSE
    BY DEF DoorsOpened
  <2>2. Coming(a)
    BY <1>1, <2>1 DEF DInv, OwedComing
  <2> QED
    BY <2>1, <2>2, SlotFacts DEF Coming, InLoop
<1> QED
  BY <1>1, InitHolds, StepKeeps, PTL DEF Spec

(***************************************************************************)
(* The answers on the bus.  While no answer has been cut, what is received *)
(* and still to come is a run of whole answers.                            *)
(***************************************************************************)
Devices == Sensors \cup Doors
Bytes == Devices \X (1 .. FrameLen)
Follows(b, c) == IF b[2] = FrameLen THEN c[2] = 1 ELSE c = <<b[1], b[2] + 1>>

WholeAnswers(q) ==
    /\ q \in Seq(Bytes)
    /\ Len(q) > 0 => q[1][2] = 1 /\ q[Len(q)][2] = FrameLen
    /\ \A k \in 1 .. Len(q) : k < Len(q) => Follows(q[k], q[k + 1])

BusType ==
    /\ rcv \in Seq(Bytes) /\ line \in Seq(Bytes) /\ air \in Seq(Bytes)
    /\ Len(rcv) < FrameLen

Stream == rcv \o (line \o air)
Beginning(q) == \A k \in 1 .. Len(q) : q[k] = <<q[1][1], k>>
InStep == ~cut => WholeAnswers(Stream) /\ Beginning(rcv)

WInv == BusType /\ InStep

LEMMA WholeJoin ==
    ASSUME NEW p, NEW q, WholeAnswers(p), WholeAnswers(q)
    PROVE  WholeAnswers(p \o q)
<1>1. p \in Seq(Bytes) /\ q \in Seq(Bytes)
  BY DEF WholeAnswers
<1>2. /\ p \o q \in Seq(Bytes) /\ Len(p \o q) = Len(p) + Len(q)
      /\ \A k \in 1 .. Len(p) + Len(q) : (p \o q)[k] = IF k <= Len(p) THEN p[k] ELSE q[k - Len(p)]
  BY <1>1, ConcatProperties
<1>3. Len(p) \in Nat /\ Len(q) \in Nat
  BY <1>1, LenProperties
<1>4. ASSUME Len(p \o q) > 0
      PROVE  (p \o q)[1][2] = 1 /\ (p \o q)[Len(p \o q)][2] = FrameLen
  <2>1. CASE Len(p) = 0
    BY <1>2, <1>3, <1>4, <2>1 DEF WholeAnswers
  <2>2. CASE Len(p) > 0 /\ Len(q) = 0
    BY <1>2, <1>3, <1>4, <2>2 DEF WholeAnswers
  <2>3. CASE Len(p) > 0 /\ Len(q) > 0
    BY <1>2, <1>3, <1>4, <2>3 DEF WholeAnswers
  <2>4. Len(p) = 0 \/ (Len(p) > 0 /\ Len(q) = 0) \/ (Len(p) > 0 /\ Len(q) > 0)
    BY <1>3
  <2> QED
    BY <2>1, <2>2, <2>3, <2>4
<1>5. ASSUME NEW k \in 1 .. Len(p \o q), k < Len(p \o q)
      PROVE  Follows((p \o q)[k], (p \o q)[k + 1])
  <2>1. CASE k < Len(p)
    <3>1. (p \o q)[k] = p[k] /\ (p \o q)[k + 1] = p[k + 1]
      BY <1>2, <1>3, <1>5, <2>1
    <3> QED
      BY <1>2, <1>3, <2>1, <3>1 DEF WholeAnswers
  <2>2. CASE k = Len(p)
    <3>1. (p \o q)[k] = p[Len(p)] /\ (p \o q)[k + 1] = q[1] /\ Len(p) > 0 /\ Len(q) > 0
      BY <1>2, <1>3, <1>5, <2>2
    <3> QED
      BY <3>1 DEF WholeAnswers, Follows
  <2>3. CASE k > Len(p)
    <3> DEFINE m == k - Len(p)
    <3>1. m \in 1 .. Len(q) /\ m < Len(q) /\ (k + 1) - Len(p) = m + 1
      BY <1>2, <1>3, <1>5, <2>3
    <3>2. (p \o q)[k] = q[m] /\ (p \o q)[k + 1] = q[(k + 1) - Len(p)]
      BY <1>2, <1>3, <1>5, <2>3
    <3> QED
      BY <3>1, <3>2 DEF WholeAnswers
  <2>4. k < Len(p) \/ k = Len(p) \/ k > Len(p)
    BY <1>2, <1>3
  <2> QED
    BY <2>1, <2>2, <2>3, <2>4
<1> QED
  BY <1>2, <1>4, <1>5 DEF WholeAnswers

LEMMA WholeRest ==
    ASSUME NEW p \in Seq(Bytes), NEW q \in Seq(Bytes), WholeAnswers(p \o q),
           Len(p) > 0, p[Len(p)][2] = FrameLen
    PROVE  WholeAnswers(q)
<1>1. /\ Len(p \o q) = Len(p) + Len(q)
      /\ \A k \in 1 .. Len(p) + Len(q) : (p \o q)[k] = IF k <= Len(p) THEN p[k] ELSE q[k - Len(p)]
  BY ConcatProperties
<1>2. Len(p) \in Nat /\ Len(q) \in Nat
  BY LenProperties
<1>3. ASSUME NEW k \in 1 .. Len(q) PROVE (p \o q)[k + Len(p)] = q[k] /\ k + Len(p) \in 1 .. Len(p) + Len(q)
  <2>1. k + Len(p) \in 1 .. Len(p) + Len(q) /\ ~(k + Len(p) <= Len(p)) /\ (k + Len(p)) - Len(p) = k
    BY <1>2
  <2> QED
    BY <1>1, <2>1
<1>4. ASSUME Len(q) > 0 PROVE q[1][2] = 1 /\ q[Len(q)][2] = FrameLen
  <2>1. Follows((p \o q)[Len(p)], (p \o q)[Len(p) + 1])
    BY <1>1, <1>2, <1>4 DEF WholeAnswers
  <2>2. (p \o q)[Len(p)] = p[Len(p)] /\ (p \o q)[Len(p) + 1] = q[1]
    BY <1>1, <1>2, <1>4
  <2>3. (p \o q)[Len(p \o q)] = q[Len(q)]
    BY <1>1, <1>2, <1>4
  <2>4. Len(p \o q) > 0
    BY <1>1, <1>2, <1>4
  <2> QED
    BY <2>1, <2>2, <2>3, <2>4 DEF WholeAnswers, Follows
<1>5. ASSUME NEW k \in 1 .. Len(q), k < Len(q) PROVE Follows(q[k], q[k + 1])
  <2>1. k + 1 \in 1 .. Len(q) /\ (k + 1) + Len(p) = (k + Len(p)) + 1 /\ k + Len(p) < Len(p) + Len(q)
    BY <1>2, <1>5
  <2>2. (p \o q)[k + Len(p)] = q[k] /\ (p \o q)[(k + Len(p)) + 1] = q[k + 1]
    BY <1>3, <2>1
  <2>3. Follows((p \o q)[k + Len(p)], (p \o q)[(k + Len(p)) + 1])
    BY <1>1, <1>3, <2>1 DEF WholeAnswers
  <2> QED
    BY <2>2, <2>3
<1> QED
  BY <1>4, <1>5 DEF WholeAnswers

LEMMA ReplyWhole == ASSUME NEW d \in Devices PROVE WholeAnswers(Reply(d)) /\ Len(Reply(d)) = FrameLen
<1>1. FrameLen \in Nat /\ FrameLen >= 2
  BY PlcBusAssumption
<1>2. \A k \in 1 .. FrameLen : <<d, k>> \in Bytes
  BY DEF Bytes
<1>3. /\ Reply(d) \in Seq(Bytes) /\ Len(Reply(d)) = FrameLen
      /\ \A k \in 1 .. FrameLen : Reply(d)[k] = <<d, k>>
  BY <1>1, <1>2 DEF Reply
<1>4. Reply(d)[1][2] = 1 /\ Reply(d)[FrameLen][2] = FrameLen
  BY <1>1, <1>3
<1>5. ASSUME NEW k \in 1 .. FrameLen, k < FrameLen PROVE Follows(Reply(d)[k], Reply(d)[k + 1])
  <2>1. k + 1 \in 1 .. FrameLen /\ k # FrameLen
    BY <1>1, <1>5
  <2> QED
    BY <1>3, <2>1 DEF Follows
<1> QED
  BY <1>3, <1>4, <1>5 DEF WholeAnswers

\* A byte moves from the head of one sequence to the end of the one before it.
LEMMA ByteMoves ==
    ASSUME NEW p \in Seq(Bytes), NEW q \in Seq(Bytes), q # <<>>
    PROVE  /\ Head(q) \in Bytes /\ Tail(q) \in Seq(Bytes) /\ Append(p, Head(q)) \in Seq(Bytes)
           /\ Append(p, Head(q)) \o Tail(q) = p \o q
<1>1. /\ Head(q) \in Bytes /\ Tail(q) \in Seq(Bytes) /\ Len(Tail(q)) = Len(q) - 1 /\ Head(q) = q[1]
      /\ \A k \in 1 .. Len(Tail(q)) : Tail(q)[k] = q[k + 1]
  BY HeadTailProperties
<1>2. /\ Append(p, Head(q)) \in Seq(Bytes) /\ Len(Append(p, Head(q))) = Len(p) + 1
      /\ \A k \in 1 .. Len(p) : Append(p, Head(q))[k] = p[k]
      /\ Append(p, Head(q))[Len(p) + 1] = Head(q)
  BY <1>1, AppendProperties
<1>3. Len(p) \in Nat /\ Len(q) \in Nat \ {0}
  BY LenProperties, EmptySeq
<1> DEFINE a == Append(p, Head(q))
           t == Tail(q)
<1>4. a \in Seq(Bytes) /\ t \in Seq(Bytes) /\ Len(a) = Len(p) + 1 /\ Len(t) = Len(q) - 1
  BY <1>1, <1>2
<1>5. \A k \in 1 .. Len(p) + Len(q) :
          /\ k <= Len(p) => a[k] = p[k]
          /\ k = Len(p) + 1 => a[k] = q[k - Len(p)]
          /\ k > Len(p) + 1 => t[k - (Len(p) + 1)] = q[k - Len(p)]
  <2> TAKE k \in 1 .. Len(p) + Len(q)
  <2>1. ASSUME k > Len(p) + 1 PROVE t[k - (Len(p) + 1)] = q[k - Len(p)]
    <3>1. k - (Len(p) + 1) \in 1 .. Len(q) - 1 /\ (k - (Len(p) + 1)) + 1 = k - Len(p)
      BY <1>3, <2>1
    <3> QED
      BY <1>1, <3>1
  <2>2. ASSUME k = Len(p) + 1 PROVE a[k] = q[k - Len(p)]
    <3>1. k - Len(p) = 1
      BY <1>3, <2>2
    <3> QED
      BY <1>1, <1>2, <2>2, <3>1
  <2> QED
    BY <1>2, <1>3, <2>1, <2>2
<1> HIDE DEF a, t
<1>6. /\ a \o t \in Seq(Bytes) /\ Len(a \o t) = Len(a) + Len(t)
      /\ \A k \in 1 .. Len(a) + Len(t) : (a \o t)[k] = IF k <= Len(a) THEN a[k] ELSE t[k - Len(a)]
  BY <1>4, ConcatProperties
<1>7. /\ p \o q \in Seq(Bytes) /\ Len(p \o q) = Len(p) + Len(q)
      /\ \A k \in 1 .. Len(p) + Len(q) : (p \o q)[k] = IF k <= Len(p) THEN p[k] ELSE q[k - Len(p)]
  BY ConcatProperties
<1>8. Len(a) + Len(t) = Len(p) + Len(q)
  BY <1>3, <1>4
<1>9. \A k \in 1 .. Len(p) + Len(q) : (a \o t)[k] = (p \o q)[k]
  <2> TAKE k \in 1 .. Len(p) + Len(q)
  <2>1. k \in 1 .. Len(a) + Len(t) /\ k \in Nat
    BY <1>3, <1>8
  <2>2. /\ (a \o t)[k] = IF k <= Len(a) THEN a[k] ELSE t[k - Len(a)]
        /\ (p \o q)[k] = IF k <= Len(p) THEN p[k] ELSE q[k - Len(p)]
    BY <1>6, <1>7, <2>1
  <2>3. /\ k <= Len(p) => a[k] = p[k]
        /\ k = Len(p) + 1 => a[k] = q[k - Len(p)]
        /\ k > Len(p) + 1 => t[k - (Len(p) + 1)] = q[k - Len(p)]
    BY <1>5
  <2>4. CASE k <= Len(p)
    BY <1>3, <1>4, <2>1, <2>2, <2>3, <2>4
  <2>5. CASE k = Len(p) + 1
    BY <1>3, <1>4, <2>1, <2>2, <2>3, <2>5
  <2>6. CASE k > Len(p) + 1
    BY <1>3, <1>4, <2>1, <2>2, <2>3, <2>6
  <2>7. k <= Len(p) \/ k = Len(p) + 1 \/ k > Len(p) + 1
    BY <1>3, <2>1
  <2> QED
    BY <2>4, <2>5, <2>6, <2>7
<1>10. a \o t = p \o q
  BY <1>6, <1>7, <1>8, <1>9, SeqEqual
<1> QED
  BY <1>1, <1>2, <1>10 DEF a, t

\* UplinkModBusTask takes a byte.
LEMMA NextByte ==
    ASSUME WInv, ~cut, line # <<>>
    PROVE  Beginning(Append(rcv, Head(line)))
<1> DEFINE bytes == Append(rcv, Head(line))
           n == Len(rcv)
<1>1. rcv \in Seq(Bytes) /\ line \in Seq(Bytes) /\ air \in Seq(Bytes) /\ n < FrameLen /\ n \in Nat
  BY LenProperties DEF WInv, BusType
<1>2. FrameLen \in Nat
  BY PlcBusAssumption
<1>3. /\ bytes \in Seq(Bytes) /\ Len(bytes) = n + 1 /\ bytes[n + 1] = Head(line) /\ Head(line) \in Bytes
      /\ \A k \in 1 .. n : bytes[k] = rcv[k]
      /\ Head(line) = line[1] /\ Len(line) \in Nat \ {0}
  BY <1>1, HeadTailProperties, AppendProperties, EmptySeq
<1>4. WholeAnswers(Stream) /\ Beginning(rcv)
  BY DEF WInv, InStep
<1>5. /\ line \o air \in Seq(Bytes) /\ (line \o air)[1] = line[1]
      /\ Len(line \o air) = Len(line) + Len(air) /\ Len(air) \in Nat
  BY <1>1, <1>3, ConcatProperties, LenProperties
<1>6. /\ Len(Stream) = n + Len(line \o air)
      /\ \A k \in 1 .. n + Len(line \o air) : Stream[k] = IF k <= n THEN rcv[k] ELSE (line \o air)[k - n]
  BY <1>1, <1>5, ConcatProperties DEF Stream
<1>7. Stream[n + 1] = Head(line) /\ n + 1 <= Len(Stream) /\ Len(Stream) \in Nat
  <2>1. n + 1 \in 1 .. n + Len(line \o air) /\ ~(n + 1 <= n) /\ (n + 1) - n = 1
    BY <1>1, <1>3, <1>5
  <2> QED
    BY <1>1, <1>3, <1>5, <1>6, <2>1
<1>8. bytes[n + 1] = <<bytes[1][1], n + 1>>
  <2>1. CASE n = 0
    <3>1. Head(line)[2] = 1
      BY <1>4, <1>7, <2>1 DEF WholeAnswers
    <3>2. Head(line) = <<Head(line)[1], Head(line)[2]>>
      BY <1>3 DEF Bytes
    <3> QED
      BY <1>3, <2>1, <3>1, <3>2
  <2>2. CASE n > 0
    <3>1. Follows(Stream[n], Stream[n + 1])
      BY <1>1, <1>4, <1>7, <2>2 DEF WholeAnswers
    <3>2. Stream[n] = rcv[n] /\ rcv[n] = <<rcv[1][1], n>> /\ bytes[1] = rcv[1]
      BY <1>1, <1>3, <1>4, <1>5, <1>6, <2>2 DEF Beginning
    <3>3. n # FrameLen
      BY <1>1, <1>2
    <3> QED
      BY <1>3, <1>7, <3>1, <3>2, <3>3 DEF Follows
  <2> QED
    BY <1>1, <2>1, <2>2
<1>9. ASSUME NEW k \in 1 .. n PROVE bytes[k] = <<bytes[1][1], k>>
  <2>1. rcv[k] = <<rcv[1][1], k>> /\ bytes[k] = rcv[k] /\ bytes[1] = rcv[1]
    BY <1>1, <1>3, <1>4 DEF Beginning
  <2> QED
    BY <2>1
<1>10. \A k \in 1 .. Len(bytes) : k \in 1 .. n \/ k = n + 1
  BY <1>1, <1>3
<1> HIDE DEF bytes, n
<1>11. Beginning(bytes)
  BY <1>8, <1>9, <1>10 DEF Beginning
<1> QED
  BY <1>11 DEF bytes

LEMMA RecvByteKeeps == ASSUME WInv, RecvByte PROVE WInv'
<1> DEFINE bytes == Append(rcv, Head(line))
<1>1. /\ line # <<>> /\ line' = Tail(line) /\ rcv' = (IF Complete(bytes) THEN <<>> ELSE bytes)
      /\ UNCHANGED <<air, cut>>
  BY DEF RecvByte
<1>2. rcv \in Seq(Bytes) /\ line \in Seq(Bytes) /\ air \in Seq(Bytes) /\ Len(rcv) \in Nat /\ Len(rcv) < FrameLen
  BY LenProperties DEF WInv, BusType
<1>3. FrameLen \in Nat /\ FrameLen > 0
  BY PlcBusAssumption
<1>4. /\ Head(line) \in Bytes /\ Tail(line) \in Seq(Bytes) /\ bytes \in Seq(Bytes)
      /\ bytes \o Tail(line) = rcv \o line
  BY <1>1, <1>2, ByteMoves
<1>5. Len(bytes) = Len(rcv) + 1
  BY <1>2, <1>4, AppendProperties
<1>6. ~cut => Beginning(bytes)
  BY <1>1, NextByte
<1>7. Stream = bytes \o (Tail(line) \o air)
  <2>1. rcv \o (line \o air) = (rcv \o line) \o air
    BY <1>2, ConcatAssociative, SMTT(30)
  <2>2. (bytes \o Tail(line)) \o air = bytes \o (Tail(line) \o air)
    BY <1>2, <1>4, ConcatAssociative, SMTT(30)
  <2> QED
    BY <1>4, <2>1, <2>2 DEF Stream
<1>8. Tail(line) \o air \in Seq(Bytes)
  BY <1>2, <1>4, ConcatProperties
<1>9. ~cut => WholeAnswers(Stream)
  BY DEF WInv, InStep
<1> HIDE DEF bytes
<1>10. CASE Complete(bytes)
  <2>1. rcv' = <<>> /\ Len(bytes) = FrameLen
    BY <1>1, <1>2, <1>3, <1>5, <1>10 DEF Complete
  <2>2. rcv' \in Seq(Bytes) /\ Len(rcv') = 0
    BY <2>1, EmptySeq
  <2>3. Stream' = Tail(line) \o air
    BY <1>1, <1>8, <2>1, ConcatEmptySeq DEF Stream
  <2>4. ASSUME ~cut PROVE WholeAnswers(Tail(line) \o air)
    <3>1. bytes[Len(bytes)] = <<bytes[1][1], FrameLen>>
      BY <1>3, <1>6, <2>1, <2>4 DEF Beginning
    <3>2. bytes[Len(bytes)][2] = FrameLen
      BY <3>1
    <3>3. WholeAnswers(bytes \o (Tail(line) \o air)) /\ Len(bytes) > 0
      BY <1>3, <1>7, <1>9, <2>1, <2>4
    <3> QED
      BY <1>4, <1>8, <3>2, <3>3, WholeRest
  <2>5. BusType'
    BY <1>1, <1>2, <1>3, <1>4, <2>2 DEF BusType
  <2>6. InStep'
    BY <1>1, <2>2, <2>3, <2>4 DEF InStep, Beginning
  <2> QED
    BY <2>5, <2>6 DEF WInv
<1>11. CASE ~Complete(bytes)
  <2>1. rcv' = bytes /\ Len(bytes) < FrameLen
    BY <1>1, <1>2, <1>3, <1>5, <1>11 DEF Complete
  <2>2. Stream' = Stream
    BY <1>1, <1>7, <2>1 DEF Stream
  <2>3. BusType'
    BY <1>1, <1>2, <1>4, <2>1 DEF BusType
  <2>4. InStep'
    BY <1>1, <1>6, <1>9, <2>1, <2>2 DEF InStep
  <2> QED
    BY <2>3, <2>4 DEF WInv
<1> QED
  BY <1>10, <1>11

LEMMA ArriveKeeps == ASSUME WInv, Arrive PROVE WInv'
<1>1. air # <<>> /\ line' = Append(line, Head(air)) /\ air' = Tail(air) /\ UNCHANGED <<cut, rcv>>
  BY DEF Arrive, recvVars
<1>2. rcv \in Seq(Bytes) /\ line \in Seq(Bytes) /\ air \in Seq(Bytes)
  BY DEF WInv, BusType
<1>3. line' \in Seq(Bytes) /\ air' \in Seq(Bytes) /\ line' \o air' = line \o air
  BY <1>1, <1>2, ByteMoves
<1>4. Stream' = Stream
  BY <1>1, <1>3 DEF Stream
<1>5. BusType'
  BY <1>1, <1>3 DEF WInv, BusType
<1>6. InStep'
  BY <1>1, <1>4 DEF WInv, InStep
<1> QED
  BY <1>5, <1>6 DEF WInv

\* PlcTask sends a frame; the device it is for may answer.
LEMMA SendStream == ASSUME DInv, WInv, Send PROVE WInv'
<1>1. /\ stage = "drain" /\ line = <<>>
      /\ air' = air \/ air' = air \o Reply(Target)
      /\ cut' = (cut /\ ~Settled)
      /\ UNCHANGED <<line, rcv>>
  BY DEF Send, recvVars
<1>2. Target \in Devices
  BY <1>1 DEF Target, Devices, Sensors, DInv, PlcType
<1>3. WholeAnswers(Reply(Target)) /\ Reply(Target) \in Seq(Bytes)
  BY <1>2, ReplyWhole DEF WholeAnswers
<1>4. rcv \in Seq(Bytes) /\ line \in Seq(Bytes) /\ air \in Seq(Bytes) /\ Len(rcv) < FrameLen
  BY DEF WInv, BusType
<1>5. air' \in Seq(Bytes)
  BY <1>1, <1>3, <1>4, ConcatProperties
<1>6. BusType'
  BY <1>1, <1>4, <1>5 DEF BusType
<1>7. <<>> \in Seq(Bytes) /\ Len(<<>>) = 0
  BY EmptySeq
<1>8. ASSUME ~cut' PROVE WholeAnswers(Stream) /\ Beginning(rcv)
  <2>1. CASE ~cut
    BY <2>1 DEF WInv, InStep
  <2>2. CASE Settled
    <3>1. Stream = <<>> /\ rcv = <<>>
      BY <1>7, <2>2, ConcatEmptySeq DEF Settled, Stream
    <3>2. WholeAnswers(<<>>) /\ Beginning(<<>>)
      BY <1>7 DEF WholeAnswers, Beginning
    <3> QED
      BY <3>1, <3>2
  <2> QED
    BY <1>1, <1>8, <2>1, <2>2
<1>9. ASSUME air' = air \o Reply(Target) PROVE Stream' = Stream \o Reply(Target)
  <2>1. line \o air = air /\ line' \o air' = air'
    BY <1>1, <1>4, <1>5, ConcatEmptySeq
  <2>2. rcv \o (air \o Reply(Target)) = (rcv \o air) \o Reply(Target)
    <3> DEFINE answer == Reply(Target)
    <3>1. answer \in Seq(Bytes)
      BY <1>3
    <3> HIDE DEF answer
    <3>2. (rcv \o air) \o answer = rcv \o (air \o answer)
      BY <1>4, <3>1, ConcatAssociative, SMTT(30)
    <3> QED
      BY <3>2, Zenon DEF answer
  <2>3. Stream' = rcv \o air'
    BY <1>1, <2>1 DEF Stream
  <2> QED
    BY <1>9, <2>1, <2>2, <2>3 DEF Stream
<1>10. ASSUME ~cut' PROVE WholeAnswers(Stream)' /\ Beginning(rcv)'
  <2>1. Beginning(rcv)'
    BY <1>1, <1>8, <1>10 DEF Beginning
  <2>2. CASE air' = air
    <3>1. Stream' = Stream
      BY <1>1, <2>2 DEF Stream
    <3> QED
      BY <1>8, <1>10, <2>1, <3>1
  <2>3. CASE air' = air \o Reply(Target)
    <3>1. WholeAnswers(Stream \o Reply(Target))
      BY <1>3, <1>8, <1>10, WholeJoin
    <3> QED
      BY <1>9, <2>1, <2>3, <3>1
  <2> QED
    BY <1>1, <2>2, <2>3
<1> QED
  BY <1>6, <1>10 DEF WInv, InStep

LEMMA RecvBeginKeeps == ASSUME WInv, RecvBegin PROVE WInv'
<1> DEFINE late == rcv # <<>> /\ tcnt + 1 >= RecvTimeout
<1>1. rcv' = (IF late THEN <<>> ELSE rcv) /\ cut' = (cut \/ late) /\ UNCHANGED <<air, line>>
  BY DEF RecvBegin
<1>2. <<>> \in Seq(Bytes) /\ Len(<<>>) = 0 /\ FrameLen > 0
  BY EmptySeq, PlcBusAssumption
<1> HIDE DEF late
<1>3. BusType'
  BY <1>1, <1>2 DEF WInv, BusType
<1>4. ASSUME ~cut' PROVE ~cut /\ rcv' = rcv /\ Stream' = Stream
  BY <1>1, <1>4 DEF Stream
<1>5. InStep'
  BY <1>4 DEF WInv, InStep, Beginning
<1> QED
  BY <1>3, <1>5 DEF WInv

LEMMA DrainCuts == ASSUME WInv, Drain PROVE WInv'
<1>1. line # <<>> /\ line' = Tail(line) /\ cut' = TRUE /\ UNCHANGED <<air, rcv>>
  BY DEF Drain, recvVars
<1>2. Tail(line) \in Seq(Bytes)
  BY <1>1, HeadTailProperties DEF WInv, BusType
<1> QED
  BY <1>1, <1>2 DEF WInv, BusType, InStep

LEMMA StreamKeeps == ASSUME DInv, WInv, [Next]_vars PROVE WInv'
<1>1. ASSUME UNCHANGED <<rcv, line, air, cut>> PROVE WInv'
  BY <1>1 DEF WInv, BusType, InStep, Stream
<1>2. CASE UNCHANGED vars
  BY <1>1, <1>2 DEF vars, busVars, lineVars, recvVars
<1>3. CASE Scan \/ ScanAdmin \/ ShellTimer \/ SceneTimer
  BY <1>1, <1>3 DEF Scan, ScanAdmin, ShellTimer, SceneTimer, busVars, lineVars, recvVars
<1>4. CASE Scenes \/ Music
  BY <1>1, <1>4 DEF Scenes, Music, busVars, lineVars, recvVars
<1>5. CASE QrPause \/ QrMute \/ QrVoice \/ QrScene \/ QrDoor
  BY <1>1, <1>5 DEF QrPause, QrMute, QrVoice, QrScene, QrDoor, busVars, lineVars, recvVars
<1>6. CASE OpenDoorFill \/ OpenDoorCount
  BY <1>1, <1>6 DEF OpenDoorFill, OpenDoorCount, lineVars, recvVars
<1>7. CASE SensorTimer
  BY <1>1, <1>7 DEF SensorTimer, RTimeUpdateTemperature, lineVars, recvVars
<1>8. CASE Answers
  BY <1>8, ArriveKeeps DEF Answers
<1>9. CASE NextJob \/ CtrlNext \/ CtrlEnd \/ SendDone
  BY <1>1, <1>9 DEF NextJob, CtrlNext, CtrlEnd, SendDone, lineVars, recvVars
<1>10. CASE RecvEmpty
  BY <1>1, <1>10 DEF RecvEmpty, lineVars
<1> QED
  BY <1>2, <1>3, <1>4, <1>5, <1>6, <1>7, <1>8, <1>9, <1>10, SendStream, DrainCuts, RecvBeginKeeps,
     RecvByteKeeps DEF Next, QrCodeTask, Bus, PlcTask, ModBusTask

\* Every frame that UplinkModBusTask takes for a message while no answer has been
\* cut is the whole answer of one device, however PlcTask's sending, the arrival
\* of the bytes and the polls interleave, for every length of frames and timeout.
THEOREM FramesAreWhole == Spec => FramesWhole
<1>1. HomeInit => WInv
  <2> SUFFICES ASSUME HomeInit PROVE WInv
    OBVIOUS
  <2>1. rcv = <<>> /\ line = <<>> /\ air = <<>>
    BY DEF HomeInit, BusInit
  <2>2. <<>> \in Seq(Bytes) /\ Len(<<>>) = 0 /\ FrameLen > 0
    BY EmptySeq, PlcBusAssumption
  <2>3. Stream = <<>>
    BY <2>1, <2>2, ConcatEmptySeq DEF Stream
  <2>4. WholeAnswers(<<>>) /\ Beginning(<<>>)
    BY <2>2 DEF WholeAnswers, Beginning
  <2> QED
    BY <2>1, <2>2, <2>3, <2>4 DEF WInv, BusType, InStep
<1>2. ASSUME WInv
      PROVE  [RecvByte /\ ~cut /\ Complete(Append(rcv, Head(line))) =>
                  \E d \in Sensors \cup Doors : Append(rcv, Head(line)) = Reply(d)]_busVars
  <2>1. SUFFICES ASSUME RecvByte, ~cut, Complete(Append(rcv, Head(line)))
                 PROVE  \E d \in Sensors \cup Doors : Append(rcv, Head(line)) = Reply(d)
    OBVIOUS
  <2> DEFINE bytes == Append(rcv, Head(line))
  <2>2. line # <<>>
    BY <2>1 DEF RecvByte
  <2>3. rcv \in Seq(Bytes) /\ line \in Seq(Bytes) /\ Len(rcv) \in Nat /\ Len(rcv) < FrameLen
    BY <1>2, LenProperties DEF WInv, BusType
  <2>4. FrameLen \in Nat /\ FrameLen > 0
    BY PlcBusAssumption
  <2>5. bytes \in Seq(Bytes) /\ Len(bytes) = Len(rcv) + 1
    BY <2>2, <2>3, HeadTailProperties, AppendProperties
  <2>6. Beginning(bytes)
    BY <1>2, <2>1, <2>2, NextByte
  <2>7. bytes \in Seq(Bytes) /\ Len(bytes) = FrameLen
    BY <2>1, <2>3, <2>4, <2>5 DEF Complete
  <2> HIDE DEF bytes
  <2>8. bytes[1] \in Bytes
    BY <2>4, <2>7, ElementOfSeq
  <2>9. bytes[1][1] \in Devices
    BY <2>8 DEF Bytes
  <2>10. Reply(bytes[1][1]) \in Seq(Bytes) /\ Len(Reply(bytes[1][1])) = FrameLen
    BY <2>9, ReplyWhole DEF WholeAnswers
  <2>11. \A k \in 1 .. Len(bytes) : bytes[k] = Reply(bytes[1][1])[k]
    BY <2>4, <2>6, <2>7 DEF Beginning, Reply
  <2>12. bytes = Reply(bytes[1][1])
    BY <2>7, <2>10, <2>11, SeqEqual
  <2> QED
    BY <2>9, <2>12 DEF bytes, Devices
<1> QED
  BY <1>1, <1>2, InitHolds, StepKeeps, StreamKeeps, PTL DEF Spec, FramesWhole

=============================================================================
