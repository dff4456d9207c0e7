----------------------------- MODULE ParamSave -----------------------------
(***************************************************************************)
(* The terminal and the user parameters (param/term.c, unique.c), the text *)
(* files that keep them (sys/storage/xin.c), the flags that say which file *)
(* is out of date (operation.c), and the items through which they are set  *)
(* (save/itemop.c, para_term.c, para_uni.c).  Items are set and SaveParam  *)
(* is called by any of Tasks.                                              *)
(*                                                                         *)
(* A parameter is abstracted to the number of the write that set it; 0 is  *)
(* its default.  Of each file the model keeps the entries whose name or    *)
(* place matters, and "cfg" for the others of the terminal parameters.     *)
(* The scene and timer task files are saved by the same loop but never     *)
(* loaded (param_init.c) and are left out.                                 *)
(***************************************************************************)
EXTENDS Integers, Sequences, FiniteSetsExt

CONSTANTS
    Tasks,   \* the threads that set parameters
    MaxVer   \* bound: number of writes

ASSUME ParamSaveAssumption == MaxVer \in Nat /\ "none" \notin Tasks

VARIABLES
    mem,       \* ParaTermG and ParaUniG
    file,      \* the entries of each file, in order, or NoFile
    SaveFlag,  \* the parameter groups whose bit is set
    lock,      \* holder of ParamSaveSysLock
    xlock,     \* holder of XinMutex
    xbuf,      \* XinBuffer
    pc, cp,    \* per task: where it is, and the file it is saving
    ret,       \* per task: who called SaveParaTerm or SaveParaUni
    orf, reg,  \* per task: argument of SetSaveParamFlag, SaveFlag as it read it
    \* Observation:
    ver,       \* number of the last write
    start,     \* per task: the parameters when it called SaveParaTerm/Uni
    done,      \* what the last complete save of each parameter has saved
    broken,    \* groups with a file that could not be written in this uptime
    cut,       \* groups whose saving a power cut has ended, until it is done again
    overlap    \* two tasks have been at work at once in this uptime

None == "none"
TermFields == {"svraddr", "svraddr_1", "svraddr_2", "term"}
UniFields == {"portlisten", "autogetip", "ipuser", "user"}
Field == TermFields \cup UniFields
Files == {"term", "bak", "uni"}   \* term.xin, its backup, unique.xin
Groups == {"term", "uni"}
NoFile == <<>>
NoOne == None

GroupOf(c) == IF c = "uni" THEN "uni" ELSE "term"
FieldsOf(g) == IF g = "uni" THEN UniFields ELSE TermFields

memVars == <<mem, SaveFlag>>
lockVars == <<lock, xlock, xbuf>>
taskVars == <<pc, cp, ret, orf, reg>>
ghostVars == <<ver, start, done, broken, cut>>
vars == <<memVars, file, lockVars, taskVars, ghostVars, overlap>>

(***************************************************************************)
(* The text files.  SaveParaTerm and SaveParaUni write entries name=value  *)
(* one after the other.                                                    *)
(***************************************************************************)
Entry(k, v) == [key |-> k, val |-> v]

\* SaveParaTerm: the names of the second and third server address are not
\* the ones LoadParaTerm reads.
TermText(m) ==
    << Entry("svraddrIp", m["svraddr"]), Entry("svraddrIp2", m["svraddr_1"]),
       Entry("svraddrIp3", m["svraddr_2"]), Entry("cfg", m["term"]) >>

\* SaveParaUni: termip and userinfo are written under the same names.
UniText(m) ==
    << Entry("portlisten", m["portlisten"]), Entry("autogetip", m["autogetip"]),
       Entry("username", m["ipuser"]), Entry("username", m["user"]) >>

Text(c, m) == IF c = "uni" THEN UniText(m) ELSE TermText(m)

Hits(f, k) == {i \in DOMAIN f : f[i].key = k}

\* FindVariable searches from pscan to the end, then from the beginning to
\* pscan, and leaves pscan behind what it found.  Without a hit it stops where
\* it began, or at the second entry if it began at the first.
FindVariable(f, pscan, k) ==
    LET ahead == {i \in Hits(f, k) : i >= pscan}
        i == IF ahead # {} THEN Min(ahead) ELSE Min(Hits(f, k))
    IN  IF Hits(f, k) = {} THEN [val |-> 0, pscan |-> IF pscan = 1 THEN 2 ELSE pscan]
        ELSE [val |-> f[i].val, pscan |-> i + 1]

\* The defaults.
LoadDefParaTerm == [x \in TermFields |-> 0]
LoadDefParaUni == [x \in UniFields |-> 0]
LoadDef == [x \in Field |-> IF x \in UniFields THEN LoadDefParaUni[x] ELSE LoadDefParaTerm[x]]

\* LoadParaTerm from an opened file.
LoadParaTerm(f) ==
    LET a == FindVariable(f, 1, "svraddrIp")
        b == FindVariable(f, a.pscan, "svraddrIp1")
        c == FindVariable(f, b.pscan, "svraddrIp2")
        d == FindVariable(f, c.pscan, "cfg")
    IN  [svraddr |-> a.val, svraddr_1 |-> b.val, svraddr_2 |-> c.val, term |-> d.val]

\* LoadParaUni: the names are not read in the order in which
\* they are written.
LoadParaUni(f) ==
    LET a == FindVariable(f, 1, "autogetip")
        p == FindVariable(f, a.pscan, "portlisten")
        i == FindVariable(f, p.pscan, "username")
        u == FindVariable(f, i.pscan, "username")
    IN  [autogetip |-> a.val, portlisten |-> p.val, ipuser |-> i.val, user |-> u.val]

\* ParamInit: the backup is read when term.xin cannot be opened; a file that is
\* missing or cut short leaves the defaults.
ParamInit(fs) ==
    LET t == IF fs["term"] # NoFile THEN fs["term"] ELSE fs["bak"]
    IN  [x \in Field |-> IF x \in UniFields THEN LoadParaUni(fs["uni"])[x]
                         ELSE LoadParaTerm(t)[x]]

(***************************************************************************)
(* Setting a parameter: write_item applies it and calls SetSaveParamFlag   *)
(* with the flag of the item's table entry.  Refused items (length,        *)
(* password level, unknown number) change nothing.                         *)
(***************************************************************************)
Item(fs, g) == [fields |-> fs, flag |-> g]
\* Items 0x8010 to 0x8012, those of the other terminal parameters, 0x7500, which
\* copies termip up to its password, 0x7504, and 0x8019, which sets termip.username and flags
\* the terminal parameters.  A group item is a run of single ones.
Items ==
    { Item({"svraddr"}, "term"), Item({"svraddr_1"}, "term"), Item({"svraddr_2"}, "term"),
      Item({"term"}, "term"), Item({"autogetip", "ipuser"}, "uni"),
      Item({"user"}, "uni"), Item({"ipuser"}, "term") }

Ver == ver + 1

write_item(t, i) ==
    /\ pc[t] = "idle" /\ ver < MaxVer
    /\ ver' = Ver /\ mem' = [x \in Field |-> IF x \in i.fields THEN Ver ELSE mem[x]]
    /\ orf' = [orf EXCEPT ![t] = i.flag]
    /\ pc' = [pc EXCEPT ![t] = "or"]
    /\ UNCHANGED <<SaveFlag, file, lockVars, cp, ret, reg, start, done, broken, cut>>

\* SaveParaTerm or SaveParaUni is called.
Call(t, g, m, r) ==
    /\ pc' = [pc EXCEPT ![t] = "open"] /\ cp' = [cp EXCEPT ![t] = g]
    /\ ret' = [ret EXCEPT ![t] = r] /\ start' = [start EXCEPT ![t] = m]

\* Item 0x7502, arming and disarming: alarm_flag changes and SaveParaTerm is
\* called on the spot; write_item then flags the user parameters.
paraterm_reset(t) ==
    /\ pc[t] = "idle" /\ ver < MaxVer
    /\ ver' = Ver /\ mem' = [mem EXCEPT !["term"] = Ver]
    /\ Call(t, "term", mem', "reset")
    /\ orf' = [orf EXCEPT ![t] = "uni"]
    /\ UNCHANGED <<SaveFlag, file, lockVars, reg, done, broken, cut>>

\* SaveFlag |= flag, a read and a write.
SetSaveParamFlagRead(t) ==
    /\ pc[t] = "or"
    /\ reg' = [reg EXCEPT ![t] = SaveFlag]
    /\ pc' = [pc EXCEPT ![t] = "orwrite"]
    /\ UNCHANGED <<memVars, file, lockVars, cp, ret, orf, ghostVars>>

\* Mutant: the flag is assigned, not added.
SetSaveParamFlagAssign(t) ==
    /\ pc[t] = "orwrite"
    /\ SaveFlag' = {orf[t]} /\ reg' = [reg EXCEPT ![t] = {}]
    /\ pc' = [pc EXCEPT ![t] = "idle"]
    /\ UNCHANGED <<mem, file, lockVars, cp, ret, orf, ghostVars>>

SetSaveParamFlagWrite(t) ==
    /\ pc[t] = "orwrite"
    /\ SaveFlag' = reg[t] \cup {orf[t]} /\ reg' = [reg EXCEPT ![t] = {}]
    /\ pc' = [pc EXCEPT ![t] = "idle"]
    /\ UNCHANGED <<mem, file, lockVars, cp, ret, orf, ghostVars>>

(***************************************************************************)
(* SaveParam.                                                              *)
(***************************************************************************)
SaveParam(t) ==
    /\ pc[t] = "idle" /\ lock = NoOne
    /\ lock' = t
    /\ pc' = [pc EXCEPT ![t] = "scanterm"]
    /\ UNCHANGED <<memVars, file, xlock, xbuf, cp, ret, orf, reg, ghostVars>>

SaveParamTerm(t) ==
    /\ pc[t] = "scanterm"
    /\ IF "term" \in SaveFlag THEN Call(t, "term", mem, "save")
       ELSE pc' = [pc EXCEPT ![t] = "scanuni"] /\ UNCHANGED <<cp, ret, start>>
    /\ UNCHANGED <<memVars, file, lockVars, orf, reg, ver, done, broken, cut>>

SaveParamUni(t) ==
    /\ pc[t] = "scanuni"
    /\ IF "uni" \in SaveFlag THEN Call(t, "uni", mem, "save")
       ELSE pc' = [pc EXCEPT ![t] = "unlock"] /\ UNCHANGED <<cp, ret, start>>
    /\ UNCHANGED <<memVars, file, lockVars, orf, reg, ver, done, broken, cut>>

SaveParamUnlock(t) ==
    /\ pc[t] = "unlock"
    /\ lock' = IF lock = t THEN NoOne ELSE lock
    /\ pc' = [pc EXCEPT ![t] = "clear"]
    /\ UNCHANGED <<memVars, file, xlock, xbuf, cp, ret, orf, reg, ghostVars>>

\* SaveFlag = 0, after the unlock.
SaveParamClear(t) ==
    /\ pc[t] = "clear"
    /\ SaveFlag' = {}
    /\ pc' = [pc EXCEPT ![t] = "idle"]
    /\ UNCHANGED <<mem, file, lockVars, cp, ret, orf, reg, ghostVars>>

(***************************************************************************)
(* SaveParaTerm and SaveParaUni: XinOpen takes XinMutex, the entries go to *)
(* XinBuffer (in one step: an entry taken later is at least as new),       *)
(* XinClose removes the old file, creates and writes the new one and gives *)
(* the mutex back.  SaveParaTerm does it again for the backup.             *)
(***************************************************************************)
XinOpen(t) ==
    /\ pc[t] = "open" /\ xlock = NoOne
    /\ xlock' = t /\ xbuf' = Text(cp[t], mem)
    /\ pc' = [pc EXCEPT ![t] = "remove"]
    /\ UNCHANGED <<memVars, file, lock, cp, ret, orf, reg, ghostVars>>

\* Mutant: both copies are removed before the first is written.
XinCloseRemoveBoth(t) ==
    /\ pc[t] = "remove"
    /\ file' = [c \in Files |-> IF GroupOf(c) = GroupOf(cp[t]) THEN NoFile ELSE file[c]]
    /\ pc' = [pc EXCEPT ![t] = "write"]
    /\ UNCHANGED <<memVars, lockVars, cp, ret, orf, reg, ghostVars>>

XinCloseRemove(t) ==
    /\ pc[t] = "remove"
    /\ file' = [file EXCEPT ![cp[t]] = NoFile]
    /\ pc' = [pc EXCEPT ![t] = "write"]
    /\ UNCHANGED <<memVars, lockVars, cp, ret, orf, reg, ghostVars>>

\* After XinClose: the backup, or back to the caller.
AfterClose(t) ==
    IF cp[t] = "term"
    THEN /\ cp' = [cp EXCEPT ![t] = "bak"] /\ pc' = [pc EXCEPT ![t] = "open"]
         /\ UNCHANGED <<ret, start>>
    ELSE /\ pc' = [pc EXCEPT ![t] = IF ret[t] = "reset" THEN "or"
                                    ELSE IF cp[t] = "bak" THEN "scanuni" ELSE "unlock"]
         /\ cp' = [cp EXCEPT ![t] = None] /\ ret' = [ret EXCEPT ![t] = None]
         /\ start' = [start EXCEPT ![t] = [x \in Field |-> 0]]

\* A complete save fulfils the promise for its group, unless a file of the
\* group could not be written in this uptime.
Saved(t) ==
    LET g == GroupOf(cp[t])
    IN  IF cp[t] = "term" \/ g \in broken THEN UNCHANGED <<done, cut>>
        ELSE /\ done' = [x \in Field |-> IF x \in FieldsOf(g)
                                         THEN Max({done[x], start[t][x]}) ELSE done[x]]
             /\ cut' = cut \ {g}

XinCloseWrite(t) ==
    /\ pc[t] = "write"
    /\ file' = [file EXCEPT ![cp[t]] = xbuf]
    /\ xlock' = NoOne /\ xbuf' = <<>>
    /\ Saved(t) /\ AfterClose(t)
    /\ UNCHANGED <<memVars, lock, orf, reg, ver, broken>>

\* fopen fails, or fwrite writes less: nobody looks at the result.
XinCloseFail(t) ==
    /\ pc[t] = "write"
    /\ broken' = broken \cup {GroupOf(cp[t])}
    /\ done' = [x \in Field |-> IF x \in FieldsOf(GroupOf(cp[t])) THEN 0 ELSE done[x]]
    /\ xlock' = NoOne /\ xbuf' = <<>>
    /\ AfterClose(t)
    /\ UNCHANGED <<memVars, file, lock, orf, reg, ver, cut>>

(***************************************************************************)
(* Starts of the program.                                                  *)
(***************************************************************************)
Idle == [t \in Tasks |-> "idle"]
Nowhere == [t \in Tasks |-> None]

Init ==
    /\ mem = LoadDef /\ file = [c \in Files |-> NoFile] /\ SaveFlag = {}
    /\ lock = NoOne /\ xlock = NoOne /\ xbuf = <<>>
    /\ pc = Idle /\ cp = Nowhere /\ ret = Nowhere
    /\ orf = Nowhere /\ reg = [t \in Tasks |-> {}]
    /\ ver = 0 /\ start = [t \in Tasks |-> [x \in Field |-> 0]]
    /\ done = [x \in Field |-> 0] /\ broken = {} /\ cut = {} /\ overlap = FALSE

\* A file of the group has been removed and its successor is not complete.
BeingWritten(g) == \E t \in Tasks : pc[t] = "write" /\ cp[t] \in Files /\ GroupOf(cp[t]) = g

\* There may be no other copy: unique.xin has no backup, and after a power cut
\* one copy of term.xin is missing until both have been written again.
Exposed(g) == g = "uni" \/ g \in cut

Restart ==
    /\ mem' = ParamInit(file) /\ SaveFlag' = {}
    /\ lock' = NoOne /\ xlock' = NoOne /\ xbuf' = <<>>
    /\ pc' = Idle /\ cp' = Nowhere /\ ret' = Nowhere
    /\ orf' = Nowhere /\ reg' = [t \in Tasks |-> {}]
    /\ start' = [t \in Tasks |-> [x \in Field |-> 0]]
    /\ done' = [x \in Field |-> IF \E g \in Groups : /\ x \in FieldsOf(g)
                                                     /\ BeingWritten(g) /\ Exposed(g)
                                THEN 0 ELSE done[x]]
    /\ cut' = cut \cup {g \in Groups : BeingWritten(g)}
    /\ broken' = {} /\ overlap' = FALSE
    /\ UNCHANGED <<file, ver>>

PowerCut == Restart

\* SysLockHalt takes ParamSaveSysLock.
SysRestart == lock = NoOne /\ Restart

TaskStep(t) ==
    \/ \E i \in Items : write_item(t, i)
    \/ paraterm_reset(t)
    \/ SetSaveParamFlagRead(t) \/ SetSaveParamFlagWrite(t)
    \/ SaveParam(t) \/ SaveParamTerm(t) \/ SaveParamUni(t)
    \/ SaveParamUnlock(t) \/ SaveParamClear(t)
    \/ XinOpen(t) \/ XinCloseRemove(t) \/ XinCloseWrite(t) \/ XinCloseFail(t)

Observe == overlap' = (overlap \/ \E t, u \in Tasks : t # u /\ pc'[t] # "idle" /\ pc'[u] # "idle")

Next ==
    \/ \E t \in Tasks : TaskStep(t) /\ Observe
    \/ PowerCut
    \/ SysRestart

Spec == Init /\ [][Next]_vars

(***************************************************************************)
(* Properties.                                                             *)
(***************************************************************************)
\* The parameters that come back under the name under which they were written.
Kept == Field \ {"svraddr_1", "svraddr_2"}

\* With any number of tasks that save at once and a power cut at any point, the
\* next start finds no parameter older than the last complete SaveParaTerm or
\* SaveParaUni has written it: XinMutex keeps one copy of term.xin whole, and
\* equal names in unique.xin are not mixed up.  The exceptions are the moments in
\* which the only copy is being written: unique.xin, and term.xin in the first
\* save after a power cut, since no start repairs the copy the cut has left.
LoadsLastSave ==
    \A g \in Groups : \A x \in Kept \cap FieldsOf(g) :
        ParamInit(file)[x] >= done[x] \/ (BeingWritten(g) /\ Exposed(g))

\* As long as tasks take turns and files can be written, a parameter that
\* differs from what the next start would load has its flag set, so that the
\* next SaveParam saves it.
NothingForgotten ==
    ~overlap /\ broken = {} /\ pc = Idle =>
        \A x \in Kept \ {"ipuser"} :
            mem[x] # ParamInit(file)[x] =>
                (IF x \in UniFields THEN "uni" ELSE "term") \in SaveFlag

=============================================================================
