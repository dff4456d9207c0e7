-------------------------- MODULE ParamSaveProofs ---------------------------
(***************************************************************************)
(* Proofs about ParamSave, for every number of tasks and writes, and about *)
(* one write to the tables of scenes and timer tasks, whatever they hold.  *)
(***************************************************************************)
EXTENDS ParamSave, Scenes, FiniteSetTheorems, WellFoundedInduction, TLAPS

(***************************************************************************)
(* What is written is read back under the same names.                      *)
(***************************************************************************)
\* The least element of a set that has one.
LEMMA MinIs ==
    ASSUME NEW S \in SUBSET Int, NEW a \in S, \A b \in S : a <= b
    PROVE  Min(S) = a
<1>1. \E x \in S : \A y \in S : x <= y
  OBVIOUS
<1>2. Min(S) \in S /\ \A y \in S : Min(S) <= y
  BY <1>1 DEF Min
<1>3. Min(S) \in Int /\ a \in Int /\ Min(S) <= a /\ a <= Min(S)
  BY <1>2
<1> QED
  BY <1>3

\* FindVariable with a hit behind pscan, with one hit, without a hit.
LEMMA FindAhead ==
    ASSUME NEW f, NEW p \in Nat, NEW k, NEW i \in Nat, NEW j \in Nat,
           Hits(f, k) = {i, j}, i >= p, j >= p => i <= j
    PROVE  FindVariable(f, p, k) = [val |-> f[i].val, pscan |-> i + 1]
<1> DEFINE A == {h \in Hits(f, k) : h >= p}
<1>1. A \in SUBSET Int /\ i \in A /\ \A h \in A : i <= h
  OBVIOUS
<1>2. Min(A) = i
  <2> HIDE DEF A
  <2> QED
    BY <1>1, MinIs
<1> QED
  BY <1>1, <1>2 DEF FindVariable

LEMMA FindOnly ==
    ASSUME NEW f, NEW p \in Nat, NEW k, NEW i \in Nat, Hits(f, k) = {i}
    PROVE  FindVariable(f, p, k) = [val |-> f[i].val, pscan |-> i + 1]
<1>1. CASE i >= p
  <2>1. Hits(f, k) = {i, i}
    OBVIOUS
  <2> QED
    BY <1>1, <2>1, FindAhead
<1>2. CASE i < p
  <2>1. {j \in Hits(f, k) : j >= p} = {}
    BY <1>2
  <2>2. Min({i}) = i
    BY MinIs
  <2> QED
    BY <2>1, <2>2 DEF FindVariable
<1> QED
  BY <1>1, <1>2

LEMMA FindNone ==
    ASSUME NEW f, NEW p \in Nat, NEW k, Hits(f, k) = {}
    PROVE  FindVariable(f, p, k) = [val |-> 0, pscan |-> IF p = 1 THEN 2 ELSE p]
BY DEF FindVariable

LEMMA TermReadBack ==
    ASSUME NEW m
    PROVE  LoadParaTerm(TermText(m)) =
             [svraddr |-> m["svraddr"], svraddr_1 |-> 0, svraddr_2 |-> m["svraddr_1"],
              term |-> m["term"]]
<1> DEFINE f == TermText(m)
<1>1. /\ DOMAIN f = 1 .. 4
      /\ f[1].key = "svraddrIp" /\ f[2].key = "svraddrIp2"
      /\ f[3].key = "svraddrIp3" /\ f[4].key = "cfg"
      /\ f[1].val = m["svraddr"] /\ f[2].val = m["svraddr_1"] /\ f[4].val = m["term"]
  BY DEF TermText, Entry
<1>2. /\ Hits(f, "svraddrIp") = {1} /\ Hits(f, "svraddrIp1") = {}
      /\ Hits(f, "svraddrIp2") = {2} /\ Hits(f, "cfg") = {4}
  BY <1>1 DEF Hits
<1> HIDE DEF f
<1>3. FindVariable(f, 1, "svraddrIp") = [val |-> m["svraddr"], pscan |-> 2]
  <2>1. FindVariable(f, 1, "svraddrIp") = [val |-> f[1].val, pscan |-> 1 + 1]
    BY <1>2, FindOnly
  <2> QED
    BY <1>1, <2>1
<1>4. FindVariable(f, 2, "svraddrIp1") = [val |-> 0, pscan |-> 2]
  BY <1>2, FindNone
<1>5. FindVariable(f, 2, "svraddrIp2") = [val |-> m["svraddr_1"], pscan |-> 3]
  <2>1. FindVariable(f, 2, "svraddrIp2") = [val |-> f[2].val, pscan |-> 2 + 1]
    BY <1>2, FindOnly
  <2> QED
    BY <1>1, <2>1
<1>6. FindVariable(f, 3, "cfg") = [val |-> m["term"], pscan |-> 5]
  <2>1. FindVariable(f, 3, "cfg") = [val |-> f[4].val, pscan |-> 4 + 1]
    BY <1>2, FindOnly
  <2> QED
    BY <1>1, <2>1
<1> QED
  BY <1>3, <1>4, <1>5, <1>6 DEF LoadParaTerm, f

LEMMA UniReadBack ==
    ASSUME NEW m
    PROVE  LoadParaUni(UniText(m)) =
             [autogetip |-> m["autogetip"], portlisten |-> m["portlisten"],
              ipuser |-> m["ipuser"], user |-> m["user"]]
<1> DEFINE f == UniText(m)
<1>1. /\ DOMAIN f = 1 .. 4
      /\ f[1].key = "portlisten" /\ f[2].key = "autogetip"
      /\ f[3].key = "username" /\ f[4].key = "username"
      /\ f[1].val = m["portlisten"] /\ f[2].val = m["autogetip"]
      /\ f[3].val = m["ipuser"] /\ f[4].val = m["user"]
  BY DEF UniText, Entry
<1>2. /\ Hits(f, "portlisten") = {1} /\ Hits(f, "autogetip") = {2}
      /\ Hits(f, "username") = {3, 4} /\ Hits(f, "username") = {4, 3}
  BY <1>1 DEF Hits
<1> HIDE DEF f
<1>3. FindVariable(f, 1, "autogetip") = [val |-> m["autogetip"], pscan |-> 3]
  <2>1. FindVariable(f, 1, "autogetip") = [val |-> f[2].val, pscan |-> 2 + 1]
    BY <1>2, FindOnly
  <2> QED
    BY <1>1, <2>1
<1>4. FindVariable(f, 3, "portlisten") = [val |-> m["portlisten"], pscan |-> 2]
  <2>1. FindVariable(f, 3, "portlisten") = [val |-> f[1].val, pscan |-> 1 + 1]
    BY <1>2, FindOnly
  <2> QED
    BY <1>1, <2>1
<1>5. FindVariable(f, 2, "username") = [val |-> m["ipuser"], pscan |-> 4]
  <2>1. FindVariable(f, 2, "username") = [val |-> f[3].val, pscan |-> 3 + 1]
    BY <1>2, FindAhead
  <2> QED
    BY <1>1, <2>1
<1>6. FindVariable(f, 4, "username") = [val |-> m["user"], pscan |-> 5]
  <2>1. FindVariable(f, 4, "username") = [val |-> f[4].val, pscan |-> 4 + 1]
    BY <1>2, FindAhead
  <2> QED
    BY <1>1, <2>1
<1> QED
  BY <1>3, <1>4, <1>5, <1>6 DEF LoadParaUni, f

LEMMA NoFileLoads ==
    /\ LoadParaTerm(NoFile) = [svraddr |-> 0, svraddr_1 |-> 0, svraddr_2 |-> 0, term |-> 0]
    /\ LoadParaUni(NoFile) = [autogetip |-> 0, portlisten |-> 0, ipuser |-> 0, user |-> 0]
<1>1. \A k : Hits(NoFile, k) = {}
  BY DEF Hits, NoFile
<1>2. \A k : /\ FindVariable(NoFile, 1, k) = [val |-> 0, pscan |-> 2]
            /\ FindVariable(NoFile, 2, k) = [val |-> 0, pscan |-> 2]
  BY <1>1, FindNone
<1> QED
  BY <1>2 DEF LoadParaTerm, LoadParaUni

(***************************************************************************)
(* The invariant behind LoadsLastSave.                                     *)
(***************************************************************************)
\* What a start reads from file c with entries f.
Val(c, f) == IF c = "uni" THEN LoadParaUni(f) ELSE LoadParaTerm(f)

Keeps(c) == Kept \cap FieldsOf(GroupOf(c))

Pcs == {"idle", "or", "orwrite", "scanterm", "scanuni", "unlock", "clear",
        "open", "remove", "write"}
Saving == {"open", "remove", "write"}

TypeOK ==
    /\ mem \in [Field -> 0 .. ver] /\ done \in [Field -> Nat] /\ ver \in Nat
    /\ start \in [Tasks -> [Field -> Nat]]
    /\ pc \in [Tasks -> Pcs] /\ cp \in [Tasks -> Files \cup {None}]
    /\ DOMAIN file = Files /\ broken \subseteq Groups
    /\ \A c \in Files : \A x \in FieldsOf(GroupOf(c)) : Val(c, file[c])[x] \in 0 .. ver

\* XinMutex is held from XinOpen to the end of XinClose, and a task is saving
\* exactly while it has a file to save.
LockOK ==
    /\ \A t \in Tasks : pc[t] \in {"remove", "write"} <=> xlock = t
    /\ \A t \in Tasks : pc[t] \in Saving <=> cp[t] # None

\* Within one uptime a parameter only gets newer.
Newer ==
    /\ \A t \in Tasks : \A x \in Field : start[t][x] <= mem[x]
    /\ \A x \in Kept : done[x] <= mem[x]

\* The text in XinBuffer is at least as new as what has been promised and as
\* what its task was called with; a new term.xin is at least as new as what any
\* task that has its backup left to write was called with.
TextOK ==
    \A t \in Tasks : pc[t] \in {"remove", "write"} =>
        /\ xbuf # NoFile
        /\ \A x \in FieldsOf(GroupOf(cp[t])) : Val(cp[t], xbuf)[x] \in 0 .. ver
        /\ \A x \in Keeps(cp[t]) :
            /\ Val(cp[t], xbuf)[x] >= done[x]
            /\ Val(cp[t], xbuf)[x] >= start[t][x]
            /\ cp[t] = "term" =>
                \A u \in Tasks : cp[u] = "bak" => Val(cp[t], xbuf)[x] >= start[u][x]

Writing(c) == \E t \in Tasks : pc[t] = "write" /\ cp[t] = c

Fresh(c) == \A x \in Keeps(c) : Val(c, file[c])[x] >= done[x]

\* What the files hold.
FilesOK ==
    /\ Fresh("uni") \/ Writing("uni")
    /\ Fresh("term") \/ file["term"] = NoFile
    /\ "term" \notin cut => /\ Fresh("term") \/ Writing("term")
                            /\ Fresh("bak") \/ Writing("bak")
    /\ file["term"] = NoFile => Fresh("bak") \/ Writing("term") \/ Writing("bak")
    /\ \A t \in Tasks : "term" \notin broken /\ cp[t] = "bak" =>
        \/ Writing("term")
        \/ file["term"] # NoFile /\ \A x \in Keeps("term") : Val("term", file["term"])[x] >= start[t][x]
    /\ \A g \in broken : \A x \in FieldsOf(g) : done[x] = 0

LInv == TypeOK /\ LockOK /\ Newer /\ TextOK /\ FilesOK

\* The fields of a group, and those of them that come back.
LEMMA FieldFacts ==
    /\ \A c \in Files : /\ GroupOf(c) \in Groups
                        /\ Keeps(c) \subseteq FieldsOf(GroupOf(c))
                        /\ Keeps(c) \subseteq Kept
                        /\ FieldsOf(GroupOf(c)) \subseteq Field
    /\ Keeps("term") = Keeps("bak")
    /\ \A x \in Keeps("term") : x \notin UniFields /\ x \notin FieldsOf("uni")
    /\ \A x \in Keeps("uni") : x \in UniFields /\ x \notin FieldsOf("term")
    /\ Kept \subseteq Field
    /\ GroupOf("uni") = "uni" /\ GroupOf("term") = "term" /\ GroupOf("bak") = "term"
BY DEF Files, GroupOf, Groups, Keeps, FieldsOf, Kept, Field, TermFields, UniFields

\* A text holds the parameters it was made from; no file holds the defaults.
LEMMA ValFacts ==
    ASSUME NEW n \in Nat, NEW m \in [Field -> 0 .. n], NEW c \in Files
    PROVE  /\ Text(c, m) # NoFile
           /\ \A x \in FieldsOf(GroupOf(c)) : Val(c, Text(c, m))[x] \in 0 .. n
           /\ \A x \in Keeps(c) : Val(c, Text(c, m))[x] = m[x]
<1>1. CASE c = "uni"
  <2>1. Val(c, Text(c, m)) = [autogetip |-> m["autogetip"], portlisten |-> m["portlisten"],
                              ipuser |-> m["ipuser"], user |-> m["user"]]
    BY <1>1, UniReadBack DEF Val, Text
  <2>2. Text(c, m) # NoFile
    BY <1>1 DEF Text, UniText, NoFile
  <2> QED
    BY <1>1, <2>1, <2>2 DEF FieldsOf, GroupOf, Keeps, Kept, Field, TermFields, UniFields
<1>2. CASE c # "uni"
  <2>1. Val(c, Text(c, m)) =
             [svraddr |-> m["svraddr"], svraddr_1 |-> 0, svraddr_2 |-> m["svraddr_1"],
              term |-> m["term"]]
    BY <1>2, TermReadBack DEF Val, Text
  <2>2. Text(c, m) # NoFile
    BY <1>2 DEF Text, TermText, NoFile
  <2> QED
    BY <1>2, <2>1, <2>2 DEF FieldsOf, GroupOf, Keeps, Kept, Field, TermFields, UniFields
<1> QED
  BY <1>1, <1>2

LEMMA ValNoFile ==
    ASSUME NEW c \in Files, NEW x \in FieldsOf(GroupOf(c)) PROVE Val(c, NoFile)[x] = 0
BY NoFileLoads DEF Val, Files, GroupOf, FieldsOf, TermFields, UniFields

\* ParamInit reads unique.xin, and term.xin or its backup.
LEMMA ParamInitReads ==
    /\ \A x \in FieldsOf("uni") : ParamInit(file)[x] = Val("uni", file["uni"])[x]
    /\ \A x \in FieldsOf("term") :
         /\ file["term"] # NoFile => ParamInit(file)[x] = Val("term", file["term"])[x]
         /\ file["term"] = NoFile => ParamInit(file)[x] = Val("bak", file["bak"])[x]
BY DEF ParamInit, Val, FieldsOf, Field, TermFields, UniFields

(***************************************************************************)
(* Steps that do not touch the files.                                      *)
(***************************************************************************)
\* The parameters are set to newer values or stay.
Later ==
    /\ ver' \in Nat /\ ver <= ver'
    /\ mem' \in [Field -> 0 .. ver'] /\ \A x \in Field : mem[x] <= mem'[x]

LEMMA QuietStep ==
    ASSUME LInv, NEW t \in Tasks, pc[t] \notin Saving,
           NEW q \in Pcs \ Saving, pc' = [pc EXCEPT ![t] = q],
           Later,
           UNCHANGED <<file, xlock, xbuf, cp, start, done, broken, cut>>
    PROVE  LInv'
<1>1. \A u \in Tasks : pc'[u] \in Pcs /\ \A r \in Saving : pc'[u] = r <=> pc[u] = r
  BY DEF LInv, TypeOK
<1>2. TypeOK'
  <2>1. \A c \in Files : \A x \in FieldsOf(GroupOf(c)) : Val(c, file[c])[x] \in 0 .. ver'
    BY DEF LInv, TypeOK, Later
  <2> QED
    BY <1>1, <2>1 DEF LInv, TypeOK, Later
<1>3. LockOK'
  BY <1>1 DEF LInv, LockOK, Saving
<1>4. Newer'
  BY FieldFacts DEF LInv, TypeOK, Newer, Later
<1>5. TextOK'
  <2>1. \A u \in Tasks : pc[u] \in {"remove", "write"} =>
          \A x \in FieldsOf(GroupOf(cp[u])) : Val(cp[u], xbuf)[x] \in 0 .. ver'
    BY DEF LInv, TypeOK, TextOK, Later
  <2> QED
    BY <1>1, <2>1 DEF LInv, TextOK, Saving
<1>6. \A c \in Files : (Writing(c) <=> Writing(c)') /\ (Fresh(c) <=> Fresh(c)')
  BY <1>1 DEF Writing, Fresh, Saving
<1>7. FilesOK'
  BY <1>6 DEF LInv, FilesOK, Files
<1> QED
  BY <1>2, <1>3, <1>4, <1>5, <1>7 DEF LInv

\* SaveParaTerm or SaveParaUni is called.
LEMMA CallStep ==
    ASSUME LInv, NEW t \in Tasks, pc[t] \notin Saving,
           NEW g \in {"term", "uni"}, NEW r, Call(t, g, mem', r),
           Later,
           UNCHANGED <<file, xlock, xbuf, done, broken, cut>>
    PROVE  LInv'
<1>1. /\ pc' = [pc EXCEPT ![t] = "open"] /\ cp' = [cp EXCEPT ![t] = g]
      /\ start' = [start EXCEPT ![t] = mem']
  BY DEF Call
<1>2. \A u \in Tasks : /\ u # t => pc'[u] = pc[u] /\ cp'[u] = cp[u] /\ start'[u] = start[u]
                       /\ u = t => pc'[u] = "open" /\ cp'[u] = g /\ start'[u] = mem'
                       /\ pc[u] \in Pcs /\ cp[u] \in Files \cup {None}
  BY <1>1 DEF LInv, TypeOK
<1>3. TypeOK'
  <2>1. \A c \in Files : \A x \in FieldsOf(GroupOf(c)) : Val(c, file[c])[x] \in 0 .. ver'
    BY DEF LInv, TypeOK, Later
  <2>2. mem' \in [Field -> Nat]
    BY DEF Later
  <2> QED
    BY <1>1, <2>1, <2>2 DEF LInv, TypeOK, Pcs, Files, Later
<1>4. LockOK'
  BY <1>2 DEF LInv, LockOK, Saving, None
<1>5. Newer'
  BY <1>2, FieldFacts DEF LInv, TypeOK, Newer, Later
<1>6. TextOK'
  <2>1. \A u \in Tasks : pc[u] \in {"remove", "write"} =>
          \A x \in FieldsOf(GroupOf(cp[u])) : Val(cp[u], xbuf)[x] \in 0 .. ver'
    BY DEF LInv, TypeOK, TextOK, Later
  <2> QED
    BY <1>2, <2>1 DEF LInv, TextOK, Saving
<1>7. \A c \in Files : (Writing(c) <=> Writing(c)') /\ (Fresh(c) <=> Fresh(c)')
  BY <1>2 DEF Writing, Fresh, Saving
<1>8. FilesOK'
  BY <1>2, <1>7 DEF LInv, FilesOK, Files
<1> QED
  BY <1>3, <1>4, <1>5, <1>6, <1>8 DEF LInv

(***************************************************************************)
(* Steps of XinOpen and XinClose.                                          *)
(***************************************************************************)
LEMMA OpenStep ==
    ASSUME LInv, NEW t \in Tasks, XinOpen(t) PROVE LInv'
<1>1. /\ pc[t] = "open" /\ xlock = NoOne /\ xlock' = t /\ xbuf' = Text(cp[t], mem)
      /\ pc' = [pc EXCEPT ![t] = "remove"]
      /\ UNCHANGED <<mem, ver, file, cp, start, done, broken, cut>>
  BY DEF XinOpen, memVars, ghostVars
<1>2. /\ cp[t] \in Files /\ NoOne \notin Tasks
      /\ \A u \in Tasks : pc[u] \notin {"remove", "write"}
  BY <1>1, ParamSaveAssumption DEF LInv, TypeOK, LockOK, Saving, NoOne, None
<1>3. \A u \in Tasks : pc'[u] = IF u = t THEN "remove" ELSE pc[u]
  BY <1>1 DEF LInv, TypeOK
<1>4. TypeOK'
  BY <1>1, <1>3 DEF LInv, TypeOK, Pcs
<1>5. LockOK'
  BY <1>1, <1>2, <1>3 DEF LInv, LockOK, Saving
<1>6. Newer'
  BY <1>1 DEF LInv, Newer
<1>7. TextOK'
  <2>1. /\ xbuf' # NoFile
        /\ \A x \in FieldsOf(GroupOf(cp[t])) : Val(cp[t], xbuf')[x] \in 0 .. ver
        /\ \A x \in Keeps(cp[t]) : Val(cp[t], xbuf')[x] = mem[x]
    BY <1>1, <1>2, ValFacts DEF LInv, TypeOK
  <2>2. \A x \in Keeps(cp[t]) : mem[x] >= done[x] /\ \A u \in Tasks : mem[x] >= start[u][x]
    BY <1>2, FieldFacts DEF LInv, TypeOK, Newer
  <2> QED
    BY <1>1, <1>2, <1>3, <2>1, <2>2 DEF TextOK
<1>8. \A c \in Files : (Writing(c) <=> Writing(c)') /\ (Fresh(c) <=> Fresh(c)')
  BY <1>1, <1>2, <1>3 DEF Writing, Fresh
<1>9. FilesOK'
  BY <1>1, <1>8 DEF LInv, FilesOK, Files
<1> QED
  BY <1>4, <1>5, <1>6, <1>7, <1>9 DEF LInv

LEMMA RemoveStep ==
    ASSUME LInv, NEW t \in Tasks, XinCloseRemove(t) PROVE LInv'
<1>1. /\ pc[t] = "remove" /\ pc' = [pc EXCEPT ![t] = "write"]
      /\ file' = [file EXCEPT ![cp[t]] = NoFile]
      /\ UNCHANGED <<mem, ver, xlock, xbuf, cp, start, done, broken, cut>>
  BY DEF XinCloseRemove, memVars, lockVars, ghostVars
<1>2. /\ cp[t] \in Files
      /\ \A u \in Tasks : pc[u] \in {"remove", "write"} => u = t
  BY <1>1 DEF LInv, TypeOK, LockOK, Saving, None
<1>3. \A u \in Tasks : pc'[u] = IF u = t THEN "write" ELSE pc[u]
  BY <1>1 DEF LInv, TypeOK
<1>4. \A c \in Files : file'[c] = IF c = cp[t] THEN NoFile ELSE file[c]
  BY <1>1 DEF LInv, TypeOK
<1>5. TypeOK'
  <2>1. \A c \in Files : \A x \in FieldsOf(GroupOf(c)) : Val(c, file'[c])[x] \in 0 .. ver
    BY <1>4, ValNoFile DEF LInv, TypeOK
  <2> QED
    BY <1>1, <1>3, <2>1 DEF LInv, TypeOK, Pcs
<1>6. LockOK'
  BY <1>1, <1>2, <1>3 DEF LInv, LockOK, Saving
<1>7. Newer'
  BY <1>1 DEF LInv, Newer
<1>8. TextOK'
  BY <1>1, <1>2, <1>3, SMTT(30) DEF LInv, TextOK
<1>9. \A c \in Files : /\ c = cp[t] => Writing(c)'
                       /\ c # cp[t] => (Fresh(c) => Fresh(c)') /\ ~Writing(c)
  BY <1>1, <1>2, <1>3, <1>4 DEF Writing, Fresh
<1>10. FilesOK'
  BY <1>1, <1>2, <1>4, <1>9 DEF LInv, FilesOK, Files
<1> QED
  BY <1>5, <1>6, <1>7, <1>8, <1>10 DEF LInv

\* What AfterClose leaves of the saving task, and that nobody else writes.
LEMMA CloseFacts ==
    ASSUME LInv, NEW t \in Tasks, pc[t] = "write", AfterClose(t)
    PROVE  /\ cp[t] \in Files
           /\ \A u \in Tasks : u # t =>
                /\ pc[u] \notin {"remove", "write"}
                /\ pc'[u] = pc[u] /\ cp'[u] = cp[u] /\ start'[u] = start[u]
           /\ cp[t] = "term" => pc'[t] = "open" /\ cp'[t] = "bak" /\ start'[t] = start[t]
           /\ cp[t] # "term" => /\ pc'[t] \in {"or", "scanuni", "unlock"} /\ cp'[t] = None
                                /\ start'[t] = [x \in Field |-> 0]
           /\ pc' \in [Tasks -> Pcs] /\ cp' \in [Tasks -> Files \cup {None}]
           /\ start' \in [Tasks -> [Field -> Nat]]
           /\ \A c \in Files : ~Writing(c)'
<1>1. /\ cp[t] \in Files
      /\ \A u \in Tasks : u # t => pc[u] \notin {"remove", "write"}
  BY DEF LInv, TypeOK, LockOK, Saving, None
<1>2. CASE cp[t] = "term"
  <2>1. /\ cp' = [cp EXCEPT ![t] = "bak"] /\ pc' = [pc EXCEPT ![t] = "open"]
        /\ start' = start
    BY <1>2 DEF AfterClose
  <2> QED
    BY <1>1, <1>2, <2>1 DEF LInv, TypeOK, Pcs, Files, Writing
<1>3. CASE cp[t] # "term"
  <2>1. PICK q \in {"or", "scanuni", "unlock"} : pc' = [pc EXCEPT ![t] = q]
    BY <1>3 DEF AfterClose
  <2>2. cp' = [cp EXCEPT ![t] = None] /\ start' = [start EXCEPT ![t] = [x \in Field |-> 0]]
    BY <1>3 DEF AfterClose
  <2> QED
    BY <1>1, <1>3, <2>1, <2>2 DEF LInv, TypeOK, Pcs, Files, Writing
<1> QED
  BY <1>2, <1>3

\* What follows for LockOK and Newer when XinMutex is given back.
LEMMA CloseKeeps ==
    ASSUME LInv, NEW t \in Tasks, pc[t] = "write", AfterClose(t), xlock' = NoOne,
           UNCHANGED <<mem, ver>>
    PROVE  LockOK' /\ TextOK' /\ \A u \in Tasks : \A x \in Field : start'[u][x] <= mem[x]
<1>1. NoOne \notin Tasks /\ \A u \in Tasks : pc'[u] \notin {"remove", "write"}
  BY CloseFacts, ParamSaveAssumption DEF NoOne, None
<1>2. LockOK'
  BY <1>1, CloseFacts DEF LInv, LockOK, Saving, None
<1>3. TextOK'
  BY <1>1 DEF TextOK
<1>4. \A x \in Field : 0 <= mem[x]
  BY DEF LInv, TypeOK
<1>5. \A u \in Tasks : \A x \in Field : start'[u][x] <= mem[x]
  BY <1>4, CloseFacts DEF LInv, Newer
<1> QED
  BY <1>2, <1>3, <1>5

LEMMA MaxOfTwo ==
    ASSUME NEW a \in Nat, NEW b \in Nat
    PROVE  Max({a, b}) \in Nat /\ Max({a, b}) \in {a, b} /\ Max({a, b}) >= a /\ Max({a, b}) >= b
<1>1. \E x \in {a, b} : \A y \in {a, b} : x >= y
  OBVIOUS
<1>2. Max({a, b}) \in {a, b} /\ \A y \in {a, b} : Max({a, b}) >= y
  BY <1>1 DEF Max
<1> QED
  BY <1>2

\* What a complete save promises is no newer than the text it has written.
LEMMA SavedFacts ==
    ASSUME LInv, NEW t \in Tasks, pc[t] = "write", cp[t] \in Files, Saved(t)
    PROVE  /\ done' \in [Field -> Nat]
           /\ \A x \in Kept : done'[x] <= mem[x]
           /\ \A x \in Keeps(cp[t]) : /\ Val(cp[t], xbuf)[x] >= done'[x]
                                      /\ done'[x] \in {done[x], start[t][x]}
           /\ \A x \in Field \ FieldsOf(GroupOf(cp[t])) : done'[x] = done[x]
           /\ cp[t] = "term" \/ GroupOf(cp[t]) \in broken => UNCHANGED <<done, cut>>
           /\ cut \ {GroupOf(cp[t])} \subseteq cut' /\ cut' \subseteq cut
<1> DEFINE g == GroupOf(cp[t])
<1>1. /\ done \in [Field -> Nat] /\ start[t] \in [Field -> Nat] /\ mem \in [Field -> Nat]
      /\ Kept \subseteq Field /\ Keeps(cp[t]) \subseteq Field
      /\ Keeps(cp[t]) \subseteq FieldsOf(g)
  BY FieldFacts DEF LInv, TypeOK
<1>2. /\ \A x \in Keeps(cp[t]) : Val(cp[t], xbuf)[x] >= done[x] /\ Val(cp[t], xbuf)[x] >= start[t][x]
      /\ \A x \in Kept : done[x] <= mem[x] /\ start[t][x] <= mem[x]
  BY <1>1 DEF LInv, TextOK, Newer
<1>3. CASE cp[t] = "term" \/ g \in broken
  <2>1. UNCHANGED <<done, cut>>
    BY <1>3 DEF Saved
  <2> QED
    BY <1>1, <1>2, <2>1
<1>4. CASE ~(cp[t] = "term" \/ g \in broken)
  <2>1. /\ done' = [x \in Field |-> IF x \in FieldsOf(g)
                                    THEN Max({done[x], start[t][x]}) ELSE done[x]]
        /\ cut' = cut \ {g}
    BY <1>4 DEF Saved
  <2>2. \A x \in Field : Max({done[x], start[t][x]}) \in Nat
                         /\ Max({done[x], start[t][x]}) \in {done[x], start[t][x]}
    BY <1>1, MaxOfTwo
  <2>3. \A x \in Field : done'[x] \in Nat /\ done'[x] \in {done[x], start[t][x]}
    BY <1>1, <2>1, <2>2
  <2>4. done' \in [Field -> Nat]
    BY <2>1, <2>3
  <2> QED
    BY <1>1, <1>2, <1>4, <2>1, <2>3, <2>4
<1> QED
  BY <1>3, <1>4

LEMMA WriteStep ==
    ASSUME LInv, NEW t \in Tasks, XinCloseWrite(t) PROVE LInv'
<1>1. /\ pc[t] = "write" /\ AfterClose(t) /\ Saved(t) /\ xlock' = NoOne
      /\ file' = [file EXCEPT ![cp[t]] = xbuf]
      /\ UNCHANGED <<mem, ver, broken>>
  BY DEF XinCloseWrite, memVars
<1>2. /\ cp[t] \in Files
      /\ \A u \in Tasks : u # t => cp'[u] = cp[u] /\ start'[u] = start[u]
      /\ \A c \in Files : ~Writing(c)'
      /\ \A c \in Files : c # cp[t] => ~Writing(c)
  BY <1>1, CloseFacts DEF Writing
<1>3. \A c \in Files : file'[c] = IF c = cp[t] THEN xbuf ELSE file[c]
  BY <1>1 DEF LInv, TypeOK
<1>4. /\ xbuf # NoFile
      /\ \A x \in FieldsOf(GroupOf(cp[t])) : Val(cp[t], xbuf)[x] \in 0 .. ver
  BY <1>1 DEF LInv, TextOK
<1>5. TypeOK'
  <2>1. \A c \in Files : \A x \in FieldsOf(GroupOf(c)) : Val(c, file'[c])[x] \in 0 .. ver
    BY <1>3, <1>4 DEF LInv, TypeOK
  <2>2. done' \in [Field -> Nat]
    BY <1>1, <1>2, SavedFacts
  <2> QED
    BY <1>1, <2>1, <2>2, CloseFacts DEF LInv, TypeOK
<1>6. LockOK' /\ TextOK' /\ Newer'
  BY <1>1, <1>2, CloseKeeps, SavedFacts DEF Newer
<1>7. \A c \in Files : c = cp[t] => Fresh(c)'
  BY <1>1, <1>2, <1>3, SavedFacts DEF Fresh
<1>8. \A x \in Field \ FieldsOf(GroupOf(cp[t])) : done'[x] = done[x]
  BY <1>1, <1>2, SavedFacts
<1>9. \A h \in broken : \A x \in FieldsOf(h) : done'[x] = 0
  <2>1. GroupOf(cp[t]) \in broken => done' = done
    BY <1>1, <1>2, SavedFacts
  <2>2. ASSUME NEW h \in broken, NEW x \in FieldsOf(h), h # GroupOf(cp[t])
        PROVE  x \in Field \ FieldsOf(GroupOf(cp[t]))
    <3>1. h \in Groups /\ GroupOf(cp[t]) \in Groups
      BY <1>2, FieldFacts DEF LInv, TypeOK
    <3> QED
      BY <2>2, <3>1 DEF Groups, FieldsOf, Field, TermFields, UniFields
  <2> QED
    BY <1>8, <2>1, <2>2 DEF LInv, FilesOK
<1>10. CASE cp[t] = "uni"
  <2>1. /\ cut' \subseteq cut /\ ("term" \in cut => "term" \in cut') /\ GroupOf(cp[t]) = "uni"
    BY <1>1, <1>2, <1>10, SavedFacts, FieldFacts
  <2>2. /\ \A x \in Keeps("term") : done'[x] = done[x]
        /\ Keeps("term") = Keeps("bak")
    BY <1>8, <2>1, FieldFacts DEF Keeps, Kept
  <2>3. /\ Fresh("term")' <=> Fresh("term")
        /\ Fresh("bak")' <=> Fresh("bak")
        /\ file'["term"] = file["term"]
    BY <1>3, <1>10, <2>2 DEF Fresh, Files
  <2>4. \A u \in Tasks : cp'[u] = "bak" => cp[u] = "bak" /\ start'[u] = start[u]
    BY <1>1, <1>2, <1>10, CloseFacts DEF None
  <2> QED
    BY <1>1, <1>2, <1>5, <1>6, <1>7, <1>9, <1>10, <2>1, <2>3, <2>4 DEF LInv, FilesOK, Files
<1>11. CASE cp[t] = "term"
  <2>1. UNCHANGED <<done, cut>>
    BY <1>1, <1>2, <1>11, SavedFacts
  <2>2. file'["term"] = xbuf /\ file'["bak"] = file["bak"] /\ file'["uni"] = file["uni"]
    BY <1>3, <1>11 DEF Files
  <2>3. /\ Fresh("bak")' <=> Fresh("bak")
        /\ Fresh("uni")' <=> Fresh("uni")
    BY <2>1, <2>2 DEF Fresh
  <2>4. ASSUME NEW u \in Tasks, cp'[u] = "bak"
        PROVE  \A x \in Keeps("term") : Val("term", xbuf)[x] >= start'[u][x]
    BY <1>1, <1>2, <1>11, <2>4, CloseFacts DEF LInv, TextOK
  <2>5. FilesOK'
    BY <1>1, <1>2, <1>4, <1>7, <1>9, <1>11, <2>1, <2>2, <2>3, <2>4 DEF LInv, FilesOK, Files
  <2> QED
    BY <1>5, <1>6, <2>5 DEF LInv
<1>12. CASE cp[t] = "bak"
  <2>1. file'["term"] = file["term"] /\ file'["uni"] = file["uni"]
    BY <1>3, <1>12 DEF Files
  <2>2. \A x \in Keeps("uni") : done'[x] = done[x]
    BY <1>8, <1>12, FieldFacts DEF Keeps, Kept
  <2>3. Fresh("uni")' <=> Fresh("uni")
    BY <2>1, <2>2 DEF Fresh
  <2>4. \A u \in Tasks : cp'[u] = "bak" => cp[u] = "bak" /\ start'[u] = start[u]
    BY <1>1, <1>2, <1>12, CloseFacts DEF None
  <2>5. CASE "term" \in broken
    <3>1. UNCHANGED <<done, cut>>
      BY <1>1, <1>2, <1>12, <2>5, SavedFacts, FieldFacts
    <3>2. Fresh("term")' <=> Fresh("term")
      BY <2>1, <3>1 DEF Fresh
    <3>3. FilesOK'
      BY <1>1, <1>2, <1>7, <1>9, <1>12, <2>1, <2>3, <2>4, <2>5, <3>1, <3>2 DEF LInv, FilesOK, Files
    <3> QED
      BY <1>5, <1>6, <3>3 DEF LInv
  <2>6. CASE "term" \notin broken
    <3>1. /\ file["term"] # NoFile
          /\ \A x \in Keeps("term") : Val("term", file["term"])[x] >= start[t][x]
                                      /\ Val("term", file["term"])[x] >= done[x]
      BY <1>2, <1>12, <2>6 DEF LInv, FilesOK, Fresh, Files
    <3>2. \A x \in Keeps("term") : done'[x] \in {done[x], start[t][x]}
      BY <1>1, <1>2, <1>12, SavedFacts, FieldFacts
    <3>3. Fresh("term")'
      BY <2>1, <3>1, <3>2 DEF Fresh
    <3>4. FilesOK'
      BY <1>1, <1>2, <1>7, <1>9, <1>12, <2>1, <2>3, <2>4, <2>6, <3>1, <3>3 DEF LInv, FilesOK, Files
    <3> QED
      BY <1>5, <1>6, <3>4 DEF LInv
  <2> QED
    BY <2>5, <2>6
<1> QED
  BY <1>2, <1>10, <1>11, <1>12 DEF Files

\* A write that fails takes the promise of its group back.
LEMMA FailStep ==
    ASSUME LInv, NEW t \in Tasks, XinCloseFail(t) PROVE LInv'
<1>1. /\ pc[t] = "write" /\ AfterClose(t) /\ xlock' = NoOne
      /\ broken' = broken \cup {GroupOf(cp[t])}
      /\ done' = [x \in Field |-> IF x \in FieldsOf(GroupOf(cp[t])) THEN 0 ELSE done[x]]
      /\ UNCHANGED <<mem, ver, file, cut>>
  BY DEF XinCloseFail, memVars
<1>2. /\ cp[t] \in Files /\ GroupOf(cp[t]) \in Groups
      /\ \A u \in Tasks : u # t => cp'[u] = cp[u] /\ start'[u] = start[u]
      /\ \A c \in Files : c # cp[t] => ~Writing(c)
  BY <1>1, CloseFacts, FieldFacts DEF Writing
<1>3. /\ done' \in [Field -> Nat]
      /\ \A x \in Field : done'[x] <= done[x]
      /\ \A x \in FieldsOf(GroupOf(cp[t])) : done'[x] = 0
  <2>1. /\ done \in [Field -> Nat] /\ FieldsOf(GroupOf(cp[t])) \subseteq Field
    BY <1>2, FieldFacts DEF LInv, TypeOK
  <2> QED
    BY <1>1, <2>1
<1>4. TypeOK'
  BY <1>1, <1>2, <1>3, CloseFacts DEF LInv, TypeOK
<1>5. LockOK' /\ TextOK' /\ Newer'
  <2>1. \A x \in Kept : done'[x] <= mem[x]
    BY <1>3, FieldFacts DEF LInv, TypeOK, Newer
  <2> QED
    BY <1>1, <2>1, CloseKeeps DEF Newer
<1>6. \A c \in Files : /\ Fresh(c) => Fresh(c)'
                       /\ GroupOf(c) = GroupOf(cp[t]) => Fresh(c)'
  <2> TAKE c \in Files
  <2>1. \A x \in Keeps(c) : /\ x \in Field /\ x \in FieldsOf(GroupOf(c))
                            /\ Val(c, file[c])[x] \in Nat /\ done[x] \in Nat /\ done'[x] \in Nat
    BY <1>3, FieldFacts DEF LInv, TypeOK
  <2> QED
    BY <1>1, <1>3, <2>1 DEF Fresh
<1>7. \A h \in broken' : \A x \in FieldsOf(h) : done'[x] = 0
  <2>1. ASSUME NEW h \in broken, NEW x \in FieldsOf(h) PROVE done'[x] = 0
    <3>1. x \in Field /\ done[x] = 0
      BY DEF LInv, FilesOK, FieldsOf, Field
    <3> QED
      BY <1>3, <3>1
  <2> QED
    BY <1>1, <1>3, <2>1
<1>8. CASE cp[t] = "uni"
  <2>1. \A u \in Tasks : cp'[u] = "bak" => cp[u] = "bak" /\ start'[u] = start[u]
    BY <1>1, <1>2, <1>8, CloseFacts DEF None
  <2>2. FilesOK'
    BY <1>1, <1>2, <1>6, <1>7, <1>8, <2>1, FieldFacts DEF LInv, FilesOK, Files
  <2> QED
    BY <1>4, <1>5, <2>2 DEF LInv
<1>9. CASE cp[t] \in {"term", "bak"}
  <2>1. Fresh("term")' /\ Fresh("bak")' /\ "term" \in broken'
    BY <1>1, <1>6, <1>9, FieldFacts DEF Files
  <2>2. Fresh("uni")'
    BY <1>2, <1>6, <1>9 DEF LInv, FilesOK, Files
  <2>3. FilesOK'
    BY <1>7, <2>1, <2>2 DEF FilesOK
  <2> QED
    BY <1>4, <1>5, <2>3 DEF LInv
<1> QED
  BY <1>2, <1>8, <1>9 DEF Files

(***************************************************************************)
(* Starts.                                                                 *)
(***************************************************************************)
\* What the next start would load.
LEMMA LoadsEnough ==
    ASSUME LInv, NEW g \in Groups, NEW x \in Kept \cap FieldsOf(g)
    PROVE  ParamInit(file)[x] >= done[x] \/ (BeingWritten(g) /\ Exposed(g))
<1>1. CASE g = "uni"
  <2>1. x \in Keeps("uni")
    BY <1>1 DEF Keeps, GroupOf
  <2>2. Writing("uni") => BeingWritten(g) /\ Exposed(g)
    BY <1>1 DEF Writing, BeingWritten, Exposed, GroupOf, Files
  <2>3. ParamInit(file)[x] = Val("uni", file["uni"])[x]
    BY <1>1, ParamInitReads
  <2> QED
    BY <2>1, <2>2, <2>3 DEF LInv, FilesOK, Fresh
<1>2. CASE g = "term"
  <2>1. x \in Keeps("term") /\ x \in Keeps("bak") /\ x \in FieldsOf("term") /\ x \in Field
    BY <1>2, FieldFacts DEF Keeps, GroupOf, Kept
  <2>2. Writing("term") \/ Writing("bak") => BeingWritten(g)
    BY <1>2 DEF Writing, BeingWritten, GroupOf, Files
  <2>3. CASE file["term"] # NoFile
    <3>1. ParamInit(file)[x] = Val("term", file["term"])[x]
      BY <2>1, <2>3, ParamInitReads
    <3> QED
      BY <2>1, <2>3, <3>1 DEF LInv, FilesOK, Fresh
  <2>4. CASE file["term"] = NoFile
    <3>1. ParamInit(file)[x] = Val("bak", file["bak"])[x]
      BY <2>1, <2>4, ParamInitReads
    <3>2. CASE Fresh("bak")
      BY <2>1, <3>1, <3>2 DEF Fresh
    <3>3. CASE ~Fresh("bak") /\ "term" \in cut
      BY <1>2, <2>2, <2>4, <3>3 DEF LInv, FilesOK, Exposed
    <3>4. CASE ~Fresh("bak") /\ "term" \notin cut
      <4>1. Writing("bak") /\ (Fresh("term") \/ Writing("term"))
        BY <3>4 DEF LInv, FilesOK
      <4>2. ~Writing("term")
        BY <4>1 DEF LInv, LockOK, Writing
      <4>3. Val("term", file["term"])[x] = 0
        BY <2>1, <2>4, ValNoFile, FieldFacts DEF Files
      <4>4. done[x] \in Nat /\ Val("bak", file["bak"])[x] \in 0 .. ver /\ ver \in Nat
        BY <2>1, FieldFacts DEF LInv, TypeOK, Files
      <4> QED
        BY <2>1, <3>1, <4>1, <4>2, <4>3, <4>4 DEF Fresh
    <3> QED
      BY <3>2, <3>3, <3>4
  <2> QED
    BY <2>3, <2>4
<1> QED
  BY <1>1, <1>2 DEF Groups

LEMMA RestartStep ==
    ASSUME LInv, Restart PROVE LInv'
<1> DEFINE Lost(x) == \E g \in Groups : x \in FieldsOf(g) /\ BeingWritten(g) /\ Exposed(g)
<1>1. /\ mem' = ParamInit(file) /\ xlock' = NoOne /\ broken' = {}
      /\ pc' = Idle /\ cp' = Nowhere
      /\ start' = [t \in Tasks |-> [x \in Field |-> 0]]
      /\ done' = [x \in Field |-> IF Lost(x) THEN 0 ELSE done[x]]
      /\ cut' = cut \cup {g \in Groups : BeingWritten(g)}
      /\ UNCHANGED <<file, ver>>
  BY DEF Restart
<1>2. /\ \A t \in Tasks : pc'[t] = "idle" /\ cp'[t] = None
      /\ \A t \in Tasks : \A x \in Field : start'[t][x] = 0
      /\ NoOne \notin Tasks
      /\ \A c \in Files : ~Writing(c)'
  BY <1>1, ParamSaveAssumption DEF Idle, Nowhere, NoOne, None, Writing
<1>3. \A x \in Field : ParamInit(file)[x] \in 0 .. ver
  <2>1. \A c \in Files : \A x \in FieldsOf(GroupOf(c)) : Val(c, file[c])[x] \in 0 .. ver
    BY DEF LInv, TypeOK
  <2>2. \A x \in Field : x \in FieldsOf("uni") \/ x \in FieldsOf("term")
    BY DEF Field, FieldsOf
  <2>3. /\ \A x \in FieldsOf("uni") : Val("uni", file["uni"])[x] \in 0 .. ver
        /\ \A x \in FieldsOf("term") : /\ Val("term", file["term"])[x] \in 0 .. ver
                                       /\ Val("bak", file["bak"])[x] \in 0 .. ver
    BY <2>1, FieldFacts DEF Files
  <2> QED
    BY <2>2, <2>3, ParamInitReads
<1>4. mem' \in [Field -> 0 .. ver]
  <2>1. mem' = [x \in Field |-> ParamInit(file)[x]]
    BY <1>1 DEF ParamInit
  <2> QED
    BY <1>3, <2>1
<1>5. /\ done' \in [Field -> Nat]
      /\ \A x \in Field : done'[x] <= done[x] /\ (Lost(x) => done'[x] = 0)
                          /\ (~Lost(x) => done'[x] = done[x])
  <2> HIDE DEF Lost
  <2> QED
    BY <1>1 DEF LInv, TypeOK
<1>6. TypeOK'
  <2>1. start' \in [Tasks -> [Field -> Nat]] /\ pc' \in [Tasks -> Pcs]
        /\ cp' \in [Tasks -> Files \cup {None}]
    BY <1>1 DEF Idle, Nowhere, Pcs
  <2> QED
    BY <1>1, <1>4, <1>5, <2>1 DEF LInv, TypeOK
<1>7. LockOK' /\ TextOK'
  BY <1>1, <1>2 DEF LockOK, TextOK, Saving
<1>8. Newer'
  <2>1. ASSUME NEW x \in Kept PROVE done'[x] <= mem'[x]
    <3>1. PICK g \in Groups : x \in FieldsOf(g)
      BY DEF Kept, Field, FieldsOf, Groups
    <3>2. x \in Field /\ mem'[x] = ParamInit(file)[x] /\ mem'[x] \in Nat /\ done[x] \in Nat
      BY <1>1, <1>3, FieldFacts DEF LInv, TypeOK
    <3>3. ParamInit(file)[x] >= done[x] \/ Lost(x)
      BY <3>1, LoadsEnough
    <3> QED
      BY <1>5, <3>2, <3>3
  <2>2. \A x \in Field : mem'[x] >= 0
    BY <1>4 DEF LInv, TypeOK
  <2> QED
    BY <1>2, <2>1, <2>2 DEF Newer
<1>9. /\ \A c \in Files : Fresh(c) => Fresh(c)'
      /\ \A c \in Files : BeingWritten(GroupOf(c)) /\ Exposed(GroupOf(c)) => Fresh(c)'
  <2>1. ASSUME NEW c \in Files, NEW x \in Keeps(c)
        PROVE  /\ x \in Field /\ Val(c, file[c])[x] \in Nat
               /\ done[x] \in Nat /\ done'[x] \in Nat
               /\ BeingWritten(GroupOf(c)) /\ Exposed(GroupOf(c)) => Lost(x)
    BY <1>5, FieldFacts DEF LInv, TypeOK
  <2>2. ASSUME NEW c \in Files, NEW x \in Keeps(c)
        PROVE  /\ Val(c, file[c])[x] >= done[x] => Val(c, file[c])[x] >= done'[x]
               /\ BeingWritten(GroupOf(c)) /\ Exposed(GroupOf(c)) => Val(c, file[c])[x] >= done'[x]
    <3> HIDE DEF Lost
    <3> QED
      BY <1>5, <2>1
  <2> QED
    BY <1>1, <2>2 DEF Fresh
<1>10. FilesOK'
  <2>1. /\ Writing("uni") => BeingWritten("uni") /\ Exposed("uni")
        /\ Writing("term") \/ Writing("bak") => BeingWritten("term")
    BY DEF Writing, BeingWritten, Exposed, GroupOf, Files
  <2>2. Fresh("uni")'
    BY <1>9, <2>1, FieldFacts DEF LInv, FilesOK, Files
  <2>3. "term" \notin cut' => "term" \notin cut /\ ~Writing("term") /\ ~Writing("bak")
    BY <1>1, <2>1 DEF Groups
  <2>4. ASSUME file["term"] = NoFile PROVE Fresh("bak")'
    <3>1. CASE BeingWritten("term") /\ Exposed("term")
      BY <1>9, <3>1, FieldFacts DEF Files
    <3>2. CASE ~(BeingWritten("term") /\ Exposed("term"))
      <4>1. ASSUME NEW x \in Keeps("bak") PROVE Val("bak", file["bak"])[x] >= done[x]
        <5>1. x \in Kept \cap FieldsOf("term")
          BY FieldFacts DEF Keeps
        <5>2. ParamInit(file)[x] >= done[x]
          BY <3>2, <5>1, LoadsEnough DEF Groups
        <5> QED
          BY <2>4, <5>1, <5>2, ParamInitReads
      <4> QED
        BY <1>9, <4>1 DEF Fresh, Files
    <3> QED
      BY <3>1, <3>2
  <2>5. Fresh("term")' \/ file'["term"] = NoFile
    BY <1>1, <1>9 DEF LInv, FilesOK, Files
  <2>6. "term" \notin cut' => Fresh("term")' /\ Fresh("bak")'
    BY <1>9, <2>3 DEF LInv, FilesOK, Files
  <2> QED
    BY <1>1, <1>2, <2>2, <2>4, <2>5, <2>6 DEF FilesOK, None
<1> QED
  BY <1>6, <1>7, <1>8, <1>10 DEF LInv

(***************************************************************************)
(* The theorem.                                                            *)
(***************************************************************************)
LEMMA LInitInv == Init => LInv
<1> SUFFICES ASSUME Init PROVE LInv
  OBVIOUS
<1>1. /\ mem = [x \in Field |-> 0] /\ done = [x \in Field |-> 0] /\ ver = 0
      /\ start = [t \in Tasks |-> [x \in Field |-> 0]]
      /\ pc = [t \in Tasks |-> "idle"] /\ cp = [t \in Tasks |-> None]
      /\ file = [c \in Files |-> NoFile] /\ broken = {} /\ cut = {} /\ xlock = NoOne
  BY DEF Init, LoadDef, LoadDefParaTerm, LoadDefParaUni, Field, Idle, Nowhere
<1>2. \A c \in Files : \A x \in FieldsOf(GroupOf(c)) : Val(c, file[c])[x] = 0
  BY <1>1, ValNoFile
<1>3. TypeOK
  BY <1>1, <1>2 DEF TypeOK, Pcs
<1>4. LockOK /\ Newer /\ TextOK
  BY <1>1, ParamSaveAssumption, FieldFacts DEF LockOK, Newer, TextOK, NoOne, None, Saving
<1>5. \A c \in Files : Fresh(c)
  BY <1>1, <1>2, FieldFacts DEF Fresh
<1>6. FilesOK
  BY <1>1, <1>5 DEF FilesOK, Files, None
<1> QED
  BY <1>3, <1>4, <1>6 DEF LInv

LEMMA TaskKeeps ==
    ASSUME LInv, NEW t \in Tasks, TaskStep(t) PROVE LInv'
<1>1. mem \in [Field -> 0 .. ver] /\ ver \in Nat
  BY DEF LInv, TypeOK
<1>2. ASSUME NEW i \in Items, write_item(t, i) PROVE LInv'
  <2>1. /\ ver' = ver + 1
        /\ mem' = [x \in Field |-> IF x \in i.fields THEN ver + 1 ELSE mem[x]]
        /\ pc[t] = "idle" /\ pc' = [pc EXCEPT ![t] = "or"]
        /\ UNCHANGED <<file, xlock, xbuf, cp, start, done, broken, cut>>
    BY <1>2 DEF write_item, Ver, lockVars
  <2>2. Later
    BY <1>1, <2>1 DEF Later, Field, TermFields
  <2> QED
    BY <2>1, <2>2, QuietStep DEF Saving, Pcs
<1>3. CASE paraterm_reset(t)
  <2>1. /\ ver' = ver + 1 /\ mem' = [mem EXCEPT !["term"] = ver + 1]
        /\ pc[t] = "idle" /\ Call(t, "term", mem', "reset")
        /\ UNCHANGED <<file, xlock, xbuf, done, broken, cut>>
    BY <1>3 DEF paraterm_reset, Ver, lockVars
  <2>2. Later
    BY <1>1, <2>1 DEF Later, Field, TermFields
  <2> QED
    BY <2>1, <2>2, CallStep DEF Saving
<1>4. ASSUME NEW q \in Pcs \ Saving, pc[t] \notin Saving, pc' = [pc EXCEPT ![t] = q],
             UNCHANGED <<mem, ver, file, xlock, xbuf, cp, start, done, broken, cut>>
      PROVE  LInv'
  <2>1. Later
    BY <1>1, <1>4 DEF Later
  <2> QED
    BY <1>4, <2>1, QuietStep
<1>5. CASE SetSaveParamFlagRead(t)
  BY <1>4, <1>5 DEF SetSaveParamFlagRead, memVars, lockVars, ghostVars, Saving, Pcs
<1>6. CASE SetSaveParamFlagWrite(t)
  BY <1>4, <1>6 DEF SetSaveParamFlagWrite, lockVars, ghostVars, Saving, Pcs
<1>7. CASE SaveParam(t)
  BY <1>4, <1>7 DEF SaveParam, memVars, ghostVars, Saving, Pcs
<1>8. CASE SaveParamUnlock(t)
  BY <1>4, <1>8 DEF SaveParamUnlock, memVars, ghostVars, Saving, Pcs
<1>9. CASE SaveParamClear(t)
  BY <1>4, <1>9 DEF SaveParamClear, lockVars, ghostVars, Saving, Pcs
<1>10. ASSUME NEW g \in {"term", "uni"}, NEW r, pc[t] \notin Saving, Call(t, g, mem, r),
              UNCHANGED <<mem, ver, file, xlock, xbuf, done, broken, cut>>
       PROVE  LInv'
  <2>1. Call(t, g, mem', r)
    BY <1>10 DEF Call
  <2>2. Later
    BY <1>1, <1>10 DEF Later
  <2> QED
    BY <1>10, <2>1, <2>2, CallStep
<1>11. CASE SaveParamTerm(t)
  BY <1>4, <1>10, <1>11 DEF SaveParamTerm, memVars, lockVars, Saving, Pcs
<1>12. CASE SaveParamUni(t)
  BY <1>4, <1>10, <1>12 DEF SaveParamUni, memVars, lockVars, Saving, Pcs
<1> QED
  BY <1>2, <1>3, <1>5, <1>6, <1>7, <1>8, <1>9, <1>11, <1>12, OpenStep, RemoveStep, WriteStep,
    FailStep DEF TaskStep

LEMMA LInvHolds == Spec => []LInv
<1>1. LInv /\ [Next]_vars => LInv'
  <2> SUFFICES ASSUME LInv, [Next]_vars PROVE LInv'
    OBVIOUS
  <2>1. CASE \E t \in Tasks : TaskStep(t) /\ Observe
    BY <2>1, TaskKeeps
  <2>2. CASE Restart
    BY <2>2, RestartStep
  <2>3. CASE UNCHANGED vars
    <3>1. UNCHANGED <<mem, ver, file, xlock, xbuf, pc, cp, start, done, broken, cut>>
      BY <2>3 DEF vars, memVars, lockVars, taskVars, ghostVars
    <3>2. \A c \in Files : (Writing(c) <=> Writing(c)') /\ (Fresh(c) <=> Fresh(c)')
      BY <3>1 DEF Writing, Fresh
    <3> QED
      BY <3>1, <3>2 DEF LInv, TypeOK, LockOK, Newer, TextOK, FilesOK, Files
  <2> QED
    BY <2>1, <2>2, <2>3 DEF Next, PowerCut, SysRestart
<1> QED
  BY LInitInv, <1>1, PTL DEF Spec

\* With any number of tasks that save at once and a power cut at any point, the
\* next start finds no parameter older than the last complete save has written
\* it, but for the moments in which the only copy is being written.
THEOREM SavesSurvive == Spec => []LoadsLastSave
<1>1. LInv => LoadsLastSave
  BY LoadsEnough DEF LoadsLastSave
<1> QED
  BY <1>1, LInvHolds, PTL

(***************************************************************************)
(* The invariant behind NothingForgotten.                                  *)
(***************************************************************************)
\* The fields NothingForgotten speaks of, and the flag each has.
Watched == Kept \ {"ipuser"}
FlagOf(x) == IF x \in UniFields THEN "uni" ELSE "term"

Stored(x) == mem[x] = ParamInit(file)[x]
Flagged(x) == Stored(x) \/ FlagOf(x) \in SaveFlag

\* Tasks that have taken turns in this uptime are not at work at once.
TakeTurns ==
    ~overlap => \A t, u \in Tasks : pc[t] # "idle" /\ pc[u] # "idle" => t = u

\* What task t, alone at work, has saved and flagged at each place.
Stage(t) ==
    /\ pc[t] \in {"or", "orwrite"} => \A x \in Watched : Flagged(x) \/ FlagOf(x) = orf[t]
    /\ pc[t] = "orwrite" => reg[t] = SaveFlag
    /\ pc[t] = "scanterm" => \A x \in Watched : Flagged(x)
    /\ pc[t] = "scanuni" => \A x \in Watched : Flagged(x) /\ (FlagOf(x) = "term" => Stored(x))
    /\ pc[t] \in {"unlock", "clear"} => \A x \in Watched : Stored(x)
    /\ pc[t] \in {"remove", "write"} => \A x \in Keeps(cp[t]) : Val(cp[t], xbuf)[x] = mem[x]
    /\ cp[t] \in {"term", "bak"} =>
        \A x \in Watched : FlagOf(x) = "uni" => Flagged(x) \/ (ret[t] = "reset" /\ orf[t] = "uni")
    /\ cp[t] = "bak" =>
        file["term"] # NoFile /\ \A x \in Keeps("term") : Val("term", file["term"])[x] = mem[x]
    /\ cp[t] = "uni" => \A x \in Watched : FlagOf(x) = "term" => Stored(x)

\* Every task has its own variables.
OwnVars == DOMAIN orf = Tasks /\ DOMAIN reg = Tasks /\ DOMAIN ret = Tasks

FInv ==
    /\ TakeTurns /\ OwnVars
    /\ ~overlap /\ broken = {} =>
        /\ pc = Idle => \A x \in Watched : Flagged(x)
        /\ \A t \in Tasks : Stage(t)

LEMMA WatchedFacts ==
    \A x \in Watched :
        \/ FlagOf(x) = "uni" /\ x \in Keeps("uni") /\ x \in FieldsOf("uni") /\ x \in Field
        \/ FlagOf(x) = "term" /\ x \in Keeps("term") /\ x \in Keeps("bak")
           /\ x \in FieldsOf("term") /\ x \in Field
BY DEF Watched, FlagOf, Keeps, Kept, Field, TermFields, UniFields, FieldsOf, GroupOf

\* A step of t leaves the other tasks where they are.
LEMMA OthersStay ==
    ASSUME LInv, NEW t \in Tasks, TaskStep(t)
    PROVE  /\ \A u \in Tasks \ {t} : pc'[u] = pc[u]
           /\ pc[t] = "idle" => pc'[t] # "idle"
<1>1. pc \in [Tasks -> Pcs]
  BY DEF LInv, TypeOK
<1>3. CASE \E i \in Items : write_item(t, i)
  BY <1>1, <1>3 DEF write_item
<1>4. CASE paraterm_reset(t)
  BY <1>1, <1>4 DEF paraterm_reset, Call
<1>5. CASE SetSaveParamFlagRead(t) \/ SetSaveParamFlagWrite(t) \/ SaveParam(t)
           \/ SaveParamUnlock(t) \/ SaveParamClear(t) \/ XinOpen(t) \/ XinCloseRemove(t)
  BY <1>1, <1>5 DEF SetSaveParamFlagRead, SetSaveParamFlagWrite, SaveParam, SaveParamUnlock,
    SaveParamClear, XinOpen, XinCloseRemove
<1>6. CASE SaveParamTerm(t) \/ SaveParamUni(t)
  BY <1>1, <1>6 DEF SaveParamTerm, SaveParamUni, Call
<1>7. CASE XinCloseWrite(t) \/ XinCloseFail(t)
  BY <1>1, <1>7 DEF XinCloseWrite, XinCloseFail, AfterClose
<1> QED
  BY <1>3, <1>4, <1>5, <1>6, <1>7 DEF TaskStep

\* Every task keeps its variables, and a file that could not be written stays so.
LEMMA OwnVarsStay ==
    ASSUME LInv, OwnVars, NEW t \in Tasks, TaskStep(t)
    PROVE  OwnVars' /\ broken \subseteq broken'
<1>1. CASE \E i \in Items : write_item(t, i)
  BY <1>1 DEF OwnVars, write_item
<1>2. CASE paraterm_reset(t)
  BY <1>2 DEF OwnVars, paraterm_reset, Call
<1>3. CASE SetSaveParamFlagRead(t) \/ SetSaveParamFlagWrite(t) \/ SaveParam(t)
           \/ SaveParamUnlock(t) \/ SaveParamClear(t) \/ XinOpen(t) \/ XinCloseRemove(t)
  BY <1>3 DEF OwnVars, SetSaveParamFlagRead, SetSaveParamFlagWrite, SaveParam, SaveParamUnlock,
    SaveParamClear, XinOpen, XinCloseRemove, ghostVars
<1>4. CASE SaveParamTerm(t) \/ SaveParamUni(t)
  BY <1>4 DEF OwnVars, SaveParamTerm, SaveParamUni, Call
<1>5. CASE XinCloseWrite(t) \/ XinCloseFail(t)
  BY <1>5 DEF OwnVars, XinCloseWrite, XinCloseFail, AfterClose
<1> QED
  BY <1>1, <1>2, <1>3, <1>4, <1>5 DEF TaskStep

\* A step that leaves the files and the parameters alone.
LEMMA SameStored ==
    ASSUME UNCHANGED <<mem, file>> PROVE \A x : Stored(x)' <=> Stored(x)
BY DEF Stored, ParamInit

\* What the steps of XinClose do to what the next start would load.
LEMMA LoadedAfter ==
    ASSUME LInv, LInv', NEW c \in Files, NEW f,
           file' = [file EXCEPT ![c] = f], UNCHANGED mem, NEW x \in Watched
    PROVE  /\ FlagOf(x) # GroupOf(c) => (Stored(x)' <=> Stored(x))
           /\ c = "uni" /\ FlagOf(x) = "uni" => (Stored(x)' <=> mem[x] = Val("uni", f)[x])
           /\ c = "bak" /\ FlagOf(x) = "term" /\ file["term"] # NoFile =>
                (Stored(x)' <=> mem[x] = Val("term", file["term"])[x])
<1>1. \A d \in Files : file'[d] = IF d = c THEN f ELSE file[d]
  BY DEF LInv, TypeOK
<1>2. /\ \A y \in FieldsOf("uni") : ParamInit(file')[y] = Val("uni", file'["uni"])[y]
      /\ \A y \in FieldsOf("term") :
         /\ file'["term"] # NoFile => ParamInit(file')[y] = Val("term", file'["term"])[y]
         /\ file'["term"] = NoFile => ParamInit(file')[y] = Val("bak", file'["bak"])[y]
  BY DEF ParamInit, Val, FieldsOf, Field, TermFields, UniFields
<1>3. Stored(x)' <=> mem[x] = ParamInit(file')[x]
  BY DEF Stored, ParamInit
<1>4. Stored(x) <=> mem[x] = ParamInit(file)[x]
  BY DEF Stored
<1>5. CASE FlagOf(x) = "uni"
  <2>1. x \in FieldsOf("uni")
    BY <1>5, WatchedFacts
  <2>2. /\ Stored(x)' <=> mem[x] = Val("uni", file'["uni"])[x]
        /\ Stored(x) <=> mem[x] = Val("uni", file["uni"])[x]
    BY <1>2, <1>3, <1>4, <2>1, ParamInitReads
  <2>3. c # "uni" => file'["uni"] = file["uni"]
    BY <1>1 DEF Files
  <2>4. c = "uni" => file'["uni"] = f /\ GroupOf(c) = "uni"
    BY <1>1 DEF Files, GroupOf
  <2> QED
    BY <1>5, <2>2, <2>3, <2>4
<1>6. CASE FlagOf(x) = "term"
  <2>1. x \in FieldsOf("term")
    BY <1>6, WatchedFacts
  <2>2. CASE c = "uni"
    <3>1. file'["term"] = file["term"] /\ file'["bak"] = file["bak"]
      BY <1>1, <2>2 DEF Files
    <3>2. ParamInit(file')[x] = ParamInit(file)[x]
      BY <3>1, <2>1 DEF ParamInit, FieldsOf, Field, TermFields, UniFields
    <3>3. Stored(x)' <=> Stored(x)
      BY <1>3, <1>4, <3>2
    <3> QED
      BY <1>6, <2>2, <3>3
  <2>3. CASE c = "term"
    BY <1>6, <2>3 DEF GroupOf
  <2>4. CASE c = "bak"
    <3>1. file'["term"] = file["term"] /\ GroupOf(c) = "term"
      BY <1>1, <2>4 DEF Files, GroupOf
    <3> QED
      BY <1>2, <1>3, <1>6, <2>1, <2>4, <3>1
  <2> QED
    BY <2>2, <2>3, <2>4 DEF Files
<1> QED
  BY <1>5, <1>6 DEF FlagOf

\* The stage of the task at work follows its steps.
StageStep(t) == Stage(t)' /\ (pc'[t] = "idle" => \A x \in Watched : Flagged(x)')

LEMMA QuietStages ==
    ASSUME LInv, LInv', OwnVars, NEW t \in Tasks, Stage(t),
           pc[t] = "idle" => \A x \in Watched : Flagged(x),
           \/ SetSaveParamFlagRead(t) \/ SetSaveParamFlagWrite(t) \/ SaveParam(t)
           \/ SaveParamUnlock(t) \/ SaveParamClear(t)
    PROVE  StageStep(t)
<1>1. UNCHANGED <<mem, file, cp>>
  BY DEF SetSaveParamFlagRead, SetSaveParamFlagWrite, SaveParam, SaveParamUnlock,
    SaveParamClear, memVars
<1>2. \A x : Stored(x)' <=> Stored(x)
  BY <1>1, SameStored
<1>3. pc[t] \notin Saving /\ cp[t] = None /\ cp'[t] = None
  BY <1>1 DEF LInv, LockOK, Saving, SetSaveParamFlagRead, SetSaveParamFlagWrite, SaveParam,
    SaveParamUnlock, SaveParamClear
<1>4. /\ pc \in [Tasks -> Pcs]
      /\ cp'[t] \notin {"term", "bak", "uni"}
  BY <1>3 DEF LInv, TypeOK, None
<1>5. CASE SetSaveParamFlagRead(t)
  <2>1. /\ pc[t] = "or" /\ pc'[t] = "orwrite" /\ orf' = orf /\ SaveFlag' = SaveFlag
        /\ reg' = [reg EXCEPT ![t] = SaveFlag]
    BY <1>4, <1>5 DEF SetSaveParamFlagRead, memVars
  <2>2. reg'[t] = SaveFlag
    BY <2>1 DEF OwnVars
  <2> QED
    BY <1>2, <1>4, <2>1, <2>2 DEF StageStep, Stage, Flagged
<1>6. CASE SetSaveParamFlagWrite(t)
  <2>1. /\ pc[t] = "orwrite" /\ pc'[t] = "idle" /\ SaveFlag' = reg[t] \cup {orf[t]}
    BY <1>4, <1>6 DEF SetSaveParamFlagWrite
  <2> QED
    BY <1>2, <1>4, <2>1 DEF StageStep, Stage, Flagged
<1>7. CASE SaveParam(t)
  <2>1. pc[t] = "idle" /\ pc'[t] = "scanterm" /\ SaveFlag' = SaveFlag
    BY <1>4, <1>7 DEF SaveParam, memVars
  <2> QED
    BY <1>2, <1>4, <2>1 DEF StageStep, Stage, Flagged
<1>8. CASE SaveParamUnlock(t)
  <2>1. pc[t] = "unlock" /\ pc'[t] = "clear"
    BY <1>4, <1>8 DEF SaveParamUnlock
  <2> QED
    BY <1>2, <1>4, <2>1 DEF StageStep, Stage
<1>9. CASE SaveParamClear(t)
  <2>1. pc[t] = "clear" /\ pc'[t] = "idle"
    BY <1>4, <1>9 DEF SaveParamClear
  <2> QED
    BY <1>2, <1>4, <2>1 DEF StageStep, Stage, Flagged
<1> QED
  BY <1>5, <1>6, <1>7, <1>8, <1>9

LEMMA SetStages ==
    ASSUME LInv, LInv', OwnVars, NEW t \in Tasks, \A x \in Watched : Flagged(x),
           (\E i \in Items : write_item(t, i)) \/ paraterm_reset(t)
    PROVE  StageStep(t)
<1>1. /\ pc \in [Tasks -> Pcs] /\ cp \in [Tasks -> Files \cup {None}] /\ mem \in [Field -> 0 .. ver]
  BY DEF LInv, TypeOK
<1>2. ASSUME NEW i \in Items, write_item(t, i) PROVE StageStep(t)
  <2>1. /\ pc[t] = "idle" /\ pc'[t] = "or" /\ orf'[t] = i.flag /\ SaveFlag' = SaveFlag
        /\ file' = file /\ cp' = cp
        /\ \A x \in Field \ i.fields : mem'[x] = mem[x]
    BY <1>1, <1>2 DEF write_item, OwnVars
  <2>2. cp'[t] = None
    BY <2>1 DEF LInv, LockOK, Saving
  <2>3. cp'[t] \notin {"term", "bak", "uni"}
    BY <2>2 DEF None
  <2>4. \A x \in Watched : x \in i.fields => FlagOf(x) = i.flag
    BY DEF Items, Item, Watched, Kept, Field, TermFields, UniFields, FlagOf
  <2>5. ParamInit(file)' = ParamInit(file)
    BY <2>1 DEF ParamInit
  <2>6. \A x \in Watched : Flagged(x)' \/ FlagOf(x) = orf'[t]
    <3> TAKE x \in Watched
    <3>1. x \in Field
      BY WatchedFacts
    <3>2. CASE x \in i.fields
      BY <2>1, <2>4, <3>2
    <3>3. CASE x \notin i.fields
      BY <2>1, <2>5, <3>1, <3>3 DEF Flagged, Stored
    <3> QED
      BY <3>2, <3>3
  <2> QED
    BY <2>1, <2>3, <2>6 DEF StageStep, Stage
<1>3. CASE paraterm_reset(t)
  <2>1. /\ pc'[t] = "open" /\ cp'[t] = "term" /\ ret'[t] = "reset" /\ orf'[t] = "uni"
    BY <1>1, <1>3 DEF paraterm_reset, Call, OwnVars
  <2> QED
    BY <2>1 DEF StageStep, Stage
<1> QED
  BY <1>2, <1>3

LEMMA ScanStages ==
    ASSUME LInv, LInv', OwnVars, NEW t \in Tasks, Stage(t),
           SaveParamTerm(t) \/ SaveParamUni(t)
    PROVE  StageStep(t)
<1>1. /\ pc \in [Tasks -> Pcs] /\ cp \in [Tasks -> Files \cup {None}]
  BY DEF LInv, TypeOK
<1>2. /\ pc[t] \in {"scanterm", "scanuni"} /\ UNCHANGED <<mem, file, SaveFlag>>
  BY DEF SaveParamTerm, SaveParamUni, memVars
<1>3. \A x : (Stored(x)' <=> Stored(x)) /\ (Flagged(x)' <=> Flagged(x))
  BY <1>2, SameStored DEF Flagged
<1>4. cp[t] = None /\ cp[t] \notin {"term", "bak", "uni"}
  BY <1>2 DEF LInv, LockOK, Saving, None
<1>5. CASE SaveParamTerm(t)
  <2>1. pc[t] = "scanterm" /\ \A x \in Watched : Flagged(x)
    BY <1>5 DEF SaveParamTerm, Stage
  <2>2. CASE "term" \in SaveFlag
    <3>1. pc'[t] = "open" /\ cp'[t] = "term"
      BY <1>1, <1>5, <2>2 DEF SaveParamTerm, Call
    <3> QED
      BY <1>3, <2>1, <3>1 DEF StageStep, Stage
  <2>3. CASE "term" \notin SaveFlag
    <3>1. pc'[t] = "scanuni" /\ cp'[t] = cp[t]
      BY <1>1, <1>5, <2>3 DEF SaveParamTerm
    <3>2. \A x \in Watched : FlagOf(x) = "term" => Stored(x)
      BY <2>1, <2>3 DEF Flagged
    <3> QED
      BY <1>3, <1>4, <2>1, <3>1, <3>2 DEF StageStep, Stage
  <2> QED
    BY <2>2, <2>3
<1>6. CASE SaveParamUni(t)
  <2>1. /\ pc[t] = "scanuni"
        /\ \A x \in Watched : Flagged(x) /\ (FlagOf(x) = "term" => Stored(x))
    BY <1>6 DEF SaveParamUni, Stage
  <2>2. CASE "uni" \in SaveFlag
    <3>1. pc'[t] = "open" /\ cp'[t] = "uni"
      BY <1>1, <1>6, <2>2 DEF SaveParamUni, Call
    <3> QED
      BY <1>3, <2>1, <3>1 DEF StageStep, Stage
  <2>3. CASE "uni" \notin SaveFlag
    <3>1. pc'[t] = "unlock" /\ cp'[t] = cp[t]
      BY <1>1, <1>6, <2>3 DEF SaveParamUni
    <3>2. \A x \in Watched : Stored(x)
      BY <2>1, <2>3 DEF Flagged, FlagOf
    <3> QED
      BY <1>3, <1>4, <3>1, <3>2 DEF StageStep, Stage
  <2> QED
    BY <2>2, <2>3
<1> QED
  BY <1>5, <1>6

LEMMA OpenStages ==
    ASSUME LInv, LInv', OwnVars, NEW t \in Tasks, Stage(t), XinOpen(t)
    PROVE  StageStep(t)
<1>1. /\ pc \in [Tasks -> Pcs] /\ cp \in [Tasks -> Files \cup {None}]
      /\ ver \in Nat /\ mem \in [Field -> 0 .. ver]
  BY DEF LInv, TypeOK
<1>2. /\ pc[t] = "open" /\ pc'[t] = "remove" /\ xbuf' = Text(cp[t], mem)
      /\ UNCHANGED <<mem, file, SaveFlag, cp, ret, orf>>
  BY <1>1 DEF XinOpen, memVars
<1>3. \A x : (Stored(x)' <=> Stored(x)) /\ (Flagged(x)' <=> Flagged(x))
  BY <1>2, SameStored DEF Flagged
<1>4. cp[t] \in Files
  BY <1>1, <1>2 DEF LInv, LockOK, Saving
<1>5. \A x \in Keeps(cp[t]) : Val(cp[t], Text(cp[t], mem))[x] = mem[x]
  BY <1>1, <1>4, ValFacts
<1>6. \A x \in Keeps(cp'[t]) : Val(cp'[t], xbuf')[x] = mem'[x]
  BY <1>2, <1>5
<1> QED
  BY <1>2, <1>3, <1>6 DEF StageStep, Stage

LEMMA RemoveStages ==
    ASSUME LInv, LInv', OwnVars, NEW t \in Tasks, Stage(t), XinCloseRemove(t)
    PROVE  StageStep(t)
<1>1. /\ pc \in [Tasks -> Pcs] /\ cp \in [Tasks -> Files \cup {None}] /\ DOMAIN file = Files
  BY DEF LInv, TypeOK
<1>2. /\ pc[t] = "remove" /\ pc'[t] = "write" /\ file' = [file EXCEPT ![cp[t]] = NoFile]
      /\ UNCHANGED <<mem, SaveFlag, cp, ret, orf, xbuf>>
  BY <1>1 DEF XinCloseRemove, memVars, lockVars
<1>3. cp[t] \in Files
  BY <1>1, <1>2 DEF LInv, LockOK, Saving
<1>4. \A x \in Watched : FlagOf(x) # GroupOf(cp[t]) =>
           (Stored(x)' <=> Stored(x)) /\ (Flagged(x)' <=> Flagged(x))
  <2> TAKE x \in Watched
  <2>1. FlagOf(x) # GroupOf(cp[t]) => (Stored(x)' <=> Stored(x))
    BY <1>2, <1>3, LoadedAfter
  <2> QED
    BY <1>2, <2>1 DEF Flagged
<1>5. \A x \in Keeps(cp'[t]) : Val(cp'[t], xbuf')[x] = mem'[x]
  BY <1>2 DEF Stage
<1>6. CASE cp[t] = "uni"
  <2>1. \A x \in Watched : FlagOf(x) = "term" => Stored(x)'
    BY <1>4, <1>6 DEF Stage, GroupOf
  <2> QED
    BY <1>2, <1>5, <1>6, <2>1 DEF StageStep, Stage
<1>7. CASE cp[t] \in {"term", "bak"}
  <2>1. GroupOf(cp[t]) = "term"
    BY <1>7 DEF GroupOf
  <2>2. \A x \in Watched : FlagOf(x) = "uni" => Flagged(x)' \/ (ret'[t] = "reset" /\ orf'[t] = "uni")
    BY <1>2, <1>4, <1>7, <2>1 DEF Stage
  <2>3. cp[t] = "bak" =>
          file'["term"] # NoFile /\ \A x \in Keeps("term") : Val("term", file'["term"])[x] = mem'[x]
    <3> SUFFICES ASSUME cp[t] = "bak"
                 PROVE  file'["term"] # NoFile /\ \A x \in Keeps("term") : Val("term", file'["term"])[x] = mem'[x]
      OBVIOUS
    <3>1. file'["term"] = file["term"] /\ mem' = mem
      BY <1>1, <1>2 DEF Files
    <3> QED
      BY <3>1 DEF Stage
  <2> QED
    BY <1>2, <1>5, <1>7, <2>2, <2>3 DEF StageStep, Stage
<1> QED
  BY <1>3, <1>6, <1>7 DEF Files

LEMMA WriteStages ==
    ASSUME LInv, LInv', OwnVars, NEW t \in Tasks, Stage(t), XinCloseWrite(t)
    PROVE  StageStep(t)
<1>1. /\ pc \in [Tasks -> Pcs] /\ cp \in [Tasks -> Files \cup {None}] /\ DOMAIN file = Files
  BY DEF LInv, TypeOK
<1>2. /\ pc[t] = "write" /\ file' = [file EXCEPT ![cp[t]] = xbuf]
      /\ UNCHANGED <<mem, SaveFlag, orf>> /\ AfterClose(t)
  BY DEF XinCloseWrite, memVars
<1>3. cp[t] \in Files /\ xbuf # NoFile
  BY <1>1, <1>2 DEF LInv, LockOK, TextOK, Saving
<1>4. \A x \in Keeps(cp[t]) : Val(cp[t], xbuf)[x] = mem[x]
  BY <1>2 DEF Stage
<1>5. \A x \in Watched :
         /\ FlagOf(x) # GroupOf(cp[t]) => (Stored(x)' <=> Stored(x)) /\ (Flagged(x)' <=> Flagged(x))
         /\ cp[t] = "uni" /\ FlagOf(x) = "uni" => (Stored(x)' <=> mem[x] = Val("uni", xbuf)[x])
         /\ cp[t] = "bak" /\ FlagOf(x) = "term" /\ file["term"] # NoFile =>
              (Stored(x)' <=> mem[x] = Val("term", file["term"])[x])
  <2> TAKE x \in Watched
  <2>1. /\ FlagOf(x) # GroupOf(cp[t]) => (Stored(x)' <=> Stored(x))
        /\ cp[t] = "uni" /\ FlagOf(x) = "uni" => (Stored(x)' <=> mem[x] = Val("uni", xbuf)[x])
        /\ cp[t] = "bak" /\ FlagOf(x) = "term" /\ file["term"] # NoFile =>
             (Stored(x)' <=> mem[x] = Val("term", file["term"])[x])
    BY <1>2, <1>3, LoadedAfter
  <2>2. FlagOf(x) # GroupOf(cp[t]) => (Flagged(x)' <=> Flagged(x))
    BY <1>2, <2>1 DEF Flagged
  <2> QED
    BY <2>1, <2>2
<1>6. \A x \in Watched : Stored(x)' => Flagged(x)'
  BY DEF Flagged
<1>7. CASE cp[t] = "term"
  <2>1. cp'[t] = "bak" /\ pc'[t] = "open" /\ ret' = ret
    BY <1>1, <1>2, <1>7 DEF AfterClose
  <2>2. \A x \in Watched : FlagOf(x) = "uni" => Flagged(x)' \/ (ret'[t] = "reset" /\ orf'[t] = "uni")
    BY <1>2, <1>5, <1>7, <2>1 DEF Stage, GroupOf
  <2>3. file'["term"] = xbuf
    BY <1>1, <1>2, <1>7 DEF Files
  <2>4. file'["term"] # NoFile /\ \A x \in Keeps("term") : Val("term", file'["term"])[x] = mem'[x]
    BY <1>2, <1>3, <1>4, <1>7, <2>3
  <2> QED
    BY <2>1, <2>2, <2>4 DEF StageStep, Stage
<1>8. CASE cp[t] = "bak"
  <2>1. \A x \in Watched : FlagOf(x) = "term" => Stored(x)'
    BY <1>5, <1>8, WatchedFacts DEF Stage
  <2>2. \A x \in Watched : FlagOf(x) = "uni" => Flagged(x)' \/ (ret[t] = "reset" /\ orf[t] = "uni")
    BY <1>5, <1>8 DEF Stage, GroupOf
  <2>3. cp'[t] \notin {"term", "bak", "uni"} /\ pc'[t] = IF ret[t] = "reset" THEN "or" ELSE "scanuni"
    BY <1>1, <1>2, <1>8 DEF AfterClose, None
  <2>4. \A x \in Watched : FlagOf(x) = "uni" \/ FlagOf(x) = "term"
    BY DEF FlagOf
  <2> QED
    BY <1>2, <1>6, <2>1, <2>2, <2>3, <2>4 DEF StageStep, Stage
<1>9. CASE cp[t] = "uni"
  <2>1. \A x \in Watched : FlagOf(x) = "term" => Stored(x)'
    BY <1>5, <1>9 DEF Stage, GroupOf
  <2>2. \A x \in Watched : FlagOf(x) = "uni" => Stored(x)'
    BY <1>4, <1>5, <1>9, WatchedFacts
  <2>3. \A x \in Watched : Stored(x)' /\ Flagged(x)'
    BY <1>6, <2>1, <2>2 DEF FlagOf
  <2>4. cp'[t] \notin {"term", "bak", "uni"} /\ pc'[t] = IF ret[t] = "reset" THEN "or" ELSE "unlock"
    BY <1>1, <1>2, <1>9 DEF AfterClose, None
  <2> QED
    BY <2>3, <2>4 DEF StageStep, Stage
<1> QED
  BY <1>3, <1>7, <1>8, <1>9 DEF Files

\* Steps of a task keep the invariant: while tasks take turns, every other task
\* is idle before and after the step.
LEMMA TaskKeepsFlags ==
    ASSUME LInv, LInv', FInv, NEW t \in Tasks, TaskStep(t), Observe
    PROVE  FInv'
<1>1. TakeTurns'
  BY DEF TakeTurns, Observe
<1>2. OwnVars' /\ broken \subseteq broken'
  BY OwnVarsStay DEF FInv
<1> SUFFICES ASSUME ~overlap', broken' = {}
             PROVE  /\ pc' = Idle => \A x \in Watched : Flagged(x)'
                    /\ \A u \in Tasks : Stage(u)'
  BY <1>1, <1>2 DEF FInv, Idle
<1>3. ~overlap /\ broken = {}
  BY <1>2 DEF Observe
<1>4. \A u \in Tasks \ {t} : pc[u] = "idle" /\ pc'[u] = "idle"
  BY <1>3, OthersStay DEF Observe, FInv, TakeTurns
<1>5. ASSUME NEW u \in Tasks \ {t} PROVE Stage(u)'
  <2>1. pc'[u] = "idle"
    BY <1>4
  <2>2. cp'[u] = None
    BY <2>1 DEF LInv, LockOK, Saving
  <2> QED
    BY <2>1, <2>2 DEF Stage, None
<1>6. pc[t] = "idle" => \A x \in Watched : Flagged(x)
  <2> SUFFICES ASSUME pc[t] = "idle" PROVE \A x \in Watched : Flagged(x)
    OBVIOUS
  <2>1. pc = Idle
    BY <1>4 DEF Idle, LInv, TypeOK
  <2> QED
    BY <1>3, <2>1 DEF FInv
<1>7. Stage(t) /\ OwnVars
  BY <1>3 DEF FInv
<1>8. StageStep(t)
  <2>1. CASE (\E i \in Items : write_item(t, i)) \/ paraterm_reset(t)
    <3>1. \A x \in Watched : Flagged(x)
      BY <1>6, <2>1 DEF write_item, paraterm_reset
    <3> QED
      BY <1>7, <2>1, <3>1, SetStages
  <2>2. CASE SetSaveParamFlagRead(t) \/ SetSaveParamFlagWrite(t) \/ SaveParam(t)
             \/ SaveParamUnlock(t) \/ SaveParamClear(t)
    BY <1>6, <1>7, <2>2, QuietStages
  <2>3. CASE SaveParamTerm(t) \/ SaveParamUni(t)
    BY <1>7, <2>3, ScanStages
  <2>4. CASE XinOpen(t)
    BY <1>7, <2>4, OpenStages
  <2>5. CASE XinCloseRemove(t)
    BY <1>7, <2>5, RemoveStages
  <2>6. CASE XinCloseWrite(t)
    BY <1>7, <2>6, WriteStages
  <2>7. CASE XinCloseFail(t)
    BY <2>7 DEF XinCloseFail
  <2> QED
    BY <2>1, <2>2, <2>3, <2>4, <2>5, <2>6, <2>7 DEF TaskStep
<1>9. pc' = Idle => pc'[t] = "idle"
  BY DEF Idle
<1> QED
  BY <1>5, <1>8, <1>9 DEF StageStep

\* After a start the parameters are the ones the files hold.
LEMMA RestartFlags == ASSUME LInv, Restart PROVE FInv'
<1>1. /\ pc' = Idle /\ cp' = Nowhere /\ mem' = ParamInit(file) /\ file' = file
  BY DEF Restart
<1>2. \A t \in Tasks : pc'[t] = "idle" /\ cp'[t] = None
  BY <1>1 DEF Idle, Nowhere
<1>3. \A x : Stored(x)'
  BY <1>1 DEF Stored, ParamInit
<1>4. OwnVars'
  BY DEF OwnVars, Restart, Nowhere
<1>5. \A t \in Tasks : Stage(t)'
  BY <1>2 DEF Stage, None
<1> QED
  BY <1>2, <1>3, <1>4, <1>5 DEF FInv, TakeTurns, Flagged

LEMMA FInitInv == Init => FInv
<1> SUFFICES ASSUME Init PROVE FInv
  OBVIOUS
<1>1. \A x \in Watched : Stored(x)
  <2> TAKE x \in Watched
  <2>1. x \in Field /\ ParamInit(file)[x] = 0
    BY WatchedFacts, ParamInitReads, ValNoFile, FieldFacts DEF Init, Files
  <2> QED
    BY <2>1 DEF Init, Stored, LoadDef, LoadDefParaUni, LoadDefParaTerm, Field
<1>2. \A t \in Tasks : pc[t] = "idle" /\ cp[t] = None
  BY DEF Init, Idle, Nowhere
<1>3. \A t \in Tasks : Stage(t)
  BY <1>2 DEF Stage, None
<1> QED
  BY <1>1, <1>2, <1>3 DEF FInv, TakeTurns, OwnVars, Flagged, Init, Nowhere

LEMMA FInvHolds == Spec => []FInv
<1>1. LInv /\ LInv' /\ FInv /\ [Next]_vars => FInv'
  <2> SUFFICES ASSUME LInv, LInv', FInv, [Next]_vars PROVE FInv'
    OBVIOUS
  <2>1. CASE \E t \in Tasks : TaskStep(t) /\ Observe
    BY <2>1, TaskKeepsFlags
  <2>2. CASE Restart
    BY <2>2, RestartFlags
  <2>3. CASE UNCHANGED vars
    <3>1. UNCHANGED <<mem, SaveFlag, file, xbuf, pc, cp, ret, orf, reg, broken, overlap>>
      BY <2>3 DEF vars, memVars, lockVars, taskVars, ghostVars
    <3>2. \A x : (Stored(x)' <=> Stored(x)) /\ (Flagged(x)' <=> Flagged(x))
      BY <3>1, SameStored DEF Flagged
    <3>3. ASSUME NEW t \in Tasks, Stage(t) PROVE Stage(t)'
      BY <3>1, <3>2, <3>3 DEF Stage
    <3> QED
      BY <3>1, <3>2, <3>3 DEF FInv, TakeTurns, OwnVars, Idle
  <2> QED
    BY <2>1, <2>2, <2>3 DEF Next, PowerCut, SysRestart
<1> QED
  BY FInitInv, LInvHolds, <1>1, PTL DEF Spec

\* As long as tasks take turns and files can be written, a parameter that
\* differs from what the next start would load has its flag in SaveFlag.
THEOREM NothingIsForgotten == Spec => []NothingForgotten
<1>1. FInv => NothingForgotten
  BY DEF FInv, NothingForgotten, Watched, Flagged, Stored, FlagOf
<1> QED
  BY <1>1, FInvHolds, PTL

(***************************************************************************)
(* The tables of scenes and timer tasks, whatever is in them.              *)
(***************************************************************************)
Rows == [id : Nat, body : Nat]
SceneTables == [0 .. MAX_SCENECLASS - 1 -> Rows]
TimerTaskTables == [0 .. MAX_TIMERTASK - 1 -> Rows]

\* The place of a number in a table of k rows.
LEMMA PlaceIs ==
    ASSUME NEW k \in Nat, NEW tab \in [0 .. k - 1 -> Rows], NEW id \in Nat
    PROVE  IF Named(tab, id) # {}
           THEN /\ Place(tab, id) \in DOMAIN tab /\ tab[Place(tab, id)].id = id
                /\ \A i \in DOMAIN tab : tab[i].id = id => Place(tab, id) <= i
           ELSE Place(tab, id) = k
<1> DEFINE S == Named(tab, id)
<1>1. CASE S = {}
  <2>1. 0 \in Int /\ k - 1 \in Int
    OBVIOUS
  <2>2. Cardinality(0 .. k - 1) = IF 0 > k - 1 THEN 0 ELSE (k - 1) - 0 + 1
    BY <2>1, FS_Interval
  <2>3. DOMAIN tab = 0 .. k - 1
    OBVIOUS
  <2>4. Cardinality(DOMAIN tab) = k
    BY <2>2, <2>3
  <2> QED
    BY <1>1, <2>4 DEF Place
<1>2. CASE S # {}
  <2>1. S \subseteq Nat
    BY DEF Named
  <2> DEFINE R == OpToRel(<, Nat)
  <2>2. IsWellFoundedOn(R, Nat)
    BY NatLessThanWellFounded
  <2>3. \A x, y \in Nat : y < x => <<y, x>> \in R
    BY DEF OpToRel
  <2> HIDE DEF R, S
  <2>4. PICK x \in S : \A y \in S : ~(<<y, x>> \in R)
    BY <1>2, <2>1, <2>2, WFMin
  <2>5. x \in Nat /\ \A y \in S : y \in Nat /\ ~(y < x)
    BY <2>1, <2>3, <2>4
  <2>6. S \in SUBSET Int /\ \A y \in S : x <= y
    BY <2>1, <2>5
  <2>7. Min(S) = x
    BY <2>4, <2>6, MinIs
  <2>8. Place(tab, id) = x
    BY <1>2, <2>7 DEF Place, S
  <2> QED
    BY <1>2, <2>4, <2>6, <2>8 DEF Named, S
<1> QED
  BY <1>1, <1>2

LEMMA ReadIs ==
    ASSUME NEW k \in Nat, NEW tab \in [0 .. k - 1 -> Rows], NEW id \in Nat
    PROVE  /\ Named(tab, id) # {} => Read(tab, id).rtn = 0 /\ Read(tab, id).row = tab[Place(tab, id)]
           /\ Named(tab, id) = {} => Read(tab, id).rtn = -1
BY DEF Read

\* Whatever scenes there are, and whatever is written, paraterm_sceneWrite leaves the
\* bodies of the others as they are and stays in its table; what is overwritten is read
\* back under its number, unless an earlier row has the same.
THEOREM SceneWritesApart ==
    \A old \in SceneTables, item \in g_item_sceneinfo, row \in Rows : SceneWriteApart(old, item, row)
<1> SUFFICES ASSUME NEW old \in SceneTables, NEW item \in g_item_sceneinfo, NEW row \in Rows
             PROVE  SceneWriteApart(old, item, row)
  OBVIOUS
<1> DEFINE at == SceneOf(item)
           free == Place(old, 0)
           w == paraterm_sceneWrite(old, item, row)
           adds == row.id > MAX_SCENECLASS
           own == IF adds THEN {} ELSE {IF row.id = 0 THEN SceneOf(item) - 1 ELSE SceneOf(item)}
           D == 0 .. 15
<1>1. at \in 1 .. 15
  BY DEF SceneOf, g_item_sceneinfo
<1>2. old \in [D -> Rows] /\ row.id \in Nat /\ MAX_SCENECLASS = 16
  BY DEF SceneTables, MAX_SCENECLASS, Rows
<1> DEFINE add == IF free \notin DOMAIN old THEN Full(old)
                  ELSE Done([old EXCEPT ![free] = row, ![at - 1].id = free])
           delete == Put(old, at - 1, NoRow)
           change == Put(old, at, row)
<1>0. w = CASE adds -> add [] row.id = 0 -> delete [] OTHER -> change
  BY Zenon DEF paraterm_sceneWrite
<1> HIDE DEF at, free
<1>3. CASE adds
  <2>1. w = add
    <3> HIDE DEF w, add, delete, change
    <3> QED
      BY <1>0, <1>2, <1>3
  <2>2. CASE free \notin DOMAIN old
    BY <1>2, <1>3, <2>1, <2>2 DEF Full, BodiesKept, SceneWriteApart
  <2>3. CASE free \in DOMAIN old
    <3> DEFINE mid == [old EXCEPT ![free] = row]
               new == [mid EXCEPT ![at - 1].id = free]
    <3>1. w.tab = new /\ ~w.beyond
      BY <2>1, <2>3 DEF Done
    <3>2. old[free].id = 0
      <4>1. old \in [0 .. 16 - 1 -> Rows] /\ 16 \in Nat /\ 0 \in Nat
        BY <1>2
      <4>2. IF Named(old, 0) # {} THEN old[free].id = 0 ELSE free = 16
        BY <4>1, PlaceIs DEF free
      <4> QED
        BY <1>2, <2>3, <4>2
    <3>3. mid \in [D -> Rows] /\ \A i \in D : mid[i].body = old[i].body \/ i = free
      BY <1>2
    <3> HIDE DEF mid
    <3>4. at - 1 \in D
      BY <1>1
    <3>5. \A i \in D : new[i].body = mid[i].body
      BY <3>3, <3>4 DEF Rows
    <3> HIDE DEF new
    <3>6. BodiesKept(old, new, own)
      BY <1>2, <3>2, <3>3, <3>5 DEF BodiesKept
    <3> QED
      BY <1>2, <1>3, <3>1, <3>6 DEF SceneWriteApart
  <2> QED
    BY <2>2, <2>3
<1>4. CASE row.id = 0
  <2>1. w = Put(old, at - 1, NoRow) /\ ~adds /\ own = {at - 1}
    <3>1. w = delete
      <4> HIDE DEF w, add, delete, change
      <4> QED
        BY <1>0, <1>2, <1>4
    <3> QED
      BY <3>1, <1>2, <1>4 DEF at
  <2> DEFINE new == [old EXCEPT ![at - 1] = NoRow]
  <2>2. w.tab = new /\ ~w.beyond
    BY <1>1, <1>2, <2>1 DEF Put, Done
  <2>3. \A i \in D : i # at - 1 => new[i] = old[i]
    BY <1>2
  <2> HIDE DEF new
  <2>4. BodiesKept(old, new, {at - 1})
    BY <1>2, <2>3 DEF BodiesKept
  <2>5. \A i \in paraterm_scenelist(new, DOMAIN old) : i = at - 1 \/ old[i].id # 0
    BY <1>2, <2>3 DEF paraterm_scenelist
  <2>6. BodiesKept(old, w.tab, own)
    BY <2>1, <2>2, <2>4
  <2>7. \A i \in paraterm_scenelist(w.tab, DOMAIN old) : i \in own \/ old[i].id # 0
    BY <2>1, <2>2, <2>5
  <2>8. row.id \notin 1 .. MAX_SCENECLASS
    BY <1>2, <1>4
  <2> QED
    BY <2>2, <2>6, <2>7, <2>8, Zenon DEF SceneWriteApart
<1>5. CASE row.id \in 1 .. 16
  <2>1. w = Put(old, at, row) /\ ~adds /\ own = {at}
    <3>1. w = change
      <4> HIDE DEF w, add, delete, change
      <4> QED
        BY <1>0, <1>2, <1>5
    <3> QED
      BY <3>1, <1>2, <1>5 DEF at
  <2> DEFINE new == [old EXCEPT ![at] = row]
  <2>2. w.tab = new /\ ~w.beyond
    BY <1>1, <1>2, <2>1 DEF Put, Done
  <2>3. new \in [D -> Rows] /\ new[at] = row /\ \A i \in D : i # at => new[i] = old[i]
    BY <1>1, <1>2
  <2> HIDE DEF new
  <2>4. BodiesKept(old, new, {at})
    BY <1>2, <2>3 DEF BodiesKept
  <2>5. \A i \in paraterm_scenelist(new, DOMAIN old) : i = at \/ old[i].id # 0
    BY <1>2, <2>3 DEF paraterm_scenelist
  <2>6. Read(new, row.id).rtn = 0 /\ (Read(new, row.id).row.body = row.body \/ Place(new, row.id) < at)
    <3>1. at \in Named(new, row.id)
      BY <1>1, <2>3 DEF Named
    <3>2. new \in [0 .. 16 - 1 -> Rows] /\ 16 \in Nat
      BY <2>3
    <3>3. /\ Place(new, row.id) \in DOMAIN new
          /\ \A i \in DOMAIN new : new[i].id = row.id => Place(new, row.id) <= i
      BY <1>2, <3>1, <3>2, PlaceIs
    <3>4. Read(new, row.id).rtn = 0 /\ Read(new, row.id).row = new[Place(new, row.id)]
      BY <1>2, <3>1, <3>2, ReadIs
    <3>5. Place(new, row.id) = at \/ Place(new, row.id) < at
      BY <1>1, <2>3, <3>3
    <3> QED
      BY <2>3, <3>4, <3>5
  <2> QED
    BY <1>2, <1>5, <2>1, <2>2, <2>4, <2>5, <2>6 DEF SceneWriteApart, at
<1>6. adds \/ row.id = 0 \/ row.id \in 1 .. 16
  BY <1>2
<1> QED
  BY <1>3, <1>4, <1>5, <1>6

\* Whatever timer tasks there are, and whatever is written, paraterm_timertaskWrite
\* leaves the bodies of the others as they are; it leaves its table only to overwrite a
\* task of a number that no row has, and a task that is added is listed and readable.
THEOREM TimerTaskWritesApart ==
    \A old \in TimerTaskTables, item \in g_item_timertaskinfo, row \in Rows :
        TimerTaskWriteApart(old, item, row)
<1> SUFFICES ASSUME NEW old \in TimerTaskTables, NEW item \in g_item_timertaskinfo, NEW row \in Rows
             PROVE  TimerTaskWriteApart(old, item, row)
  OBVIOUS
<1> DEFINE task == TimerTaskOf(item)
           free == Place(old, 0)
           w == paraterm_timertaskWrite(old, item, row)
           adds == row.id > MAX_TIMERTASK
           own == IF adds THEN {} ELSE IF row.id = 0 THEN {TimerTaskOf(item) - 1}
                  ELSE Named(old, TimerTaskOf(item))
           D == 0 .. 9
           add == IF free \notin DOMAIN old THEN Full(old) ELSE Put(old, free, Row(free, row.body))
           delete == Put(old, task - 1, NoRow)
           change == Put(old, Place(old, task), row)
           Listed == \E i \in DOMAIN old :
                         /\ paraterm_timertasklist(w.tab)[i] = Row(i, row.body)
                         /\ i = 0 \/ Place(w.tab, i) # i \/ Read(w.tab, i).row.body = row.body
<1>0. w = CASE adds -> add [] row.id = 0 -> delete [] OTHER -> change
  BY Zenon DEF paraterm_timertaskWrite
<1>1. task \in 1 .. 10 /\ task \in Nat
  BY DEF TimerTaskOf, g_item_timertaskinfo
<1>2. /\ old \in [D -> Rows] /\ row.id \in Nat /\ row.body \in Nat /\ MAX_TIMERTASK = 10
      /\ old \in [0 .. 10 - 1 -> Rows] /\ 10 \in Nat /\ 0 \in Nat
  BY DEF TimerTaskTables, MAX_TIMERTASK, Rows
<1>3. SUFFICES /\ BodiesKept(old, w.tab, own)
               /\ w.beyond => row.id \in 1 .. MAX_TIMERTASK /\ Read(old, TimerTaskOf(item)).rtn = -1
               /\ adds /\ w.rtn = 0 => Listed
  BY Zenon DEF TimerTaskWriteApart, paraterm_timertaskRead
<1> HIDE DEF task, free
<1>4. CASE adds
  <2>1. w = add
    <3> HIDE DEF w, add, delete, change
    <3> QED
      BY <1>0, <1>2, <1>4
  <2>2. CASE free \notin DOMAIN old
    <3>1. w = Full(old)
      BY <2>1, <2>2
    <3>2. w.tab = old /\ ~w.beyond /\ w.rtn = -1
      BY <3>1 DEF Full
    <3> HIDE DEF w, Listed
    <3> QED
      BY <1>2, <3>2 DEF BodiesKept
  <2>3. CASE free \in DOMAIN old
    <3> DEFINE r == Row(free, row.body)
               new == [old EXCEPT ![free] = r]
    <3>1. w = Done(new)
      BY <2>1, <2>3 DEF Put
    <3>2. w.tab = new /\ ~w.beyond
      BY <3>1 DEF Done
    <3>3. old[free].id = 0 /\ free \in D
      <4>1. IF Named(old, 0) # {} THEN old[free].id = 0 ELSE free = 10
        BY <1>2, PlaceIs DEF free
      <4> QED
        BY <1>2, <2>3, <4>1
    <3>4. new[free] = r /\ r.body = row.body /\ \A i \in D : i # free => new[i] = old[i]
      BY <1>2, <3>3 DEF Row
    <3>5. new[free] = Row(free, row.body)
      BY <3>4
    <3> HIDE DEF new, r, w
    <3>6. BodiesKept(old, w.tab, own)
      BY <1>2, <3>2, <3>3, <3>4 DEF BodiesKept
    <3>7. Place(new, free) = free => Read(new, free).row.body = row.body
      <4>1. r.id = free
        BY DEF r, Row
      <4>2. DOMAIN new = D
        BY <1>2 DEF new
      <4>3. free \in Named(new, free)
        BY <3>3, <3>4, <4>1, <4>2 DEF Named
      <4>4. Read(new, free).row = new[Place(new, free)]
        BY <4>3 DEF Read
      <4> QED
        BY <3>4, <4>4
    <3>8. Listed
      <4>1. free \in DOMAIN old
        BY <2>3
      <4>2. /\ paraterm_timertasklist(w.tab)[free] = Row(free, row.body)
            /\ free = 0 \/ Place(w.tab, free) # free \/ Read(w.tab, free).row.body = row.body
        BY <3>2, <3>5, <3>7 DEF paraterm_timertasklist
      <4> QED
        BY <4>1, <4>2
    <3> HIDE DEF Listed
    <3> QED
      BY <3>2, <3>6, <3>8
  <2> QED
    BY <2>2, <2>3
<1>5. CASE row.id = 0
  <2>1. w = delete /\ ~adds /\ own = {task - 1}
    <3>1. w = delete
      <4> HIDE DEF w, add, delete, change
      <4> QED
        BY <1>0, <1>2, <1>5
    <3> QED
      BY <3>1, <1>2, <1>5 DEF task
  <2> DEFINE new == [old EXCEPT ![task - 1] = NoRow]
  <2>2. w = Done(new)
    BY <1>1, <1>2, <2>1 DEF Put
  <2>3. w.tab = new /\ ~w.beyond
    BY <2>2 DEF Done
  <2>4. \A i \in D : i # task - 1 => new[i] = old[i]
    BY <1>2
  <2> HIDE DEF new, w, own, Listed
  <2>5. BodiesKept(old, w.tab, own)
    BY <1>2, <2>1, <2>3, <2>4 DEF BodiesKept
  <2> QED
    BY <2>1, <2>3, <2>5
<1>6. CASE row.id \in 1 .. 10
  <2>1. w = change /\ ~adds /\ own = Named(old, task)
    <3>1. w = change
      <4> HIDE DEF w, add, delete, change
      <4> QED
        BY <1>0, <1>2, <1>6
    <3> QED
      BY <3>1, <1>2, <1>6 DEF task
  <2> DEFINE at == Place(old, task)
  <2>2. IF Named(old, task) # {} THEN at \in DOMAIN old /\ old[at].id = task ELSE at = 10
    BY <1>1, <1>2, PlaceIs
  <2> HIDE DEF at
  <2>3. w = Put(old, at, row)
    BY <2>1 DEF at
  <2>4. CASE Named(old, task) # {}
    <3> DEFINE new == [old EXCEPT ![at] = row]
    <3>1. w = Done(new)
      BY <2>2, <2>3, <2>4 DEF Put
    <3>2. w.tab = new /\ ~w.beyond
      BY <3>1 DEF Done
    <3>3. at \in own /\ \A i \in D : i # at => new[i] = old[i]
      BY <1>2, <2>1, <2>2, <2>4 DEF Named
    <3> HIDE DEF new, w, own, Listed
    <3>4. BodiesKept(old, w.tab, own)
      BY <1>2, <3>2, <3>3 DEF BodiesKept
    <3> QED
      BY <2>1, <3>2, <3>4
  <2>5. CASE Named(old, task) = {}
    <3>1. w.tab = old
      BY <1>2, <2>2, <2>3, <2>5 DEF Put, Done
    <3>2. Read(old, task).rtn = -1
      BY <2>5 DEF Read
    <3>3. Read(old, TimerTaskOf(item)).rtn = -1
      BY <3>2 DEF task
    <3> HIDE DEF w, own, Listed
    <3>4. BodiesKept(old, w.tab, own)
      BY <3>1 DEF BodiesKept
    <3> QED
      BY <1>2, <1>6, <2>1, <3>3, <3>4
  <2> QED
    BY <2>4, <2>5
<1>7. adds \/ row.id = 0 \/ row.id \in 1 .. 10
  BY <1>2
<1> QED
  BY <1>4, <1>5, <1>6, <1>7
=============================================================================
