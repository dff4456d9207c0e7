------------------------------- MODULE Scenes -------------------------------
(***************************************************************************)
(* The tables of scenes and timer tasks and the items that read and write  *)
(* them (save/para_term.c, itemop.c, include/param/sceneuse.h).            *)
(*                                                                         *)
(* A row is a number, its first byte, and the rest, the body.  The tables  *)
(* are all 0 when the program starts: ParamInit does not load their files. *)
(* An operation has the table as an argument and a result.                 *)
(***************************************************************************)
EXTENDS Integers, FiniteSetsExt

MAX_SCENECLASS == 16
MAX_TIMERTASK == 10

Row(id, body) == [id |-> id, body |-> body]
NoRow == Row(0, 0)
NoScenes == [i \in 0 .. MAX_SCENECLASS - 1 |-> NoRow]
NoTimerTasks == [i \in 0 .. MAX_TIMERTASK - 1 |-> NoRow]

\* The items, by their numbers; 0x883c is in the table twice and 0x883f is not.
g_item_sceneinfo == \h8830 .. \h883e
g_item_timertaskinfo == \h8841 .. \h884a
SceneOf(item) == (item % 16) + 1
TimerTaskOf(item) == item % 16

(***************************************************************************)
(* A write gives the return code, the table, and whether it went beyond    *)
(* the end of the table.                                                   *)
(***************************************************************************)
Done(tab) == [rtn |-> 0, tab |-> tab, beyond |-> FALSE]
Full(tab) == [rtn |-> -1, tab |-> tab, beyond |-> FALSE]
Put(tab, i, row) ==
    IF i \in DOMAIN tab THEN Done([tab EXCEPT ![i] = row]) ELSE [Done(tab) EXCEPT !.beyond = TRUE]

Named(tab, id) == {i \in DOMAIN tab : tab[i].id = id}
Place(tab, id) == IF Named(tab, id) = {} THEN Cardinality(DOMAIN tab) ELSE Min(Named(tab, id))
Read(tab, id) == IF Named(tab, id) = {} THEN [rtn |-> -1, row |-> NoRow]
                 ELSE [rtn |-> 0, row |-> tab[Place(tab, id)]]

paraterm_sceneRead(tab, item) == Read(tab, SceneOf(item))

\* A first byte above MAX_SCENECLASS adds the scene in the first free row, and the
\* number of row id - 1 becomes the index of that row; 0 deletes row id - 1; any
\* other overwrites row id.
paraterm_sceneWrite(tab, item, row) ==
    LET id == SceneOf(item)
        i == Place(tab, 0)
    IN  CASE row.id > MAX_SCENECLASS ->
                 IF i \notin DOMAIN tab THEN Full(tab)
                 ELSE Done([tab EXCEPT ![i] = row, ![id - 1].id = i])
          [] row.id = 0 -> Put(tab, id - 1, NoRow)
          [] OTHER -> Put(tab, id, row)

\* paraterm_scenelist: the rows in use whose bit in flag is set; without one the
\* reading fails.
paraterm_scenelist(tab, flag) == {i \in DOMAIN tab : tab[i].id # 0 /\ i \in flag}

paraterm_timertaskRead(tab, item) == Read(tab, TimerTaskOf(item))

\* The numbers of the tasks that have been added are their indices.  Deleting goes
\* by the index, overwriting by the number; a number that no row has stands for the
\* row behind the last.
paraterm_timertaskWrite(tab, item, row) ==
    LET id == TimerTaskOf(item)
        i == Place(tab, 0)
    IN  CASE row.id > MAX_TIMERTASK ->
                 IF i \notin DOMAIN tab THEN Full(tab) ELSE Put(tab, i, Row(i, row.body))
          [] row.id = 0 -> Put(tab, id - 1, NoRow)
          [] OTHER -> Put(tab, Place(tab, id), row)

\* paraterm_timertasklist: every row, free ones too.
paraterm_timertasklist(tab) == tab

(***************************************************************************)
(* Properties of one write, of whatever row and to whatever table.         *)
(***************************************************************************)
BodiesKept(old, new, but) == \A i \in DOMAIN old : i \notin but /\ old[i].id # 0 => new[i].body = old[i].body

\* A scene that is added, deleted or overwritten (paraterm_sceneWrite) leaves the
\* bodies of the others as they are, whatever their numbers have become.  It is never
\* written beyond the table, one that is overwritten is read under its new number
\* unless an earlier row has it, and deleting lists nothing new.
SceneWriteApart(old, item, row) ==
    LET w == paraterm_sceneWrite(old, item, row)
        adds == row.id > MAX_SCENECLASS
        own == IF adds THEN {} ELSE {IF row.id = 0 THEN SceneOf(item) - 1 ELSE SceneOf(item)}
    IN  /\ BodiesKept(old, w.tab, own) /\ ~w.beyond
        /\ row.id \in 1 .. MAX_SCENECLASS =>
               LET r == Read(w.tab, row.id)
               IN  r.rtn = 0 /\ (r.row.body = row.body \/ Place(w.tab, row.id) < SceneOf(item))
        /\ \A i \in paraterm_scenelist(w.tab, DOMAIN old) : i \in own \/ adds \/ old[i].id # 0

\* The same of a timer task (paraterm_timertaskWrite), which is written beyond its
\* table only when its number is unknown; one that is added is listed, and read under
\* the number it was given unless that is 0 or an earlier row has it.
TimerTaskWriteApart(old, item, row) ==
    LET w == paraterm_timertaskWrite(old, item, row)
        adds == row.id > MAX_TIMERTASK
        own == IF adds THEN {} ELSE IF row.id = 0 THEN {TimerTaskOf(item) - 1} ELSE Named(old, TimerTaskOf(item))
    IN  /\ BodiesKept(old, w.tab, own)
        /\ w.beyond => row.id \in 1 .. MAX_TIMERTASK /\ paraterm_timertaskRead(old, item).rtn = -1
        /\ adds /\ w.rtn = 0 =>
               \E i \in DOMAIN old :
                   /\ paraterm_timertasklist(w.tab)[i] = Row(i, row.body)
                   /\ i = 0 \/ Place(w.tab, i) # i \/ Read(w.tab, i).row.body = row.body
=============================================================================
