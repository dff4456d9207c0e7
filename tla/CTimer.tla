------------------------------- MODULE CTimer -------------------------------
(***************************************************************************)
(* The relative-timer pool of sys/syscall/timer.c.                         *)
(*                                                                         *)
(* MAX_CTIMER control blocks (CTimerBuffer) are either EMPTY or VALID.     *)
(* The VALID ones are linked, in the order they were added, into a         *)
(* circular doubly linked list whose head is CTimerList.  SysAddCTimer,    *)
(* SysStopCTimer and SysClearCTimer are called by any thread and run under *)
(* CTimerMutex; CTimerProc, called by the timer thread once per second,    *)
(* holds CTimerMutex during the whole walk of the list, callbacks          *)
(* included.                                                               *)
(*                                                                         *)
(* The walk is modelled pointer by pointer: CTimerProcBegin takes the      *)
(* mutex, CTimerProcStep counts one timer and enters its callback when it  *)
(* is due, CTimerProcReturn is the return of the callback, CTimerProcEnd   *)
(* releases the mutex.                                                     *)
(***************************************************************************)
EXTENDS Integers

CONSTANTS
    MaxCTimer,  \* MAX_CTIMER, the number of control blocks
    IdMod,      \* 0x10000, the range of the counter part of an id
    Devs,       \* the intervals (seconds) callers ask for
    MaxAdds     \* bound: successful SysAddCTimer calls of a behaviour

ASSUME CTimerAssumption ==
    /\ MaxCTimer \in Nat \ {0}
    /\ IdMod \in Nat \ {0}
    /\ Devs \subseteq Nat \ {0}
    /\ MaxAdds \in Nat

VARIABLES
    flag,           \* TMAN_EMPTY / TMAN_VALID of each block
    id,             \* handle stored in each block
    dev,            \* interval of each block
    cnt,            \* ticks counted since the block was added, cleared or fired
    next,           \* forward links, of the blocks and of CTimerList
    prev,           \* backward links
    CTimerIdAddup,  \* counter that goes into the ids
    pc,             \* where the timer thread is in CTimerProc
    p,              \* CTimerProc's local p
    p1,             \* CTimerProc's local p1
    \* Observation of the behaviour, read by no action's guard:
    stamp,          \* the CTimerIdAddup each block was last added with
    handles,        \* every handle ever returned, with its stamp
    due,            \* stamps that were VALID when the running walk began
    seen            \* stamps the running walk has counted

ctimerVars == <<flag, id, dev, cnt, next, prev, CTimerIdAddup>>
walkVars   == <<pc, p, p1>>
obsVars    == <<stamp, handles, due, seen>>
vars       == <<ctimerVars, walkVars, obsVars>>

Slot == 0 .. MaxCTimer - 1
List == MaxCTimer            \* the node CTimerList
Node == 0 .. MaxCTimer
NULL == -1

EMPTY == 0
VALID == 1

Valid == {i \in Slot : flag[i] = VALID}
Stamps(S) == {stamp[i] : i \in S}

\* The control blocks, the links and the walk pointers stay within the pool.
TypeOK ==
    /\ flag \in [Slot -> {EMPTY, VALID}]
    /\ id \in [Slot -> Nat]
    /\ dev \in [Slot -> Nat]
    /\ cnt \in [Slot -> Nat]
    /\ next \in [Node -> Node \cup {NULL}]
    /\ prev \in [Node -> Node \cup {NULL}]
    /\ CTimerIdAddup \in Nat
    /\ pc \in {"idle", "walk", "call"}
    /\ p \in Node
    /\ p1 \in Node
    /\ stamp \in [Slot -> Nat]
    /\ handles \subseteq (Nat \X Nat)
    /\ due \subseteq Nat
    /\ seen \subseteq Nat

(***************************************************************************)
(* SysTimerInit: every block EMPTY, the list empty.  The blocks are static *)
(* storage, so their other fields start as zero.                           *)
(***************************************************************************)
Init ==
    /\ flag = [i \in Slot |-> EMPTY]
    /\ id = [i \in Slot |-> 0]
    /\ dev = [i \in Slot |-> 0]
    /\ cnt = [i \in Slot |-> 0]
    /\ next = [n \in Node |-> IF n = List THEN List ELSE NULL]
    /\ prev = [n \in Node |-> IF n = List THEN List ELSE NULL]
    /\ CTimerIdAddup = 0
    /\ pc = "idle" /\ p = List /\ p1 = List
    /\ stamp = [i \in Slot |-> 0]
    /\ handles = {} /\ due = {} /\ seen = {}

(***************************************************************************)
(* Links.                                                                  *)
(***************************************************************************)
\* The block SysAddCTimer takes: the EMPTY one with the least index.
IsFirstEmpty(i) ==
    /\ flag[i] = EMPTY
    /\ \A j \in Slot : j < i => flag[j] # EMPTY

TimerId(i) == (CTimerIdAddup % IdMod) + i * IdMod

LinkLast(i) ==
    /\ next' = [next EXCEPT ![i] = List, ![prev[List]] = i]
    /\ prev' = [prev EXCEPT ![i] = prev[List], ![List] = i]

\* Mutant: the backward link of the successor is not repaired.
UnlinkForwardOnly(i) ==
    /\ flag' = [flag EXCEPT ![i] = EMPTY]
    /\ next' = [next EXCEPT ![prev[i]] = next[i]]
    /\ UNCHANGED prev

Unlink(i) ==
    /\ flag' = [flag EXCEPT ![i] = EMPTY]
    /\ next' = [next EXCEPT ![prev[i]] = next[i]]
    /\ prev' = [prev EXCEPT ![next[i]] = prev[i]]

\* Mutants: a count is not reset; a tick is not counted.
ResetCountNot(i) == UNCHANGED cnt
CountNot(i) == UNCHANGED cnt

ResetCount(i) == cnt' = [cnt EXCEPT ![i] = 0]
Count(i) == cnt' = [cnt EXCEPT ![i] = @ + 1]

(***************************************************************************)
(* The operations of other threads.  Each needs CTimerMutex, which the     *)
(* timer thread holds whenever pc # "idle".                                *)
(***************************************************************************)
\* SysAddCTimer when a block is free.  (When none is, it returns -1 and
\* changes nothing.)
SysAddCTimer(d) ==
    /\ pc = "idle"
    /\ CTimerIdAddup < MaxAdds
    /\ \E i \in Slot :
        /\ IsFirstEmpty(i)
        /\ flag' = [flag EXCEPT ![i] = VALID]
        /\ ResetCount(i)
        /\ dev' = [dev EXCEPT ![i] = d]
        /\ id' = [id EXCEPT ![i] = TimerId(i)]
        /\ LinkLast(i)
        /\ stamp' = [stamp EXCEPT ![i] = CTimerIdAddup]
        /\ handles' = handles \cup {<<TimerId(i), CTimerIdAddup>>}
    /\ CTimerIdAddup' = CTimerIdAddup + 1
    /\ UNCHANGED <<walkVars, due, seen>>

\* Mutant: the id of the block is not compared with the handle.
DesignatesByIndex(h, i) == i = h \div IdMod /\ flag[i] # EMPTY

\* The block a handle designates: the index part must be in range, and the
\* block must be VALID and still carry this very id.
Designates(h, i) == i = h \div IdMod /\ id[i] = h /\ flag[i] # EMPTY

SysStopCTimer(h) ==
    /\ pc = "idle"
    /\ \E i \in Slot : Designates(h, i) /\ Unlink(i)
    /\ UNCHANGED <<id, dev, cnt, CTimerIdAddup, walkVars, obsVars>>

SysClearCTimer(h) ==
    /\ pc = "idle"
    /\ \E i \in Slot : Designates(h, i) /\ ResetCount(i)
    /\ UNCHANGED <<flag, id, dev, next, prev, CTimerIdAddup, walkVars, obsVars>>

(***************************************************************************)
(* CTimerProc.                                                             *)
(***************************************************************************)
CTimerProcBegin ==
    /\ pc = "idle"
    /\ pc' = "walk"
    /\ p' = next[List]
    /\ due' = Stamps(Valid)
    /\ seen' = {}
    /\ UNCHANGED <<ctimerVars, p1, stamp, handles>>

\* Mutant: an interval takes one tick too many.
DueLate(i) == cnt[i] + 1 > dev[i]

Due(i) == cnt[i] + 1 >= dev[i]

\* Mutant: p1 keeps its old value.
KeepNextNot == UNCHANGED p1

\* p1 = p->next, read before the callback may take p off the list.
KeepNext == p1' = next[p]

CTimerProcStep ==
    /\ pc = "walk" /\ p # List
    /\ KeepNext
    /\ seen' = seen \cup {stamp[p]}
    /\ IF Due(p)
       THEN /\ ResetCount(p)
            /\ pc' = "call"
            /\ UNCHANGED p
       ELSE /\ Count(p)
            /\ p' = next[p]
            /\ UNCHANGED pc
    /\ UNCHANGED <<flag, id, dev, next, prev, CTimerIdAddup, stamp, handles, due>>

\* StopCTimerP: the timer thread's own stop, by pointer.
StopCTimerP(i) ==
    IF flag[i] # EMPTY THEN Unlink(i) ELSE UNCHANGED <<flag, next, prev>>

\* The callback returns rc; a non-zero rc stops the timer.
CTimerProcReturn(rc) ==
    /\ pc = "call"
    /\ IF rc # 0 THEN StopCTimerP(p) ELSE UNCHANGED <<flag, next, prev>>
    /\ p' = p1
    /\ pc' = "walk"
    /\ UNCHANGED <<id, dev, cnt, CTimerIdAddup, p1, obsVars>>

CTimerProcEnd ==
    /\ pc = "walk" /\ p = List
    /\ pc' = "idle"
    /\ UNCHANGED <<ctimerVars, p, p1, obsVars>>

Next ==
    \/ \E d \in Devs : SysAddCTimer(d)
    \/ \E h \in handles : SysStopCTimer(h[1]) \/ SysClearCTimer(h[1])
    \/ CTimerProcBegin
    \/ CTimerProcStep
    \/ \E rc \in {0, 1} : CTimerProcReturn(rc)
    \/ CTimerProcEnd

Spec == Init /\ [][Next]_vars

(***************************************************************************)
(* Properties.                                                             *)
(***************************************************************************)
\* b is the next VALID timer after a in the order of adding.
Follows(a, b) ==
    /\ stamp[a] < stamp[b]
    /\ \A k \in Valid : ~(stamp[a] < stamp[k] /\ stamp[k] < stamp[b])

\* The links always spell out exactly the VALID blocks in the order they
\* were added: nothing leaks out of the list, nothing stopped stays in it,
\* and both directions agree (SysAddCTimer, SysStopCTimer, StopCTimerP).
ListInOrder ==
    /\ \A i \in Valid \cup {List} :
        /\ next[i] \in Valid \cup {List} /\ prev[next[i]] = i
        /\ prev[i] \in Valid \cup {List} /\ next[prev[i]] = i
    /\ \A i \in Valid :
        /\ next[i] # List => Follows(i, next[i])
        /\ next[i] = List => \A k \in Valid : stamp[k] <= stamp[i]
    /\ next[List] = List <=> Valid = {}
    /\ next[List] # List => \A k \in Valid : stamp[next[List]] <= stamp[k]

\* One call of CTimerProc counts every timer that was VALID when it began,
\* none twice and no other, although callbacks stop timers while the list is
\* walked (p1 is read before the callback runs).
PassComplete ==
    /\ pc = "walk" /\ p = List => seen = due
    /\ pc = "walk" /\ p # List => stamp[p] \in due \ seen

\* A handle kept after its timer was stopped or fired never designates a
\* timer somebody else added later, as long as fewer than IdMod timers were
\* added in between (0x10000 in the code): SysStopCTimer and SysClearCTimer
\* by a stale handle are harmless.
StaleHandleHarmless ==
    \A h \in handles : \A i \in Slot :
        Designates(h[1], i) => stamp[i] = h[2] \/ stamp[i] - h[2] >= IdMod

\* A timer is never overdue: between two walks every VALID timer has counted
\* fewer ticks than its interval, so it fires exactly at the dev-th tick after
\* it was added, cleared or last fired.
NeverOverdue == \A i \in Valid : cnt[i] < dev[i]

(***************************************************************************)
(* The pool as a set of timers.                                            *)
(***************************************************************************)
\* The VALID block that was added with stamp k.
BlockOf(k) == CHOOSE i \in Valid : stamp[i] = k

Live == [k \in Stamps(Valid) |-> [dev |-> dev[BlockOf(k)], cnt |-> cnt[BlockOf(k)]]]
Todo == IF pc = "idle" THEN {} ELSE due \ seen
Firing == IF pc = "call" THEN {stamp[p]} ELSE {}

Abs == INSTANCE TimerSet WITH
    Capacity <- MaxCTimer, Intervals <- Devs, added <- CTimerIdAddup, live <- Live,
    ticking <- (pc # "idle"), todo <- Todo, firing <- Firing

\* The block pool with its links and handles behaves as the plain set of
\* timers of TimerSet: every timer is counted once per tick, oldest first,
\* and fires exactly when its interval is over.
ImplementsTimerSet == Abs!Spec
=============================================================================
