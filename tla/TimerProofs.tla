---------------------------- MODULE TimerProofs -----------------------------
(***************************************************************************)
(* Proofs about the timers: the pool of CTimer and the shell session that  *)
(* lives on it, for every pool size, id range and set of intervals, and    *)
(* for every instant the calendar, the end of a code's time that rests on  *)
(* it, the cached time and the clock timers of ClockTimers.                *)
(***************************************************************************)
EXTENDS ShellSession, ClockTimers, DayWalk, FiniteSetTheorems, WellFoundedInduction, TLAPS

(***************************************************************************)
(* The pool.                                                               *)
(***************************************************************************)
\* Every block and every local of CTimerProc keeps its type: in particular
\* the pointers the walk follows are never NULL (CTimerProc dereferences p
\* and p1 without a test).  Links of VALID blocks are not NULL because the
\* list is well formed, so the proof carries ListInOrder along.
StampsOK ==
    /\ \A i \in Valid : stamp[i] < CTimerIdAddup
    /\ \A i, j \in Valid : stamp[i] = stamp[j] => i = j

\* The timers the walk has not counted yet are those from p on; in a
\* callback, those after p.
WalkOK ==
    /\ pc = "walk" =>
        /\ p \in Valid \cup {List}
        /\ seen \subseteq due
        /\ \A i \in Valid : stamp[i] \in due
        /\ \A i \in Valid : stamp[i] \notin seen <=> (p # List /\ stamp[p] <= stamp[i])
        /\ \A s \in due \ seen : \E i \in Valid : stamp[i] = s
    /\ pc = "call" =>
        /\ p \in Valid
        /\ p1 = next[p]
        /\ seen \subseteq due
        /\ \A i \in Valid : stamp[i] \in due
        /\ \A i \in Valid : stamp[i] \notin seen <=> stamp[p] < stamp[i]
        /\ \A s \in due \ seen : \E i \in Valid : stamp[i] = s

IInv == TypeOK /\ ListInOrder /\ StampsOK /\ NeverOverdue /\ WalkOK

LEMMA InitIInv == Init => IInv
<1> SUFFICES ASSUME Init PROVE IInv
  OBVIOUS
<1>1. Valid = {}
  BY DEF Init, Valid, EMPTY, VALID
<1>2. List \in Node /\ next[List] = List /\ prev[List] = List
  BY CTimerAssumption DEF Init, Node, List
<1>3. TypeOK
  BY <1>2, CTimerAssumption DEF Init, TypeOK, EMPTY, NULL
<1>4. QED
  BY <1>1, <1>2, <1>3 DEF Init, IInv, ListInOrder, StampsOK, NeverOverdue, WalkOK

LEMMA AddPreserves ==
    ASSUME IInv, NEW d \in Devs, SysAddCTimer(d) PROVE IInv'
<1>1. PICK i \in Slot :
        /\ IsFirstEmpty(i)
        /\ flag' = [flag EXCEPT ![i] = VALID]
        /\ cnt' = [cnt EXCEPT ![i] = 0]
        /\ dev' = [dev EXCEPT ![i] = d]
        /\ id' = [id EXCEPT ![i] = TimerId(i)]
        /\ LinkLast(i)
        /\ stamp' = [stamp EXCEPT ![i] = CTimerIdAddup]
        /\ handles' = handles \cup {<<TimerId(i), CTimerIdAddup>>}
  BY DEF SysAddCTimer, ResetCount
<1>2. /\ pc = "idle" /\ pc' = pc /\ p' = p /\ p1' = p1
      /\ due' = due /\ seen' = seen
      /\ CTimerIdAddup' = CTimerIdAddup + 1
  BY DEF SysAddCTimer, ResetCount, walkVars
<1>3. /\ flag[i] = EMPTY /\ i \notin Valid /\ i # List /\ i \in Node
      /\ Valid' = Valid \cup {i}
  <2>1. i \in Slot /\ flag[i] = EMPTY /\ flag \in [Slot -> {EMPTY, VALID}] /\ flag' = [flag EXCEPT ![i] = VALID]
    BY <1>1 DEF IInv, TypeOK, IsFirstEmpty
  <2>2. i # List /\ i \in Node
    BY <2>1, CTimerAssumption DEF Slot, List, Node
  <2>3. i \notin Valid /\ Valid' = Valid \cup {i}
    BY <2>1 DEF Valid, EMPTY, VALID
  <2> QED
    BY <2>1, <2>2, <2>3
<1>4. /\ prev[List] \in Valid \cup {List} /\ prev[List] \in Node
      /\ List \in Node /\ Valid \subseteq Node /\ List \notin Valid
  BY CTimerAssumption DEF IInv, ListInOrder, Valid, Slot, Node, List
<1>5. /\ next' = [next EXCEPT ![i] = List, ![prev[List]] = i]
      /\ prev' = [prev EXCEPT ![i] = prev[List], ![List] = i]
  BY <1>1 DEF LinkLast
<1>6. TimerId(i) \in Nat
  <2>1. i * IdMod \in Nat
    BY CTimerAssumption DEF Slot
  <2>2. CTimerIdAddup % IdMod \in Nat
    BY CTimerAssumption DEF IInv, TypeOK
  <2>3. QED
    BY <2>1, <2>2 DEF TimerId
<1>7. TypeOK'
  BY <1>1, <1>2, <1>3, <1>4, <1>5, <1>6, CTimerAssumption DEF IInv, TypeOK, VALID
<1>8. \A k \in Valid : stamp'[k] = stamp[k] /\ cnt'[k] = cnt[k] /\ dev'[k] = dev[k]
  BY <1>1, <1>3 DEF IInv, TypeOK, Valid
<1>9. stamp'[i] = CTimerIdAddup /\ cnt'[i] = 0 /\ dev'[i] = d
  BY <1>1 DEF IInv, TypeOK
<1>10. StampsOK'
  BY <1>2, <1>3, <1>8, <1>9 DEF IInv, StampsOK, TypeOK, Valid
<1>11. NeverOverdue'
  BY <1>3, <1>8, <1>9, CTimerAssumption DEF IInv, NeverOverdue
<1>12. ListInOrder'
  <2>1. /\ next'[i] = List /\ next'[prev[List]] = i
        /\ \A k \in (Valid \cup {List}) \ {prev[List]} : next'[k] = next[k]
    BY <1>3, <1>4, <1>5 DEF IInv, TypeOK
  <2>2. /\ prev'[i] = prev[List] /\ prev'[List] = i
        /\ \A k \in Valid : prev'[k] = prev[k]
    BY <1>3, <1>4, <1>5 DEF IInv, TypeOK
  <2>3. /\ stamp'[i] \in Nat
        /\ \A k \in Valid : stamp[k] < stamp'[i] /\ stamp[k] \in Nat
    BY <1>9 DEF IInv, StampsOK, TypeOK, Valid
  <2>4. \A k \in Valid' \cup {List} :
            /\ next'[k] \in Valid' \cup {List} /\ prev'[next'[k]] = k
            /\ prev'[k] \in Valid' \cup {List} /\ next'[prev'[k]] = k
    BY <1>3, <1>4, <2>1, <2>2 DEF IInv, ListInOrder
  <2>5. prev[List] # List => \A k \in Valid : stamp[k] <= stamp[prev[List]]
    BY <1>4 DEF IInv, ListInOrder
  <2>6. ASSUME NEW k \in Valid', next'[k] # List PROVE Follows(k, next[k])'
    <3>1. CASE k = prev[List]
      BY <1>3, <1>4, <1>8, <2>1, <2>3, <2>5, <2>6, <3>1 DEF Follows
    <3>2. CASE k # prev[List]
      <4>1. k \in Valid /\ next'[k] = next[k] /\ next[k] \in Valid /\ Follows(k, next[k])
        BY <1>3, <2>1, <2>6, <3>2 DEF IInv, ListInOrder
      <4>2. QED
        BY <1>3, <1>8, <2>3, <4>1 DEF Follows
    <3>3. QED
      BY <3>1, <3>2
  <2>7. ASSUME NEW k \in Valid', next'[k] = List PROVE \A j \in Valid' : stamp'[j] <= stamp'[k]
    <3>1. k = i
      BY <1>3, <1>4, <2>1, <2>2, <2>4, <2>7
    <3>2. QED
      BY <1>3, <1>8, <1>9, <2>3, <3>1 DEF IInv, TypeOK
  <2>8. next'[List] # List /\ Valid' # {}
    BY <1>3, <1>4, <2>1, <2>4, <2>2
  <2>9. \A k \in Valid' : stamp'[next'[List]] <= stamp'[k]
    <3>1. CASE prev[List] = List
      <4>1. Valid = {}
        BY <3>1 DEF IInv, ListInOrder
      <4>2. QED
        BY <1>3, <1>9, <2>1, <3>1, <4>1 DEF IInv, TypeOK
    <3>2. CASE prev[List] # List
      <4>1. next'[List] = next[List] /\ next[List] \in Valid
        BY <1>4, <2>1, <3>2 DEF IInv, ListInOrder
      <4>2. QED
        BY <1>3, <1>8, <2>3, <4>1 DEF IInv, ListInOrder
    <3>3. QED
      BY <3>1, <3>2
  <2>10. QED
    BY <2>4, <2>6, <2>7, <2>8, <2>9 DEF ListInOrder
<1>13. WalkOK'
  BY <1>2 DEF WalkOK
<1>14. QED
  BY <1>7, <1>10, <1>11, <1>12, <1>13 DEF IInv
\* Unlinking a VALID block (SysStopCTimer, StopCTimerP) takes exactly that
\* block out of the list and keeps the rest in order.
LEMMA UnlinkPreserves ==
    ASSUME TypeOK, ListInOrder, StampsOK, NEW i \in Valid, Unlink(i),
           UNCHANGED <<stamp, CTimerIdAddup>>
    PROVE  /\ Valid' = Valid \ {i}
           /\ flag' \in [Slot -> {EMPTY, VALID}]
           /\ next' \in [Node -> Node \cup {NULL}]
           /\ prev' \in [Node -> Node \cup {NULL}]
           /\ StampsOK' /\ ListInOrder'
<1>1. /\ flag' = [flag EXCEPT ![i] = EMPTY]
      /\ next' = [next EXCEPT ![prev[i]] = next[i]]
      /\ prev' = [prev EXCEPT ![next[i]] = prev[i]]
  BY DEF Unlink
<1>2. /\ i \in Slot /\ i \in Node /\ List \in Node /\ Valid \subseteq Node
      /\ List \notin Valid /\ Valid \subseteq Slot
  BY CTimerAssumption DEF Valid, Slot, Node, List
<1>3. Valid' = Valid \ {i}
  BY <1>1, <1>2 DEF TypeOK, Valid, EMPTY, VALID
<1>4. /\ next[i] \in Valid \cup {List} /\ prev[i] \in Valid \cup {List}
      /\ prev[next[i]] = i /\ next[prev[i]] = i
  BY DEF ListInOrder
<1>5. /\ flag' \in [Slot -> {EMPTY, VALID}]
      /\ next' \in [Node -> Node \cup {NULL}]
      /\ prev' \in [Node -> Node \cup {NULL}]
  BY <1>1, <1>2, <1>4 DEF TypeOK
<1>6. StampsOK'
  BY <1>3 DEF StampsOK
<1>7. \A k \in Valid : stamp[k] \in Nat
  BY <1>2 DEF TypeOK
<1>8. next[i] # i /\ prev[i] # i
  BY <1>2, <1>4, <1>7 DEF ListInOrder, Follows
<1>9. /\ next'[prev[i]] = next[i]
      /\ \A k \in (Valid \cup {List}) \ {prev[i]} : next'[k] = next[k]
  BY <1>1, <1>2, <1>4 DEF TypeOK
<1>10. /\ prev'[next[i]] = prev[i]
       /\ \A k \in (Valid \cup {List}) \ {next[i]} : prev'[k] = prev[k]
  BY <1>1, <1>2, <1>4 DEF TypeOK
<1>11. \A k \in Valid' \cup {List} :
            /\ next'[k] \in Valid' \cup {List} /\ prev'[next'[k]] = k
            /\ prev'[k] \in Valid' \cup {List} /\ next'[prev'[k]] = k
  BY <1>2, <1>3, <1>4, <1>8, <1>9, <1>10 DEF ListInOrder
<1>12. \A k \in Valid' : next'[k] # List => Follows(k, next[k])'
  <2>1. SUFFICES ASSUME NEW k \in Valid', next'[k] # List
                 PROVE  /\ stamp[k] < stamp[next'[k]]
                        /\ \A j \in Valid' : ~(stamp[k] < stamp[j] /\ stamp[j] < stamp[next'[k]])
    BY DEF Follows
  <2>2. CASE k = prev[i]
    <3>1. next'[k] = next[i] /\ next[k] = i /\ next[i] \in Valid
      BY <1>4, <1>9, <2>1, <2>2
    <3>2. Follows(k, i) /\ Follows(i, next[i])
      BY <1>2, <1>3, <3>1 DEF ListInOrder
    <3>3. \A j \in Valid : j # i => stamp[j] # stamp[i]
      BY DEF StampsOK
    <3>4. QED
      BY <1>3, <1>7, <3>1, <3>2, <3>3 DEF Follows
  <2>3. CASE k # prev[i]
    <3>1. next'[k] = next[k] /\ k \in Valid
      BY <1>3, <1>9, <2>3
    <3>2. QED
      BY <1>3, <2>1, <3>1 DEF ListInOrder, Follows
  <2>4. QED
    BY <2>2, <2>3
<1>13. ASSUME NEW k \in Valid', next'[k] = List
       PROVE  \A j \in Valid' : stamp'[j] <= stamp'[k]
  <2>1. CASE k = prev[i]
    <3>1. next[k] = i /\ next[i] = List /\ k \in Valid
      BY <1>3, <1>4, <1>9, <1>13, <2>1
    <3>2. Follows(k, i) /\ \A j \in Valid : stamp[j] <= stamp[i]
      BY <1>2, <3>1 DEF ListInOrder
    <3>3. \A j \in Valid : j # i => stamp[j] # stamp[i]
      BY DEF StampsOK
    <3>4. QED
      BY <1>3, <1>7, <3>1, <3>2, <3>3 DEF Follows
  <2>2. CASE k # prev[i]
    BY <1>3, <1>9, <1>13, <2>2 DEF ListInOrder
  <2>3. QED
    BY <2>1, <2>2
<1>14. next'[List] = List <=> Valid' = {}
  <2>1. ASSUME Valid' = {} PROVE next'[List] = List
    BY <1>11, <2>1
  <2>2. ASSUME next'[List] = List PROVE Valid' = {}
    <3>1. CASE prev[i] = List
      <4>1. next[i] = List /\ next[List] = i
        BY <1>4, <1>9, <2>2, <3>1
      <4>2. \A j \in Valid : stamp[j] <= stamp[i] /\ stamp[i] <= stamp[j]
        BY <1>2, <4>1 DEF ListInOrder
      <4>3. QED
        BY <1>3, <1>7, <4>2 DEF StampsOK
    <3>2. CASE prev[i] # List
      BY <1>9, <2>2, <3>2 DEF ListInOrder
    <3>3. QED
      BY <3>1, <3>2
  <2>3. QED
    BY <2>1, <2>2
<1>15. next'[List] # List => \A k \in Valid' : stamp'[next'[List]] <= stamp'[k]
  <2>1. CASE prev[i] = List
    <3>1. next[List] = i /\ next'[List] = next[i]
      BY <1>4, <1>9, <2>1
    <3>2. \A k \in Valid : stamp[i] <= stamp[k]
      BY <1>2, <3>1 DEF ListInOrder
    <3>3. \A j \in Valid : j # i => stamp[j] # stamp[i]
      BY DEF StampsOK
    <3>4. next[i] # List => Follows(i, next[i])
      BY DEF ListInOrder
    <3>5. QED
      BY <1>3, <1>4, <1>7, <3>1, <3>2, <3>3, <3>4 DEF Follows
  <2>2. CASE prev[i] # List
    BY <1>3, <1>9, <2>2 DEF ListInOrder
  <2>3. QED
    BY <2>1, <2>2
<1>16. ListInOrder'
  BY <1>11, <1>12, <1>13, <1>14, <1>15 DEF ListInOrder
<1>17. QED
  BY <1>3, <1>5, <1>6, <1>16

LEMMA StopPreserves ==
    ASSUME IInv, NEW h, SysStopCTimer(h) PROVE IInv'
<1>1. PICK i \in Slot : Designates(h, i) /\ Unlink(i)
  BY DEF SysStopCTimer
<1>2. i \in Valid
  BY <1>1 DEF Designates, IInv, TypeOK, Valid
<1>3. /\ pc = "idle" /\ UNCHANGED <<id, dev, cnt, CTimerIdAddup, pc, p, p1>>
      /\ UNCHANGED <<stamp, handles, due, seen>>
  BY DEF SysStopCTimer, walkVars, obsVars
<1>4. /\ Valid' = Valid \ {i} /\ StampsOK' /\ ListInOrder'
      /\ flag' \in [Slot -> {EMPTY, VALID}]
      /\ next' \in [Node -> Node \cup {NULL}]
      /\ prev' \in [Node -> Node \cup {NULL}]
  BY <1>1, <1>2, <1>3, UnlinkPreserves DEF IInv
<1>5. TypeOK'
  BY <1>3, <1>4 DEF IInv, TypeOK
<1>6. NeverOverdue' /\ WalkOK'
  BY <1>3, <1>4 DEF IInv, NeverOverdue, WalkOK
<1>7. QED
  BY <1>4, <1>5, <1>6 DEF IInv

LEMMA ClearPreserves ==
    ASSUME IInv, NEW h, SysClearCTimer(h) PROVE IInv'
<1>1. PICK i \in Slot : Designates(h, i) /\ cnt' = [cnt EXCEPT ![i] = 0]
  BY DEF SysClearCTimer, ResetCount
<1>2. /\ pc = "idle" /\ UNCHANGED <<flag, id, dev, next, prev, CTimerIdAddup, pc, p, p1>>
      /\ UNCHANGED <<stamp, handles, due, seen>>
  BY DEF SysClearCTimer, ResetCount, walkVars, obsVars
<1>3. Valid' = Valid
  BY <1>2 DEF Valid
<1>4. TypeOK'
  BY <1>1, <1>2 DEF IInv, TypeOK
<1>5. ListInOrder' /\ StampsOK' /\ WalkOK'
  BY <1>2, <1>3 DEF IInv, ListInOrder, StampsOK, WalkOK, Follows
<1>6. NeverOverdue'
  BY <1>1, <1>2, <1>3 DEF IInv, TypeOK, NeverOverdue, Valid
<1>7. QED
  BY <1>4, <1>5, <1>6 DEF IInv

LEMMA BeginPreserves ==
    ASSUME IInv, CTimerProcBegin PROVE IInv'
<1>1. /\ pc' = "walk" /\ p' = next[List] /\ due' = Stamps(Valid) /\ seen' = {}
      /\ UNCHANGED <<flag, id, dev, cnt, next, prev, CTimerIdAddup, p1, stamp, handles>>
  BY DEF CTimerProcBegin, ctimerVars
<1>2. Valid' = Valid
  BY <1>1 DEF Valid
<1>3. /\ next[List] \in Valid \cup {List} /\ Valid \subseteq Slot
      /\ List \in Node /\ Slot \subseteq Node
  BY CTimerAssumption DEF IInv, ListInOrder, Valid, Slot, Node, List
<1>4. due' \subseteq Nat
  BY <1>1, <1>3 DEF IInv, TypeOK, Stamps
<1>5. TypeOK'
  BY <1>1, <1>3, <1>4 DEF IInv, TypeOK
<1>6. ListInOrder' /\ StampsOK' /\ NeverOverdue'
  BY <1>1, <1>2 DEF IInv, ListInOrder, StampsOK, NeverOverdue, Follows
<1>7. WalkOK'
  <2>1. \A i \in Valid : next[List] # List /\ stamp[next[List]] <= stamp[i]
    BY DEF IInv, ListInOrder
  <2>2. QED
    BY <1>1, <1>2, <1>3, <2>1 DEF WalkOK, Stamps
<1>8. QED
  BY <1>5, <1>6, <1>7 DEF IInv

LEMMA StepPreserves ==
    ASSUME IInv, CTimerProcStep PROVE IInv'
<1>1. /\ pc = "walk" /\ p # List /\ p1' = next[p] /\ seen' = seen \cup {stamp[p]}
      /\ UNCHANGED <<flag, id, dev, next, prev, CTimerIdAddup, stamp, handles, due>>
  BY DEF CTimerProcStep, Due, KeepNext, ResetCount, Count
<1>2. \/ /\ cnt[p] + 1 >= dev[p] /\ cnt' = [cnt EXCEPT ![p] = 0]
         /\ pc' = "call" /\ p' = p
      \/ /\ ~(cnt[p] + 1 >= dev[p]) /\ cnt' = [cnt EXCEPT ![p] = cnt[p] + 1]
         /\ pc' = pc /\ p' = next[p]
  BY DEF CTimerProcStep, Due, KeepNext, ResetCount, Count
<1>3. Valid' = Valid
  BY <1>1 DEF Valid
<1>4. /\ p \in Valid /\ p \in Slot /\ next[p] \in Valid \cup {List}
      /\ Valid \subseteq Slot /\ List \in Node /\ Slot \subseteq Node
  BY <1>1, CTimerAssumption DEF IInv, WalkOK, ListInOrder, Valid, Slot, Node, List
<1>5. stamp[p] \in due /\ \A k \in Valid : stamp[k] \in Nat
  BY <1>1, <1>4 DEF IInv, WalkOK, TypeOK
<1>6. TypeOK'
  <2>1. cnt' \in [Slot -> Nat] /\ p' \in Node /\ p1' \in Node
    BY <1>1, <1>2, <1>4 DEF IInv, TypeOK
  <2>2. seen' \subseteq Nat /\ pc' \in {"idle", "walk", "call"}
    BY <1>1, <1>2, <1>4, <1>5 DEF IInv, TypeOK
  <2>3. QED
    BY <1>1, <2>1, <2>2 DEF IInv, TypeOK
<1>7. ListInOrder' /\ StampsOK'
  BY <1>1, <1>3 DEF IInv, ListInOrder, StampsOK, Follows
<1>8. NeverOverdue'
  <2>1. dev[p] \in Nat /\ cnt[p] \in Nat /\ cnt[p] < dev[p]
    BY <1>4 DEF IInv, TypeOK, NeverOverdue
  <2>2. \A k \in Valid : k # p => cnt'[k] = cnt[k]
    BY <1>2, <1>4 DEF IInv, TypeOK
  <2>3. cnt'[p] < dev[p]
    BY <1>2, <1>4, <2>1 DEF IInv, TypeOK
  <2>4. QED
    BY <1>1, <1>3, <2>2, <2>3 DEF IInv, NeverOverdue
<1>9. WalkOK'
  <2>1. /\ seen' \subseteq due'
        /\ \A k \in Valid' : stamp'[k] \in due'
        /\ \A s \in due' \ seen' : \E k \in Valid' : stamp'[k] = s
    BY <1>1, <1>3, <1>5 DEF IInv, WalkOK
  <2>2. \A k \in Valid : stamp[k] \notin seen' <=> stamp[p] < stamp[k]
    BY <1>1, <1>4, <1>5 DEF IInv, WalkOK, StampsOK
  <2>3. CASE pc' = "call"
    BY <1>1, <1>2, <1>3, <1>4, <2>1, <2>2, <2>3 DEF WalkOK
  <2>4. CASE pc' = pc
    <3>1. \A k \in Valid : stamp[p] < stamp[k] <=> next[p] # List /\ stamp[next[p]] <= stamp[k]
      BY <1>4, <1>5 DEF IInv, ListInOrder, Follows
    <3>2. p' = next[p]
      BY <1>1, <1>2, <2>4
    <3>3. QED
      BY <1>1, <1>3, <1>4, <2>1, <2>2, <2>4, <3>1, <3>2 DEF WalkOK
  <2>5. QED
    BY <1>2, <2>3, <2>4
<1>10. QED
  BY <1>6, <1>7, <1>8, <1>9 DEF IInv

LEMMA ReturnPreserves ==
    ASSUME IInv, NEW rc, CTimerProcReturn(rc) PROVE IInv'
<1>1. /\ pc = "call" /\ pc' = "walk" /\ p' = p1
      /\ UNCHANGED <<id, dev, cnt, CTimerIdAddup, p1, stamp, handles, due, seen>>
  BY DEF CTimerProcReturn, obsVars
<1>2. /\ p \in Valid /\ p1 = next[p] /\ next[p] \in Valid \cup {List}
      /\ Valid \subseteq Slot /\ List \in Node /\ Slot \subseteq Node
      /\ List \notin Valid
  BY <1>1, CTimerAssumption DEF IInv, WalkOK, ListInOrder, Valid, Slot, Node, List
<1>3. \A k \in Valid : stamp[k] \in Nat
  BY <1>2 DEF IInv, TypeOK
<1>4. \A k \in Valid : stamp[p] < stamp[k] <=> next[p] # List /\ stamp[next[p]] <= stamp[k]
  BY <1>2, <1>3 DEF IInv, ListInOrder, Follows
<1>5. stamp[p] \in seen
  BY <1>1, <1>2, <1>3 DEF IInv, WalkOK
<1>6. CASE UNCHANGED <<flag, next, prev>>
  <2>1. Valid' = Valid
    BY <1>6 DEF Valid
  <2>2. TypeOK'
    BY <1>1, <1>2, <1>6 DEF IInv, TypeOK
  <2>3. ListInOrder' /\ StampsOK' /\ NeverOverdue'
    BY <1>1, <1>6, <2>1 DEF IInv, ListInOrder, StampsOK, NeverOverdue, Follows
  <2>4. WalkOK'
    BY <1>1, <1>2, <1>4, <2>1 DEF IInv, WalkOK
  <2>5. QED
    BY <2>2, <2>3, <2>4 DEF IInv
<1>7. CASE Unlink(p)
  <2>1. /\ Valid' = Valid \ {p} /\ StampsOK' /\ ListInOrder'
        /\ flag' \in [Slot -> {EMPTY, VALID}]
        /\ next' \in [Node -> Node \cup {NULL}]
        /\ prev' \in [Node -> Node \cup {NULL}]
    BY <1>1, <1>2, <1>7, UnlinkPreserves DEF IInv
  <2>2. TypeOK'
    BY <1>1, <1>2, <2>1 DEF IInv, TypeOK
  <2>3. NeverOverdue'
    BY <1>1, <2>1 DEF IInv, NeverOverdue
  <2>4. next[p] # p
    BY <1>2, <1>3 DEF IInv, ListInOrder, Follows
  <2>5. WalkOK'
    BY <1>1, <1>2, <1>4, <1>5, <2>1, <2>4 DEF IInv, WalkOK
  <2>6. QED
    BY <2>1, <2>2, <2>3, <2>5 DEF IInv
<1>8. QED
  BY <1>6, <1>7 DEF CTimerProcReturn, StopCTimerP

LEMMA EndPreserves ==
    ASSUME IInv, CTimerProcEnd PROVE IInv'
BY DEF CTimerProcEnd, IInv, TypeOK, ListInOrder, StampsOK, NeverOverdue, WalkOK,
    Valid, Follows, ctimerVars, obsVars

LEMMA StutterPreserves ==
    ASSUME IInv, UNCHANGED vars PROVE IInv'
BY DEF IInv, TypeOK, ListInOrder, StampsOK, NeverOverdue, WalkOK, Valid, Follows,
    vars, ctimerVars, walkVars, obsVars

\* A step of the pool, whatever handle it is given: components that use the
\* pool take these steps.
PoolStep ==
    \/ \E d \in Devs : SysAddCTimer(d)
    \/ \E h \in Int : SysStopCTimer(h) \/ SysClearCTimer(h)
    \/ CTimerProcBegin
    \/ CTimerProcStep
    \/ \E rc \in {0, 1} : CTimerProcReturn(rc)
    \/ CTimerProcEnd

LEMMA PoolStepKeepsIInv == ASSUME IInv, [PoolStep]_vars PROVE IInv'
<1>1. CASE \E d \in Devs : SysAddCTimer(d)
  BY <1>1, AddPreserves
<1>2. CASE \E h \in Int : SysStopCTimer(h) \/ SysClearCTimer(h)
  BY <1>2, StopPreserves, ClearPreserves
<1>3. CASE CTimerProcBegin
  BY <1>3, BeginPreserves
<1>4. CASE CTimerProcStep
  BY <1>4, StepPreserves
<1>5. CASE \E rc \in {0, 1} : CTimerProcReturn(rc)
  BY <1>5, ReturnPreserves
<1>6. CASE CTimerProcEnd
  BY <1>6, EndPreserves
<1>7. CASE UNCHANGED vars
  BY <1>7, StutterPreserves
<1> QED
  BY <1>1, <1>2, <1>3, <1>4, <1>5, <1>6, <1>7 DEF PoolStep

LEMMA NextIsPoolStep == IInv /\ [Next]_vars => [PoolStep]_vars
<1> SUFFICES ASSUME IInv, Next PROVE PoolStep
  OBVIOUS
<1>1. CASE \E h \in handles : SysStopCTimer(h[1]) \/ SysClearCTimer(h[1])
  <2>1. \A h \in handles : h[1] \in Int
    BY DEF IInv, TypeOK
  <2> QED
    BY <1>1, <2>1 DEF PoolStep
<1> QED
  BY <1>1 DEF Next, PoolStep

\* IInv is an inductive invariant of the timer pool.
LEMMA IInvHolds == Spec => []IInv
<1>1. IInv /\ [Next]_vars => IInv'
  BY NextIsPoolStep, PoolStepKeepsIInv
<1>2. QED
  BY InitIInv, <1>1, PTL DEF Spec

\* The type invariant, for every pool size: no local of CTimerProc is ever
\* NULL when it is dereferenced.
THEOREM TypeCorrect == Spec => []TypeOK
<1>1. IInv => TypeOK
  BY DEF IInv
<1>2. QED
  BY IInvHolds, <1>1, PTL

\* The circular list always holds exactly the VALID blocks in the order they
\* were added, whatever SysAddCTimer, SysStopCTimer and callbacks do.
THEOREM ListCorrect == Spec => []ListInOrder
<1>1. IInv => ListInOrder
  BY DEF IInv
<1>2. QED
  BY IInvHolds, <1>1, PTL

\* Every timer fires exactly at the dev-th tick.
THEOREM TimersPunctual == Spec => []NeverOverdue
<1>1. IInv => NeverOverdue
  BY DEF IInv
<1>2. QED
  BY IInvHolds, <1>1, PTL

\* A walk of CTimerProc counts each timer that was VALID when it began
\* exactly once.
THEOREM WalkComplete == Spec => []PassComplete
<1>1. IInv => PassComplete
  <2> SUFFICES ASSUME IInv, pc = "walk"
               PROVE  /\ p = List => seen = due
                      /\ p # List => stamp[p] \in due \ seen
    BY DEF PassComplete
  <2>1. ASSUME p = List PROVE seen = due
    BY <2>1 DEF IInv, WalkOK
  <2>2. ASSUME p # List PROVE stamp[p] \in due \ seen
    <3>1. p \in Valid /\ stamp[p] \in Nat
      BY <2>2 DEF IInv, WalkOK, TypeOK, Valid
    <3>2. QED
      BY <2>2, <3>1 DEF IInv, WalkOK
  <2>3. QED
    BY <2>1, <2>2
<1>2. QED
  BY IInvHolds, <1>1, PTL

(***************************************************************************)
(* Handles.                                                                *)
(***************************************************************************)
\* A number below M times the index: both parts can be read off it.
LEMMA HandleParts ==
    ASSUME NEW M \in Nat \ {0}, NEW a \in 0 .. M - 1, NEW b \in 0 .. M - 1,
           NEW i \in Nat, NEW j \in Nat, a + i * M = b + j * M
    PROVE  i = j /\ a = b
<1>1. \A k, l \in Nat : k < l => k * M + M <= l * M
  <2> SUFFICES ASSUME NEW k \in Nat, NEW l \in Nat, k < l PROVE k * M + M <= l * M
    OBVIOUS
  <2>1. PICK d \in Nat : l = k + 1 + d
    <3>1. l - k - 1 \in Nat /\ l = k + 1 + (l - k - 1)
      OBVIOUS
    <3> QED
      BY <3>1
  <2>2. l * M = k * M + M + d * M
    BY <2>1
  <2>3. d * M \in Nat
    OBVIOUS
  <2>4. k * M \in Nat
    OBVIOUS
  <2> QED
    BY <2>2, <2>3, <2>4
<1>2. i * M \in Nat /\ j * M \in Nat
  OBVIOUS
<1>3. ~(i < j) /\ ~(j < i)
  BY <1>1, <1>2
<1> QED
  BY <1>2, <1>3

\* Numbers with the same remainder are equal or at least M apart.
LEMMA SameRemainder ==
    ASSUME NEW M \in Nat \ {0}, NEW s \in Nat, NEW t \in Nat, s % M = t % M, t <= s
    PROVE  s = t \/ s - t >= M
<1> DEFINE q == s \div M
           r == t \div M
<1>1. /\ q \in Nat /\ r \in Nat /\ s % M \in 0 .. M - 1
      /\ s = M * q + (s % M) /\ t = M * r + (t % M)
  OBVIOUS
<1> HIDE DEF q, r
<1>2. s - t = M * q - M * r
  BY <1>1
<1>3. CASE q = r
  BY <1>2, <1>3, <1>1
<1>4. CASE q # r
  <2>1. M * q \in Nat /\ M * r \in Nat
    BY <1>1
  <2>2. ~(q < r)
    <3>1. ASSUME q < r PROVE FALSE
      <4>1. PICK d \in Nat : r = q + 1 + d
        BY <1>1, <3>1, r - q - 1 \in Nat
      <4>2. M * r = M * q + M + M * d
        BY <1>1, <4>1
      <4>3. M * d \in Nat
        OBVIOUS
      <4> QED
        BY <1>2, <2>1, <4>2, <4>3
    <3> QED
      BY <3>1
  <2>3. PICK d \in Nat : q = r + 1 + d
    BY <1>1, <1>4, <2>2, q - r - 1 \in Nat
  <2>4. M * q = M * r + M + M * d
    BY <1>1, <2>3
  <2>5. M * d \in Nat
    OBVIOUS
  <2> QED
    BY <1>2, <2>1, <2>4, <2>5
<1> QED
  BY <1>3, <1>4

\* An id is made of the stamp and the index of its block, and the block has not
\* been added earlier than the handle says.
HandlesOK ==
    /\ \A i \in Valid : id[i] = (stamp[i] % IdMod) + i * IdMod
    /\ \A h \in handles :
        /\ h[2] < CTimerIdAddup
        /\ \E j \in Slot : h[1] = (h[2] % IdMod) + j * IdMod /\ h[2] <= stamp[j]

LEMMA AddKeepsHandles ==
    ASSUME IInv, HandlesOK, NEW d \in Devs, SysAddCTimer(d) PROVE HandlesOK'
<1>1. PICK i \in Slot :
        /\ flag' = [flag EXCEPT ![i] = VALID]
        /\ id' = [id EXCEPT ![i] = TimerId(i)]
        /\ stamp' = [stamp EXCEPT ![i] = CTimerIdAddup]
        /\ handles' = handles \cup {<<TimerId(i), CTimerIdAddup>>}
  BY DEF SysAddCTimer
<1>2. CTimerIdAddup' = CTimerIdAddup + 1 /\ CTimerIdAddup \in Nat
  BY DEF SysAddCTimer, IInv, TypeOK
<1>3. /\ stamp'[i] = CTimerIdAddup /\ id'[i] = TimerId(i)
      /\ \A j \in Slot : j # i => stamp'[j] = stamp[j] /\ id'[j] = id[j]
      /\ \A j \in Valid' : j # i => j \in Valid
      /\ Valid' \subseteq Slot
  BY <1>1 DEF IInv, TypeOK, Valid
<1>4. ASSUME NEW j \in Valid' PROVE id'[j] = (stamp'[j] % IdMod) + j * IdMod
  BY <1>3 DEF HandlesOK, TimerId
<1>5. ASSUME NEW h \in handles'
      PROVE  /\ h[2] < CTimerIdAddup'
             /\ \E j \in Slot : h[1] = (h[2] % IdMod) + j * IdMod /\ h[2] <= stamp'[j]
  <2>1. CASE h \in handles
    <3>1. h[2] \in Nat
      BY <2>1 DEF IInv, TypeOK
    <3>2. PICK j \in Slot : h[1] = (h[2] % IdMod) + j * IdMod /\ h[2] <= stamp[j]
      BY <2>1 DEF HandlesOK
    <3>3. h[2] <= stamp'[j] /\ h[2] < CTimerIdAddup
      BY <1>2, <1>3, <2>1, <3>1, <3>2 DEF HandlesOK
    <3> QED
      BY <1>2, <3>1, <3>2, <3>3
  <2>2. CASE h = <<TimerId(i), CTimerIdAddup>>
    BY <1>2, <1>3, <2>2 DEF TimerId
  <2> QED
    BY <1>1, <1>5, <2>1, <2>2
<1> QED
  BY <1>4, <1>5 DEF HandlesOK

LEMMA PoolStepKeepsHandles == ASSUME IInv, HandlesOK, [PoolStep]_vars PROVE HandlesOK'
<1>1. CASE \E d \in Devs : SysAddCTimer(d)
  BY <1>1, AddKeepsHandles
<1>2. CASE UNCHANGED <<id, stamp, handles, CTimerIdAddup>> /\ Valid' \subseteq Valid
  BY <1>2 DEF HandlesOK
<1>3. ASSUME NEW i \in Slot, Unlink(i) PROVE Valid' \subseteq Valid
  BY <1>3 DEF Unlink, Valid, IInv, TypeOK, EMPTY, VALID
<1>4. CASE \E h \in Int : SysStopCTimer(h) \/ SysClearCTimer(h)
  <2>1. UNCHANGED <<id, stamp, handles, CTimerIdAddup>> /\ Valid' \subseteq Valid
    BY <1>3, <1>4 DEF SysStopCTimer, SysClearCTimer, obsVars, Valid
  <2> QED
    BY <1>2, <2>1
<1>5. CASE \E rc \in {0, 1} : CTimerProcReturn(rc)
  <2>1. p \in Slot
    BY <1>5 DEF CTimerProcReturn, IInv, WalkOK, Valid
  <2>2. UNCHANGED <<id, stamp, handles, CTimerIdAddup>> /\ Valid' \subseteq Valid
    BY <1>3, <1>5, <2>1 DEF CTimerProcReturn, StopCTimerP, obsVars, Valid
  <2> QED
    BY <1>2, <2>2
<1>6. CASE CTimerProcBegin \/ CTimerProcStep \/ CTimerProcEnd \/ UNCHANGED vars
  <2>1. UNCHANGED <<id, stamp, handles, CTimerIdAddup>> /\ Valid' \subseteq Valid
    BY <1>6 DEF CTimerProcBegin, CTimerProcStep, CTimerProcEnd, vars, ctimerVars, obsVars, Valid
  <2> QED
    BY <1>2, <2>1
<1> QED
  BY <1>1, <1>4, <1>5, <1>6 DEF PoolStep

\* A handle whose timer is gone designates no later timer before the counter in
\* the ids has gone round, for every range of the counter and every pool.
THEOREM StaleHandlesHarmless == Spec => []StaleHandleHarmless
<1>1. Init => HandlesOK
  BY DEF Init, HandlesOK, Valid, EMPTY, VALID
<1>2. IInv /\ HandlesOK => StaleHandleHarmless
  <2> SUFFICES ASSUME IInv, HandlesOK, NEW h \in handles, NEW i \in Slot, Designates(h[1], i)
               PROVE  stamp[i] = h[2] \/ stamp[i] - h[2] >= IdMod
    BY DEF StaleHandleHarmless
  <2>1. PICK j \in Slot : h[1] = (h[2] % IdMod) + j * IdMod /\ h[2] <= stamp[j]
    BY DEF HandlesOK
  <2>2. h[1] = (stamp[i] % IdMod) + i * IdMod
    BY DEF HandlesOK, Designates, Valid, IInv, TypeOK
  <2>3. IdMod \in Nat \ {0} /\ h[2] \in Nat /\ stamp[i] \in Nat /\ i \in Nat /\ j \in Nat
    BY CTimerAssumption DEF IInv, TypeOK, Slot
  <2>4. h[2] % IdMod \in 0 .. IdMod - 1 /\ stamp[i] % IdMod \in 0 .. IdMod - 1
    BY <2>3
  <2>5. (stamp[i] % IdMod) + i * IdMod = (h[2] % IdMod) + j * IdMod
    BY <2>1, <2>2
  <2>6. i = j /\ stamp[i] % IdMod = h[2] % IdMod
    BY ONLY <2>3, <2>4, <2>5, HandleParts
  <2> QED
    BY <2>1, <2>3, <2>6, SameRemainder
<1>3. IInv /\ HandlesOK /\ [Next]_vars => HandlesOK'
  BY NextIsPoolStep, PoolStepKeepsHandles
<1> QED
  BY <1>1, <1>2, <1>3, IInvHolds, PTL DEF Spec

(***************************************************************************)
(* The refinement of TimerSet.                                             *)
(***************************************************************************)
LiveOK ==
    /\ Live = [k \in Stamps(Valid) |-> Live[k]]
    /\ \A i \in Valid : stamp[i] \in Stamps(Valid)
    /\ \A k \in Stamps(Valid) : \E i \in Valid : k = stamp[i]
    /\ \A i \in Valid : Live[stamp[i]] = [dev |-> dev[i], cnt |-> cnt[i]]

\* A stamp names one block.
LEMMA LiveFacts == IInv => LiveOK
<1> SUFFICES ASSUME IInv PROVE LiveOK
  OBVIOUS
<1>1. ASSUME NEW i \in Valid PROVE BlockOf(stamp[i]) = i
  BY DEF BlockOf, IInv, StampsOK
<1>2. /\ \A i \in Valid : stamp[i] \in Stamps(Valid)
      /\ \A k \in Stamps(Valid) : \E i \in Valid : k = stamp[i]
  BY DEF Stamps
<1> QED
  BY <1>1, <1>2 DEF LiveOK, Live

\* There are no more stamps than blocks, and fewer while a block is free.
LEMMA FreeBlock ==
    ASSUME TypeOK, NEW i \in Slot, flag[i] = EMPTY
    PROVE  Cardinality(Stamps(Valid)) < MaxCTimer
<1>1. IsFiniteSet(Slot) /\ Cardinality(Slot) = MaxCTimer
  BY CTimerAssumption, FS_Interval DEF Slot
<1>2. Valid \subseteq Slot \ {i}
  BY DEF Valid, EMPTY, VALID
<1>3. IsFiniteSet(Slot \ {i}) /\ Cardinality(Slot \ {i}) = MaxCTimer - 1
  BY <1>1, FS_RemoveElement
<1>4. IsFiniteSet(Valid) /\ Cardinality(Valid) <= MaxCTimer - 1
  BY <1>2, <1>3, FS_Subset
<1>5. Stamps(Valid) = {stamp[k] : k \in Valid}
  BY DEF Stamps
<1> DEFINE f == [k \in Valid |-> stamp[k]]
<1>6. f \in Surjection(Valid, Stamps(Valid))
  BY <1>5 DEF Surjection
<1>7. Cardinality(Stamps(Valid)) <= Cardinality(Valid)
  BY <1>4, <1>6, FS_Surjection
<1>8. Cardinality(Stamps(Valid)) \in Nat /\ Cardinality(Valid) \in Nat
  BY <1>4, <1>6, FS_Surjection, FS_CardinalityType
<1> QED
  BY <1>4, <1>7, <1>8, CTimerAssumption

LEMMA SetCount ==
    ASSUME NEW a, NEW b, NEW k, NEW r, r = [dev |-> a, cnt |-> b]
    PROVE  [r EXCEPT !.cnt = k] = [dev |-> a, cnt |-> k]
OBVIOUS

LEMMA SameCardinality == \A S : Abs!Cardinality(S) = Cardinality(S)
BY DEF Abs!Cardinality, Cardinality, Abs!IsFiniteSet, IsFiniteSet

\* What a step does to Live follows from what it does to the VALID blocks.
LEMMA AddImplements ==
    ASSUME IInv, IInv', NEW d \in Devs, SysAddCTimer(d) PROVE Abs!Add(d)
<1>1. PICK i \in Slot :
        /\ IsFirstEmpty(i)
        /\ flag' = [flag EXCEPT ![i] = VALID]
        /\ cnt' = [cnt EXCEPT ![i] = 0]
        /\ dev' = [dev EXCEPT ![i] = d]
        /\ stamp' = [stamp EXCEPT ![i] = CTimerIdAddup]
  BY DEF SysAddCTimer, ResetCount
<1>2. LiveOK /\ LiveOK'
  <2>1. IInv' => LiveOK'
    BY LiveFacts, PTL
  <2> QED
    BY <2>1, LiveFacts
<1>3. flag[i] = EMPTY /\ i \notin Valid /\ Valid' = Valid \cup {i}
  BY <1>1 DEF IInv, TypeOK, IsFirstEmpty, Valid, EMPTY, VALID
<1>4. /\ \A k \in Valid : stamp'[k] = stamp[k] /\ cnt'[k] = cnt[k] /\ dev'[k] = dev[k]
      /\ stamp'[i] = CTimerIdAddup /\ cnt'[i] = 0 /\ dev'[i] = d
  BY <1>1, <1>3 DEF IInv, TypeOK, Valid
<1>5. \A k \in Valid : stamp[k] # CTimerIdAddup
  BY DEF IInv, StampsOK, TypeOK, Valid
<1>6. Stamps(Valid)' = Stamps(Valid) \cup {CTimerIdAddup}
  BY <1>3, <1>4 DEF Stamps
<1>7. \A k \in Stamps(Valid)' :
        Live'[k] = IF k = CTimerIdAddup THEN [dev |-> d, cnt |-> 0] ELSE Live[k]
  <2> TAKE k \in Stamps(Valid)'
  <2>1. PICK j \in Valid' : k = stamp'[j]
    BY <1>2 DEF LiveOK
  <2>2. Live'[k] = [dev |-> dev'[j], cnt |-> cnt'[j]]
    BY <1>2, <2>1 DEF LiveOK
  <2>3. CASE j = i
    BY <1>4, <2>1, <2>2, <2>3
  <2>4. CASE j \in Valid
    <3>1. k = stamp[j] /\ k # CTimerIdAddup /\ Live'[k] = [dev |-> dev[j], cnt |-> cnt[j]]
      BY <1>4, <1>5, <2>1, <2>2, <2>4
    <3>2. Live[k] = [dev |-> dev[j], cnt |-> cnt[j]]
      BY <1>2, <2>4, <3>1 DEF LiveOK
    <3> QED
      BY <3>1, <3>2
  <2> QED
    BY <1>3, <2>3, <2>4
<1>8. Live' = [k \in DOMAIN Live \cup {CTimerIdAddup} |->
                 IF k = CTimerIdAddup THEN [dev |-> d, cnt |-> 0] ELSE Live[k]]
  <2>1. DOMAIN Live = Stamps(Valid)
    BY DEF Live
  <2>2. Live' = [k \in Stamps(Valid)' |-> Live'[k]]
    BY <1>2 DEF LiveOK
  <2> QED
    BY <1>6, <1>7, <2>1, <2>2
<1>9. Cardinality(DOMAIN Live) < MaxCTimer
  BY <1>3, FreeBlock DEF IInv, Live
<1>10. /\ pc = "idle" /\ pc' = pc /\ p' = p /\ due' = due /\ seen' = seen
       /\ CTimerIdAddup' = CTimerIdAddup + 1
  BY DEF SysAddCTimer, walkVars
<1> QED
  BY <1>8, <1>9, <1>10, SameCardinality DEF Abs!Add, Todo, Firing

\* Taking block i off the list takes its stamp out of the live timers.
LEMMA UnlinkRemoves ==
    ASSUME IInv, IInv', NEW i \in Valid, Unlink(i), UNCHANGED <<stamp, cnt, dev>>
    PROVE  Live' = Abs!Without(stamp[i])
<1>1. LiveOK /\ LiveOK'
  <2>1. IInv' => LiveOK'
    BY LiveFacts, PTL
  <2> QED
    BY <2>1, LiveFacts
<1>2. Valid' = Valid \ {i}
  BY DEF Unlink, IInv, TypeOK, Valid, EMPTY, VALID
<1>3. Stamps(Valid)' = Stamps(Valid) \ {stamp[i]}
  BY <1>2 DEF Stamps, IInv, StampsOK
<1>4. \A k \in Stamps(Valid)' : Live'[k] = Live[k]
  <2> TAKE k \in Stamps(Valid)'
  <2>1. PICK j \in Valid' : k = stamp'[j]
    BY <1>1 DEF LiveOK
  <2>2. Live'[k] = [dev |-> dev[j], cnt |-> cnt[j]]
    BY <1>1, <2>1 DEF LiveOK
  <2>3. Live[k] = [dev |-> dev[j], cnt |-> cnt[j]]
    BY <1>1, <1>2, <2>1 DEF LiveOK
  <2> QED
    BY <2>2, <2>3
<1>5. DOMAIN Live = Stamps(Valid)
  BY DEF Live
<1>6. Live' = [k \in Stamps(Valid)' |-> Live'[k]]
  BY <1>1 DEF LiveOK
<1> QED
  BY <1>3, <1>4, <1>5, <1>6 DEF Abs!Without

\* Setting the count of block i sets the count of its stamp.
LEMMA CountSets ==
    ASSUME IInv, IInv', NEW i \in Valid, NEW count \in Nat,
           cnt' = [cnt EXCEPT ![i] = count], UNCHANGED <<flag, stamp, dev>>
    PROVE  Live' = [Live EXCEPT ![stamp[i]].cnt = count]
<1>1. LiveOK /\ LiveOK'
  <2>1. IInv' => LiveOK'
    BY LiveFacts, PTL
  <2> QED
    BY <2>1, LiveFacts
<1>2. Valid' = Valid /\ Stamps(Valid)' = Stamps(Valid)
  BY DEF Valid, Stamps
<1>3. /\ cnt'[i] = count
      /\ \A k \in Valid : k # i => cnt'[k] = cnt[k]
  BY DEF IInv, TypeOK, Valid
<1>4. \A k \in Valid : k # i => stamp[k] # stamp[i]
  BY DEF IInv, StampsOK
<1>5. Live'[stamp[i]] = [Live[stamp[i]] EXCEPT !.cnt = count]
  <2>1. Live[stamp[i]] = [dev |-> dev[i], cnt |-> cnt[i]]
    BY <1>1 DEF LiveOK
  <2>2. Live'[stamp[i]] = [dev |-> dev[i], cnt |-> count]
    BY <1>1, <1>2, <1>3 DEF LiveOK
  <2> QED
    BY <2>1, <2>2, SetCount
<1>6. ASSUME NEW k \in Stamps(Valid), k # stamp[i] PROVE Live'[k] = Live[k]
  <2>1. PICK j \in Valid : k = stamp[j]
    BY <1>1 DEF LiveOK
  <2>2. Live[k] = [dev |-> dev[j], cnt |-> cnt[j]]
    BY <1>1, <2>1 DEF LiveOK
  <2>3. Live'[k] = [dev |-> dev[j], cnt |-> cnt'[j]]
    BY <1>1, <1>2, <2>1 DEF LiveOK
  <2> QED
    BY <1>3, <1>6, <2>1, <2>2, <2>3
<1>7. DOMAIN Live = Stamps(Valid)
  BY DEF Live
<1>8. Live' = [k \in Stamps(Valid) |-> Live'[k]] /\ Live = [k \in Stamps(Valid) |-> Live[k]]
  BY <1>1, <1>2 DEF LiveOK
<1> QED
  BY <1>5, <1>6, <1>7, <1>8

LEMMA LiveDomain == DOMAIN Live = Stamps(Valid)
BY DEF Live

\* SysStopCTimer and SysClearCTimer, idle: no tick is in progress.
LEMMA StopImplements ==
    ASSUME IInv, IInv', NEW h, SysStopCTimer(h) PROVE \E k \in DOMAIN Live : Abs!Stop(k)
<1>1. PICK i \in Slot : Designates(h, i) /\ Unlink(i)
  BY DEF SysStopCTimer
<1>2. i \in Valid
  BY <1>1 DEF Designates, Valid, IInv, TypeOK
<1>3. /\ pc = "idle" /\ pc' = pc /\ p' = p /\ due' = due /\ seen' = seen
      /\ CTimerIdAddup' = CTimerIdAddup /\ UNCHANGED <<stamp, cnt, dev>>
  BY DEF SysStopCTimer, walkVars, obsVars
<1>4. Live' = Abs!Without(stamp[i])
  BY <1>1, <1>2, <1>3, UnlinkRemoves
<1>5. Abs!Stop(stamp[i])
  BY <1>3, <1>4 DEF Abs!Stop, Todo, Firing
<1>6. stamp[i] \in DOMAIN Live
  BY <1>2, LiveDomain DEF Stamps
<1> QED
  BY <1>5, <1>6

LEMMA ClearImplements ==
    ASSUME IInv, IInv', NEW h, SysClearCTimer(h) PROVE \E k \in DOMAIN Live : Abs!Clear(k)
<1>1. PICK i \in Slot : Designates(h, i) /\ ResetCount(i)
  BY DEF SysClearCTimer
<1>2. i \in Valid
  BY <1>1 DEF Designates, Valid, IInv, TypeOK
<1>3. /\ pc = "idle" /\ pc' = pc /\ p' = p /\ due' = due /\ seen' = seen
      /\ CTimerIdAddup' = CTimerIdAddup /\ UNCHANGED <<flag, stamp, dev>>
  BY DEF SysClearCTimer, walkVars, obsVars
<1>4. Live' = [Live EXCEPT ![stamp[i]].cnt = 0]
  BY <1>1, <1>2, <1>3, CountSets DEF ResetCount
<1>5. Abs!Clear(stamp[i])
  BY <1>3, <1>4 DEF Abs!Clear, Todo, Firing
<1>6. stamp[i] \in DOMAIN Live
  BY <1>2, LiveDomain DEF Stamps
<1> QED
  BY <1>5, <1>6

\* A step that leaves the blocks alone leaves the live timers alone.
LEMMA SameLive == UNCHANGED <<flag, stamp, dev, cnt>> => UNCHANGED Live
BY DEF Live, BlockOf, Stamps, Valid

LEMMA BeginImplements ==
    ASSUME IInv, CTimerProcBegin PROVE Abs!TickBegin
<1>1. UNCHANGED Live
  BY SameLive DEF CTimerProcBegin, ctimerVars
<1>2. /\ pc = "idle" /\ pc' = "walk" /\ due' = Stamps(Valid) /\ seen' = {}
      /\ CTimerIdAddup' = CTimerIdAddup
  BY DEF CTimerProcBegin, ctimerVars
<1> QED
  BY <1>1, <1>2, LiveDomain DEF Abs!TickBegin, Todo, Firing

\* The timer CTimerProc counts is the oldest the walk has not counted: what
\* is left of due is the stamps of the VALID blocks from p on.
LEMMA StepImplements ==
    ASSUME IInv, IInv', CTimerProcStep PROVE \E k \in DOMAIN Live : Abs!Visit(k)
<1>1. /\ pc = "walk" /\ p # List /\ p \in Valid /\ p \in Slot
      /\ seen' = seen \cup {stamp[p]} /\ due' = due
      /\ CTimerIdAddup' = CTimerIdAddup /\ UNCHANGED <<flag, stamp, dev>>
  BY DEF CTimerProcStep, IInv, WalkOK, Valid
<1>2. stamp[p] \in DOMAIN Live
  BY <1>1, LiveDomain DEF Stamps
<1>3. Todo = due \ seen /\ Firing = {}
  BY <1>1 DEF Todo, Firing
<1>4. /\ stamp[p] \in due \ seen
      /\ \A s \in due \ seen : stamp[p] <= s
  BY <1>1 DEF IInv, WalkOK, TypeOK
<1>5. Live[stamp[p]] = [dev |-> dev[p], cnt |-> cnt[p]]
  BY <1>1, LiveFacts DEF LiveOK
<1>6. Live[stamp[p]].dev = dev[p] /\ Live[stamp[p]].cnt = cnt[p]
  BY <1>5
<1>7. Todo' = Todo \ {stamp[p]}
  BY <1>1, <1>3 DEF CTimerProcStep, Todo
<1>8. CASE Due(p)
  <2>1. cnt' = [cnt EXCEPT ![p] = 0] /\ pc' = "call" /\ p' = p
    BY <1>8 DEF CTimerProcStep, ResetCount
  <2>2. Live' = [Live EXCEPT ![stamp[p]].cnt = 0]
    BY <1>1, <2>1, CountSets
  <2>3. Firing' = {stamp[p]}
    BY <1>1, <2>1 DEF Firing
  <2>4. Abs!Visit(stamp[p])
    BY <1>1, <1>3, <1>4, <1>6, <1>7, <1>8, <2>1, <2>2, <2>3 DEF Abs!Visit, Abs!Oldest, Due
  <2> QED
    BY <1>2, <2>4
<1>9. CASE ~Due(p)
  <2>1. cnt' = [cnt EXCEPT ![p] = cnt[p] + 1] /\ pc' = pc
    BY <1>9 DEF CTimerProcStep, Count
  <2>2. cnt[p] + 1 \in Nat
    BY <1>1 DEF IInv, TypeOK
  <2>3. Live' = [Live EXCEPT ![stamp[p]].cnt = cnt[p] + 1]
    BY <1>1, <2>1, <2>2, CountSets
  <2>4. Firing' = {}
    BY <1>1, <2>1 DEF Firing
  <2>5. Abs!Visit(stamp[p])
    BY <1>1, <1>3, <1>4, <1>6, <1>7, <1>9, <2>1, <2>3, <2>4 DEF Abs!Visit, Abs!Oldest, Due
  <2> QED
    BY <1>2, <2>5
<1> QED
  BY <1>8, <1>9

LEMMA ReturnImplements ==
    ASSUME IInv, IInv', NEW rc \in {0, 1}, CTimerProcReturn(rc)
    PROVE  \E k \in DOMAIN Live : Abs!Fired(k)
<1>1. /\ pc = "call" /\ pc' = "walk" /\ p \in Valid /\ due' = due /\ seen' = seen
      /\ CTimerIdAddup' = CTimerIdAddup /\ UNCHANGED <<stamp, cnt, dev>>
  BY DEF CTimerProcReturn, obsVars, IInv, WalkOK
<1>2. Live' = Live \/ Live' = Abs!Without(stamp[p])
  <2>1. CASE UNCHANGED flag
    BY <1>1, <2>1, SameLive
  <2>2. CASE Unlink(p)
    BY <1>1, <2>2, UnlinkRemoves
  <2> QED
    BY <2>1, <2>2 DEF CTimerProcReturn, StopCTimerP
<1>3. Abs!Fired(stamp[p])
  BY <1>1, <1>2 DEF Abs!Fired, Todo, Firing
<1>4. stamp[p] \in DOMAIN Live
  BY <1>1, LiveDomain DEF Stamps
<1> QED
  BY <1>3, <1>4

LEMMA EndImplements ==
    ASSUME IInv, CTimerProcEnd PROVE Abs!TickEnd
<1>1. UNCHANGED Live
  BY SameLive DEF CTimerProcEnd, ctimerVars, obsVars
<1>2. /\ pc = "walk" /\ p = List /\ pc' = "idle" /\ CTimerIdAddup' = CTimerIdAddup
      /\ due \subseteq seen
  BY DEF CTimerProcEnd, ctimerVars, IInv, WalkOK
<1> QED
  BY <1>1, <1>2 DEF Abs!TickEnd, Todo, Firing

\* The blocks, links and handles of timer.c implement the plain set of timers
\* of TimerSet, for every pool size, interval set and id range.
THEOREM PoolImplementsTimerSet == Spec => ImplementsTimerSet
<1>1. Init => Abs!Init
  <2> SUFFICES ASSUME Init PROVE Abs!Init
    OBVIOUS
  <2>1. Valid = {} /\ Stamps(Valid) = {}
    BY DEF Init, Valid, EMPTY, VALID, Stamps
  <2>2. Live = [k \in {} |-> [dev |-> 0, cnt |-> 0]]
    BY <2>1 DEF Live
  <2> QED
    BY <2>2 DEF Init, Abs!Init, Todo, Firing
<1>2. IInv /\ IInv' /\ [Next]_vars => [Abs!Next]_Abs!vars
  <2> SUFFICES ASSUME IInv, IInv', [Next]_vars PROVE Abs!Next \/ UNCHANGED Abs!vars
    OBVIOUS
  <2>1. CASE \E d \in Devs : SysAddCTimer(d)
    BY <2>1, AddImplements DEF Abs!Next
  <2>2. CASE \E h \in handles : SysStopCTimer(h[1]) \/ SysClearCTimer(h[1])
    BY <2>2, StopImplements, ClearImplements DEF Abs!Next
  <2>3. CASE CTimerProcBegin
    BY <2>3, BeginImplements DEF Abs!Next
  <2>4. CASE CTimerProcStep
    BY <2>4, StepImplements DEF Abs!Next
  <2>5. CASE \E rc \in {0, 1} : CTimerProcReturn(rc)
    BY <2>5, ReturnImplements DEF Abs!Next
  <2>6. CASE CTimerProcEnd
    BY <2>6, EndImplements DEF Abs!Next
  <2>7. CASE UNCHANGED vars
    <3>1. UNCHANGED Live
      BY <2>7, SameLive DEF vars, ctimerVars, obsVars
    <3> QED
      BY <2>7, <3>1 DEF vars, ctimerVars, walkVars, obsVars, Abs!vars, Todo, Firing
  <2> QED
    BY <2>1, <2>2, <2>3, <2>4, <2>5, <2>6, <2>7 DEF Next
<1> QED
  BY <1>1, <1>2, IInvHolds, PTL DEF Spec, ImplementsTimerSet, Abs!Spec

(***************************************************************************)
(* The debug shell.  The pool's own invariants hold in the composition     *)
(* because every step of the two threads is a step of the pool or leaves   *)
(* it alone; the session's invariant SInv is then inductive relative to    *)
(* them.                                                                   *)
(***************************************************************************)
\* The blocks of the session's idle timers.
MineValid == {i \in Valid : stamp[i] \in mine}

ShellPcs == {"read", "itf", "test", "add", "set", "clear", "run", "quit", "stop",
             "forget", "logoff", "exit"}

ShellType ==
    /\ LogonOk \in {0, 1}
    /\ TimerIdEthShell \in Nat \cup {-1}
    /\ ret \in Nat \cup {-1}
    /\ spc \in ShellPcs
    /\ cbpc \in {"off", "forget", "itf", "logoff", "return"}
    /\ mine \subseteq 0 .. CTimerIdAddup - 1

\* CTimerEthShell runs exactly while CTimerProc is in the callback of an idle
\* timer; once it has forgotten the handle, the shell stores no other.
CallbackOK ==
    /\ cbpc # "off" => pc = "call"
    /\ pc = "call" => (stamp[p] \in mine <=> cbpc # "off")
    /\ cbpc \in {"itf", "logoff", "return"} => TimerIdEthShell = -1

\* The handle of a running idle timer is stored, or about to be, or has been
\* forgotten by the callback that is about to stop the timer.
IdleTimerKnown ==
    \A i \in MineValid :
        \/ TimerIdEthShell = id[i]
        \/ spc = "set" /\ ret = id[i]
        \/ cbpc \in {"itf", "logoff", "return"}

\* A stored handle is that of a running idle timer, except between
\* SysStopCTimer and the reset in EthShellQuit.
HandleAlive ==
    /\ TimerIdEthShell >= 0 /\ spc # "forget" => \E i \in MineValid : id[i] = TimerIdEthShell
    /\ spc = "forget" => MineValid = {}

\* Between SysAddCTimer and the store no handle is stored and the new timer
\* does not run out.
StoreOK ==
    /\ spc \in {"add", "set"} => TimerIdEthShell = -1
    /\ spc = "set" =>
        /\ ret >= 0 => \E i \in MineValid : id[i] = ret
        /\ cbpc = "off"
        /\ pc # "idle" => \A i \in MineValid : stamp[i] \notin seen => cnt[i] + 1 < dev[i]

\* A session loses its handle only on the way to the log-off.
GuardOK ==
    LogonOk = 1 /\ TimerIdEthShell = -1 /\ ret # -1 =>
        spc \in {"itf", "test", "add", "set", "logoff"} \/ cbpc \in {"itf", "logoff"}

SInv ==
    /\ ShellType /\ CallbackOK /\ OneIdleTimer /\ IdleTimerKnown
    /\ HandleAlive /\ StoreOK /\ GuardOK

PoolInv == IInv /\ HandlesOK

(***************************************************************************)
(* The pool inside the composition.                                        *)
(***************************************************************************)
LEMMA ShellTakesPoolSteps ==
    ASSUME ShellType, [SNext]_svars PROVE [PoolStep]_vars
<1>1. CASE Shell
  <2>1. TimerIdEthShell \in Int
    BY DEF ShellType
  <2>2. (IF cmd = "logon" THEN LogonDev ELSE CmdDev) \in Devs
    BY ShellAssumption
  <2> QED
    BY <1>1, <2>1, <2>2 DEF Shell, ReadLine, SetLogInterface, TestTimerId, AddIdleTimer,
      StoreTimerId, ClearIdleTimer, RunCommand, EthShellQuit, QuitStopTimer, QuitForgetTimer,
      QuitLogoff, ShellExitEnd, PoolStep
<1>2. CASE OtherAdd
  BY <1>2, ShellAssumption DEF OtherAdd, PoolStep
<1>3. CASE TickBegin
  BY <1>3 DEF TickBegin, PoolStep
<1>4. CASE InTick
  BY <1>4 DEF InTick, TickStep, CTimerEthShellForget, CTimerEthShellItf,
    CTimerEthShellLogoff, TickReturn, TickEnd, PoolStep
<1>5. CASE UNCHANGED svars
  BY <1>5 DEF svars
<1> QED
  BY <1>1, <1>2, <1>3, <1>4, <1>5 DEF SNext

\* The id of a VALID block designates that block and no other.
LEMMA IdDesignates ==
    ASSUME PoolInv, NEW i \in Valid PROVE Designates(id[i], i)
<1> DEFINE a == stamp[i] % IdMod
           q == id[i] \div IdMod
           r == id[i] % IdMod
<1>1. /\ IdMod \in Nat \ {0} /\ stamp[i] \in Nat /\ i \in Nat
      /\ id[i] \in Nat /\ flag[i] # EMPTY
  BY CTimerAssumption DEF PoolInv, IInv, TypeOK, Valid, Slot, EMPTY, VALID
<1>2. a \in 0 .. IdMod - 1
  BY <1>1
<1>3. id[i] = a + i * IdMod
  BY DEF PoolInv, HandlesOK
<1>4. q \in Nat /\ r \in 0 .. IdMod - 1 /\ id[i] = r + q * IdMod
  BY <1>1, SMTT(30)
<1> HIDE DEF a, q, r
<1>5. i = q
  BY ONLY <1>1, <1>2, <1>3, <1>4, HandleParts
<1> QED
  BY <1>1, <1>5 DEF Designates, q

(***************************************************************************)
(* Steps that leave the pool alone.                                        *)
(***************************************************************************)
LEMMA SamePool ==
    ASSUME UNCHANGED vars
    PROVE  /\ Valid' = Valid
           /\ UNCHANGED <<flag, id, dev, cnt, CTimerIdAddup, pc, p, p1, stamp, seen>>
BY DEF vars, ctimerVars, walkVars, obsVars, Valid

LEMMA QuietShellStep ==
    ASSUME PoolInv, SInv, UNCHANGED <<vars, cbpc, mine>>,
           \/ \E c \in {"logon", "exit", "other"} : ReadLine(c)
           \/ SetLogInterface \/ TestTimerId \/ StoreTimerId \/ RunCommand
           \/ EthShellQuit \/ QuitForgetTimer \/ QuitLogoff \/ ShellExitEnd
    PROVE  SInv'
<1>1. /\ UNCHANGED <<id, dev, cnt, CTimerIdAddup, pc, p, stamp, seen, cbpc, mine>>
      /\ MineValid' = MineValid /\ OneIdleTimer'
  BY SamePool DEF MineValid, SInv, OneIdleTimer
<1>2. CASE \E c \in {"logon", "exit", "other"} : ReadLine(c)
  BY <1>1, <1>2 DEF ReadLine, SInv, ShellType, ShellPcs, CallbackOK, IdleTimerKnown,
    HandleAlive, StoreOK, GuardOK
<1>3. CASE SetLogInterface
  BY <1>1, <1>3 DEF SetLogInterface, SInv, ShellType, ShellPcs, CallbackOK, IdleTimerKnown,
    HandleAlive, StoreOK, GuardOK
<1>4. CASE TestTimerId
  BY <1>1, <1>4 DEF TestTimerId, sessVars, SInv, ShellType, ShellPcs, CallbackOK,
    IdleTimerKnown, HandleAlive, StoreOK, GuardOK
<1>5. CASE StoreTimerId
  <2>1. \A i \in MineValid : id[i] \in Nat
    BY DEF MineValid, Valid, PoolInv, IInv, TypeOK
  <2> QED
    BY <1>1, <1>5, <2>1 DEF StoreTimerId, AfterTimer, SInv, ShellType, ShellPcs, CallbackOK,
      IdleTimerKnown, HandleAlive, StoreOK, GuardOK
<1>6. CASE RunCommand
  <2>1. /\ spc = "run" /\ spc' \in {"read", "quit", "exit"}
        /\ UNCHANGED <<LogonOk, TimerIdEthShell, LogInterface, ret>>
    BY <1>6 DEF RunCommand, sessVars
  <2> QED
    BY <1>1, <2>1 DEF SInv, ShellType, ShellPcs, CallbackOK, IdleTimerKnown, HandleAlive,
      StoreOK, GuardOK
<1>7. CASE EthShellQuit
  BY <1>1, <1>7 DEF EthShellQuit, sessVars, SInv, ShellType, ShellPcs, CallbackOK,
    IdleTimerKnown, HandleAlive, StoreOK, GuardOK
<1>8. CASE QuitForgetTimer
  BY <1>1, <1>8 DEF QuitForgetTimer, SInv, ShellType, ShellPcs, CallbackOK, IdleTimerKnown,
    HandleAlive, StoreOK, GuardOK
<1>9. CASE QuitLogoff
  BY <1>1, <1>9 DEF QuitLogoff, SInv, ShellType, ShellPcs, CallbackOK, IdleTimerKnown,
    HandleAlive, StoreOK, GuardOK
<1>10. CASE ShellExitEnd
  BY <1>1, <1>10 DEF ShellExitEnd, SInv, ShellType, ShellPcs, CallbackOK, IdleTimerKnown,
    HandleAlive, StoreOK, GuardOK
<1> QED
  BY <1>2, <1>3, <1>4, <1>5, <1>6, <1>7, <1>8, <1>9, <1>10

LEMMA QuietCallbackStep ==
    ASSUME PoolInv, SInv,
           CTimerEthShellForget \/ CTimerEthShellItf \/ CTimerEthShellLogoff
    PROVE  SInv'
<1>1. /\ UNCHANGED <<id, dev, cnt, CTimerIdAddup, pc, p, stamp, seen, mine, spc, ret>>
      /\ MineValid' = MineValid /\ OneIdleTimer'
  BY SamePool DEF CTimerEthShellForget, CTimerEthShellItf, CTimerEthShellLogoff, shellVars,
    MineValid, SInv, OneIdleTimer
<1>2. CASE CTimerEthShellForget
  BY <1>1, <1>2 DEF CTimerEthShellForget, SInv, ShellType, CallbackOK, IdleTimerKnown,
    HandleAlive, StoreOK, GuardOK
<1>3. CASE CTimerEthShellItf
  BY <1>1, <1>3 DEF CTimerEthShellItf, SInv, ShellType, CallbackOK, IdleTimerKnown,
    HandleAlive, StoreOK, GuardOK
<1>4. CASE CTimerEthShellLogoff
  BY <1>1, <1>4 DEF CTimerEthShellLogoff, SInv, ShellType, CallbackOK, IdleTimerKnown,
    HandleAlive, StoreOK, GuardOK
<1> QED
  BY <1>2, <1>3, <1>4

(***************************************************************************)
(* Steps of the shell that use the pool.                                   *)
(***************************************************************************)
\* A new timer leaves the blocks of the others alone.
LEMMA NewBlock ==
    ASSUME IInv, NEW d \in Devs, SysAddCTimer(d)
    PROVE  \E i \in Slot :
             /\ IsFirstEmpty(i) /\ i \notin Valid /\ Valid' = Valid \cup {i}
             /\ stamp'[i] = CTimerIdAddup /\ id'[i] = TimerId(i)
             /\ \A k \in Valid : stamp'[k] = stamp[k] /\ id'[k] = id[k]
<1>1. PICK i \in Slot :
        /\ IsFirstEmpty(i)
        /\ flag' = [flag EXCEPT ![i] = VALID]
        /\ id' = [id EXCEPT ![i] = TimerId(i)]
        /\ stamp' = [stamp EXCEPT ![i] = CTimerIdAddup]
  BY DEF SysAddCTimer
<1>2. i \notin Valid /\ Valid' = Valid \cup {i}
  BY <1>1 DEF IInv, TypeOK, IsFirstEmpty, Valid, EMPTY, VALID
<1>3. /\ stamp'[i] = CTimerIdAddup /\ id'[i] = TimerId(i)
      /\ \A k \in Valid : stamp'[k] = stamp[k] /\ id'[k] = id[k]
  BY <1>1, <1>2 DEF IInv, TypeOK, Valid
<1> QED
  BY <1>1, <1>2, <1>3

\* While SysAddCTimer may be called for an idle timer, none is running.
LEMMA NoneWhileAdding ==
    ASSUME IInv, SInv, spc = "add", pc = "idle" PROVE MineValid = {}
<1>1. cbpc = "off" /\ TimerIdEthShell = -1
  BY DEF SInv, CallbackOK, StoreOK, ShellType
<1>2. \A i \in MineValid : id[i] \in Nat
  BY DEF MineValid, Valid, IInv, TypeOK
<1> QED
  BY <1>1, <1>2 DEF SInv, IdleTimerKnown

LEMMA AddStep ==
    ASSUME PoolInv, PoolInv', SInv, AddIdleTimer PROVE SInv'
<1>1. /\ spc = "add" /\ spc' = "set" /\ pc = "idle" /\ pc' = "idle" /\ cbpc = "off"
      /\ UNCHANGED <<LogonOk, TimerIdEthShell, LogInterface, cbpc>>
      /\ TimerIdEthShell = -1 /\ MineValid = {}
  BY NoneWhileAdding, SamePool DEF AddIdleTimer, SysAddCTimer, walkVars, sessVars, PoolInv,
    SInv, CallbackOK, StoreOK
<1>2. CASE Full
  <2>1. ret' = -1 /\ UNCHANGED <<vars, mine>>
    BY <1>2 DEF AddIdleTimer
  <2>2. MineValid' = MineValid /\ OneIdleTimer' /\ CTimerIdAddup' = CTimerIdAddup
    BY <2>1, SamePool DEF MineValid, SInv, OneIdleTimer
  <2> QED
    BY <1>1, <2>1, <2>2 DEF SInv, ShellType, ShellPcs, CallbackOK, IdleTimerKnown,
      HandleAlive, StoreOK, GuardOK
<1>3. CASE ~Full
  <2> DEFINE d == IF cmd = "logon" THEN LogonDev ELSE CmdDev
  <2>1. /\ d \in Devs /\ SysAddCTimer(d) /\ mine' = mine \cup {CTimerIdAddup}
        /\ CTimerIdAddup' = CTimerIdAddup + 1 /\ CTimerIdAddup \in Nat
    BY <1>3, ShellAssumption DEF AddIdleTimer, SysAddCTimer, PoolInv, IInv, TypeOK
  <2> HIDE DEF d
  <2>2. PICK i \in Slot :
          /\ IsFirstEmpty(i) /\ i \notin Valid /\ Valid' = Valid \cup {i}
          /\ stamp'[i] = CTimerIdAddup /\ id'[i] = TimerId(i)
          /\ \A k \in Valid : stamp'[k] = stamp[k] /\ id'[k] = id[k]
    BY <2>1, NewBlock DEF PoolInv
  <2>3. PICK j \in Slot : IsFirstEmpty(j) /\ ret' = TimerId(j)
    BY <1>3 DEF AddIdleTimer
  <2>4. i = j
    BY <2>2, <2>3 DEF IsFirstEmpty, Slot
  <2>5. id'[i] = ret' /\ ret' \in Nat
    BY <2>2, <2>3, <2>4 DEF PoolInv, IInv, TypeOK
  <2>6. MineValid' = {i}
    <3>1. \A k \in Valid : stamp[k] < CTimerIdAddup /\ stamp[k] \in Nat
      BY DEF PoolInv, IInv, StampsOK, TypeOK, Valid
    <3> QED
      BY <1>1, <2>1, <2>2, <3>1 DEF MineValid
  <2>7. OneIdleTimer'
    BY <2>6 DEF MineValid, OneIdleTimer
  <2>8. ShellType'
    BY <1>1, <2>1, <2>5 DEF SInv, ShellType, ShellPcs
  <2> QED
    BY <1>1, <2>5, <2>6, <2>7, <2>8 DEF SInv, CallbackOK, IdleTimerKnown, HandleAlive,
      StoreOK, GuardOK
<1> QED
  BY <1>2, <1>3

LEMMA OtherAddStep ==
    ASSUME PoolInv, SInv, OtherAdd PROVE SInv'
<1>1. /\ SysAddCTimer(OtherDev) /\ OtherDev \in Devs /\ pc = "idle" /\ pc' = "idle"
      /\ CTimerIdAddup' = CTimerIdAddup + 1 /\ CTimerIdAddup \in Nat
      /\ UNCHANGED <<LogonOk, TimerIdEthShell, LogInterface, spc, cmd, ret, cbpc, mine>>
  BY ShellAssumption DEF OtherAdd, SysAddCTimer, sessVars, shellVars, walkVars, PoolInv, IInv,
    TypeOK
<1>2. PICK i \in Slot :
        /\ i \notin Valid /\ Valid' = Valid \cup {i}
        /\ stamp'[i] = CTimerIdAddup
        /\ \A k \in Valid : stamp'[k] = stamp[k] /\ id'[k] = id[k]
  BY <1>1, NewBlock DEF PoolInv
<1>3. CTimerIdAddup \notin mine /\ mine \subseteq 0 .. CTimerIdAddup' - 1
  BY <1>1 DEF SInv, ShellType
<1>4. MineValid' = MineValid /\ \A k \in MineValid : id'[k] = id[k]
  BY <1>1, <1>2, <1>3 DEF MineValid
<1>5. OneIdleTimer'
  BY <1>4 DEF MineValid, OneIdleTimer, SInv
<1>6. ShellType'
  BY <1>1, <1>3 DEF SInv, ShellType
<1> QED
  BY <1>1, <1>4, <1>5, <1>6 DEF SInv, CallbackOK, IdleTimerKnown, HandleAlive, StoreOK, GuardOK

LEMMA ClearStep ==
    ASSUME SInv, ClearIdleTimer PROVE SInv'
<1>1. /\ spc = "clear" /\ spc' \in {"read", "run"} /\ pc = "idle"
      /\ UNCHANGED <<LogonOk, TimerIdEthShell, LogInterface, cmd, ret, cbpc, mine>>
  BY DEF ClearIdleTimer, AfterTimer, sessVars
<1>2. UNCHANGED <<flag, id, CTimerIdAddup, pc, p, stamp>>
  BY SamePool DEF ClearIdleTimer, SysClearCTimer, walkVars, obsVars
<1>3. MineValid' = MineValid /\ OneIdleTimer'
  BY <1>1, <1>2 DEF MineValid, Valid, OneIdleTimer, SInv
<1> QED
  BY <1>1, <1>2, <1>3 DEF SInv, ShellType, ShellPcs, CallbackOK, IdleTimerKnown, HandleAlive,
    StoreOK, GuardOK

LEMMA StopStep ==
    ASSUME PoolInv, SInv, QuitStopTimer PROVE SInv'
<1>1. /\ spc = "stop" /\ spc' = "forget" /\ pc = "idle" /\ cbpc = "off"
      /\ UNCHANGED <<LogonOk, TimerIdEthShell, LogInterface, cmd, ret, cbpc, mine>>
  BY DEF QuitStopTimer, sessVars, SInv, CallbackOK
<1>2. \A i \in MineValid : Designates(TimerIdEthShell, i)
  <2> TAKE i \in MineValid
  <2>1. TimerIdEthShell = id[i]
    BY <1>1 DEF SInv, IdleTimerKnown
  <2> QED
    BY <2>1, IdDesignates DEF MineValid
<1>3. MineValid' = {} /\ UNCHANGED <<CTimerIdAddup, pc, p, stamp>>
  <2>1. CASE NoSuchTimer(TimerIdEthShell)
    <3>1. UNCHANGED vars
      BY <2>1 DEF QuitStopTimer
    <3>2. MineValid = {}
      BY <1>2, <2>1 DEF NoSuchTimer, MineValid, Valid
    <3> QED
      BY <1>1, <3>1, <3>2, SamePool DEF MineValid
  <2>2. CASE ~NoSuchTimer(TimerIdEthShell)
    <3>1. SysStopCTimer(TimerIdEthShell)
      BY <2>2 DEF QuitStopTimer
    <3>2. PICK j \in Slot : Designates(TimerIdEthShell, j) /\ Unlink(j)
      BY <3>1 DEF SysStopCTimer
    <3>3. Valid' = Valid \ {j}
      BY <3>2 DEF Unlink, PoolInv, IInv, TypeOK, Valid, EMPTY, VALID
    <3>4. UNCHANGED <<CTimerIdAddup, pc, p, stamp>>
      BY <3>1 DEF SysStopCTimer, walkVars, obsVars
    <3>5. MineValid \subseteq {j}
      BY <1>2, <3>2 DEF Designates
    <3> QED
      BY <1>1, <3>3, <3>4, <3>5 DEF MineValid
  <2> QED
    BY <2>1, <2>2
<1>4. OneIdleTimer'
  BY <1>3 DEF MineValid, OneIdleTimer
<1> QED
  BY <1>1, <1>3, <1>4 DEF SInv, ShellType, ShellPcs, CallbackOK, IdleTimerKnown, HandleAlive,
    StoreOK, GuardOK

(***************************************************************************)
(* Steps of the timer thread.                                              *)
(***************************************************************************)
LEMMA BeginStep ==
    ASSUME PoolInv, SInv, TickBegin PROVE SInv'
<1>1. /\ pc = "idle" /\ pc' = "walk" /\ cbpc = "off"
      /\ UNCHANGED <<flag, id, dev, cnt, CTimerIdAddup, stamp>>
      /\ UNCHANGED <<LogonOk, TimerIdEthShell, LogInterface, spc, cmd, ret, cbpc, mine>>
  BY DEF TickBegin, CTimerProcBegin, ctimerVars, sessVars, shellVars, SInv, CallbackOK
<1>2. MineValid' = MineValid /\ OneIdleTimer'
  BY <1>1 DEF MineValid, Valid, OneIdleTimer, SInv
<1>3. ASSUME spc = "set", NEW i \in MineValid PROVE cnt[i] + 1 < dev[i]
  <2>1. ret = id[i]
    <3>1. id[i] \in Nat
      BY DEF MineValid, Valid, PoolInv, IInv, TypeOK
    <3> QED
      BY <1>1, <1>3, <3>1 DEF SInv, IdleTimerKnown, StoreOK
  <2>2. Designates(ret, i) /\ i \in Slot
    BY <2>1, IdDesignates DEF MineValid, Valid
  <2> QED
    BY <1>3, <2>2 DEF TickBegin, StoreIsPrompt
<1> QED
  BY <1>1, <1>2, <1>3 DEF SInv, ShellType, CallbackOK, IdleTimerKnown, HandleAlive, StoreOK,
    GuardOK

\* The one idle timer, if it is counted during the store, is not due.
LEMMA StepStep ==
    ASSUME PoolInv, SInv, TickStep PROVE SInv'
<1>1. /\ pc = "walk" /\ cbpc = "off" /\ p \in Valid
      /\ seen' = seen \cup {stamp[p]}
      /\ UNCHANGED <<flag, id, dev, CTimerIdAddup, stamp>>
      /\ UNCHANGED <<LogonOk, TimerIdEthShell, LogInterface, spc, cmd, ret, mine>>
  BY DEF TickStep, CTimerProcStep, sessVars, shellVars, PoolInv, IInv, WalkOK
<1>2. MineValid' = MineValid /\ OneIdleTimer'
  BY <1>1 DEF MineValid, Valid, OneIdleTimer, SInv
<1>3. stamp[p] \notin seen
  BY <1>1 DEF TickStep, CTimerProcStep, PoolInv, IInv, WalkOK, TypeOK, Valid
<1>4. \A k \in MineValid : stamp[k] \notin seen' => cnt'[k] = cnt[k]
  BY <1>1 DEF TickStep, CTimerProcStep, ResetCount, Count, MineValid, Valid, PoolInv, IInv, TypeOK
<1>5. \/ pc' = "call" /\ p' = p /\ Due(p)
      \/ pc' = "walk" /\ ~Due(p)
  BY <1>1 DEF TickStep, CTimerProcStep
<1>6. ASSUME spc = "set", pc' = "call" PROVE stamp[p] \notin mine
  <2>1. SUFFICES ASSUME stamp[p] \in mine PROVE FALSE
    OBVIOUS
  <2>2. cnt[p] + 1 < dev[p]
    BY <1>1, <1>3, <1>6, <2>1 DEF SInv, StoreOK, MineValid
  <2>3. cnt[p] \in Nat /\ dev[p] \in Nat
    BY <1>1 DEF PoolInv, IInv, TypeOK, Valid
  <2> QED
    BY <1>5, <1>6, <2>2, <2>3 DEF Due
<1>7. cbpc' = IF pc' = "call" /\ stamp[p] \in mine THEN "forget" ELSE "off"
  BY DEF TickStep
<1>8. ShellType' /\ CallbackOK'
  BY <1>1, <1>5, <1>7 DEF SInv, ShellType, CallbackOK
<1>9. StoreOK'
  BY <1>1, <1>2, <1>4, <1>5, <1>6, <1>7 DEF SInv, StoreOK
<1> QED
  BY <1>1, <1>2, <1>7, <1>8, <1>9 DEF SInv, IdleTimerKnown, HandleAlive, GuardOK

LEMMA ReturnStep ==
    ASSUME PoolInv, SInv, NEW rc \in {0, 1}, TickReturn(rc) PROVE SInv'
<1>1. /\ pc = "call" /\ pc' = "walk" /\ p \in Valid /\ cbpc' = "off"
      /\ UNCHANGED <<id, dev, cnt, CTimerIdAddup, stamp, seen>>
      /\ UNCHANGED <<LogonOk, TimerIdEthShell, LogInterface, spc, cmd, ret, mine>>
  BY DEF TickReturn, CTimerProcReturn, sessVars, shellVars, obsVars, PoolInv, IInv, WalkOK
<1>2. Valid' \subseteq Valid /\ Valid \ {p} \subseteq Valid'
      /\ (rc = 1 => p \notin Valid')
  BY <1>1 DEF TickReturn, CTimerProcReturn, StopCTimerP, Unlink, PoolInv, IInv, TypeOK, Valid,
    EMPTY, VALID
<1>3. OneIdleTimer'
  BY <1>1, <1>2 DEF OneIdleTimer, SInv
<1>4. CASE cbpc = "return"
  <2>1. rc = 1 /\ MineValid = {p}
    BY <1>1, <1>4 DEF TickReturn, SInv, CallbackOK, OneIdleTimer, MineValid
  <2>2. MineValid' = {}
    BY <1>1, <1>2, <2>1 DEF MineValid
  <2>3. TimerIdEthShell = -1
    BY <1>4 DEF SInv, CallbackOK
  <2> QED
    BY <1>1, <1>3, <1>4, <2>2, <2>3 DEF SInv, ShellType, CallbackOK, IdleTimerKnown,
      HandleAlive, StoreOK, GuardOK
<1>5. CASE cbpc = "off"
  <2>1. MineValid' = MineValid
    BY <1>1, <1>2, <1>5 DEF SInv, CallbackOK, MineValid
  <2> QED
    BY <1>1, <1>3, <1>5, <2>1 DEF SInv, ShellType, CallbackOK, IdleTimerKnown, HandleAlive,
      StoreOK, GuardOK
<1> QED
  BY <1>4, <1>5 DEF TickReturn

LEMMA EndStep ==
    ASSUME SInv, TickEnd PROVE SInv'
<1>1. /\ pc' = "idle" /\ cbpc = "off" /\ pc = "walk"
      /\ UNCHANGED <<flag, id, dev, cnt, CTimerIdAddup, stamp, seen>>
      /\ UNCHANGED <<LogonOk, TimerIdEthShell, LogInterface, spc, cmd, ret, cbpc, mine>>
  BY DEF TickEnd, CTimerProcEnd, ctimerVars, obsVars, sessVars, shellVars, SInv, CallbackOK
<1>2. MineValid' = MineValid /\ OneIdleTimer'
  BY <1>1 DEF MineValid, Valid, OneIdleTimer, SInv
<1> QED
  BY <1>1, <1>2 DEF SInv, ShellType, CallbackOK, IdleTimerKnown, HandleAlive, StoreOK, GuardOK

(***************************************************************************)
(* The theorems.                                                           *)
(***************************************************************************)
LEMMA SInvHolds == SSpec => [](PoolInv /\ SInv)
<1>1. SInit => PoolInv /\ SInv
  <2> SUFFICES ASSUME SInit PROVE PoolInv /\ SInv
    OBVIOUS
  <2>1. Init /\ Valid = {} /\ handles = {} /\ CTimerIdAddup = 0 /\ pc = "idle"
    BY DEF SInit, Init, Valid, EMPTY, VALID
  <2>2. PoolInv
    BY <2>1, InitIInv DEF PoolInv, HandlesOK
  <2>3. MineValid = {} /\ OneIdleTimer
    BY <2>1 DEF MineValid, OneIdleTimer
  <2>4. SInv
    BY <2>1, <2>3 DEF SInit, SInv, ShellType, ShellPcs, CallbackOK, IdleTimerKnown,
      HandleAlive, StoreOK, GuardOK
  <2> QED
    BY <2>2, <2>4
<1>2. PoolInv /\ SInv /\ [SNext]_svars => (PoolInv /\ SInv)'
  <2> SUFFICES ASSUME PoolInv, SInv, [SNext]_svars PROVE PoolInv' /\ SInv'
    OBVIOUS
  <2>1. PoolInv'
    <3>1. [PoolStep]_vars
      BY ShellTakesPoolSteps DEF SInv
    <3> QED
      BY <3>1, PoolStepKeepsIInv, PoolStepKeepsHandles DEF PoolInv
  <2> SUFFICES SInv'
    BY <2>1
  <2>2. CASE Shell
    <3>1. CASE AddIdleTimer
      BY <2>1, <3>1, AddStep
    <3>2. CASE ClearIdleTimer
      BY <3>2, ClearStep
    <3>3. CASE QuitStopTimer
      BY <3>3, StopStep
    <3>4. CASE \/ \E c \in {"logon", "exit", "other"} : ReadLine(c)
               \/ SetLogInterface \/ TestTimerId \/ StoreTimerId \/ RunCommand
               \/ EthShellQuit \/ QuitForgetTimer \/ QuitLogoff \/ ShellExitEnd
      <4>1. UNCHANGED <<vars, cbpc, mine>>
        BY <3>4 DEF ReadLine, SetLogInterface, TestTimerId, StoreTimerId, RunCommand,
          EthShellQuit, QuitForgetTimer, QuitLogoff, ShellExitEnd
      <4> QED
        BY <3>4, <4>1, QuietShellStep
    <3> QED
      BY <2>2, <3>1, <3>2, <3>3, <3>4 DEF Shell
  <2>3. CASE OtherAdd
    BY <2>3, OtherAddStep
  <2>4. CASE TickBegin
    BY <2>4, BeginStep
  <2>5. CASE InTick
    BY <2>5, StepStep, QuietCallbackStep, ReturnStep, EndStep DEF InTick
  <2>6. CASE UNCHANGED svars
    <3>1. /\ UNCHANGED <<id, dev, cnt, CTimerIdAddup, pc, p, stamp, seen, mine, spc, ret, cbpc>>
          /\ UNCHANGED <<LogonOk, TimerIdEthShell>>
          /\ MineValid' = MineValid /\ OneIdleTimer'
      BY <2>6, SamePool DEF svars, sessVars, shellVars, MineValid, SInv, OneIdleTimer
    <3> QED
      BY <3>1 DEF SInv, ShellType, CallbackOK, IdleTimerKnown, HandleAlive, StoreOK, GuardOK
  <2> QED
    BY <2>2, <2>3, <2>4, <2>5, <2>6 DEF SNext
<1> QED
  BY <1>1, <1>2, PTL DEF SSpec

\* The unlocked races between CTimerEthShell, EthShellTask and EthShellQuit never
\* leave a dead handle in TimerIdEthShell: while the shell waits for a line, a
\* stored handle designates a running idle timer of the session.
THEOREM HandleStaysAlive == SSpec => []NoDeadHandle
<1>1. PoolInv /\ SInv => NoDeadHandle
  <2> SUFFICES ASSUME PoolInv, SInv, Rest, TimerIdEthShell >= 0
               PROVE  \E i \in Slot : Designates(TimerIdEthShell, i) /\ stamp[i] \in mine
    BY DEF NoDeadHandle
  <2>1. PICK i \in MineValid : id[i] = TimerIdEthShell
    BY DEF Rest, SInv, HandleAlive
  <2>2. i \in Valid /\ i \in Slot /\ stamp[i] \in mine
    BY DEF MineValid, Valid
  <2> QED
    BY <2>1, <2>2, IdDesignates
<1> QED
  BY <1>1, SInvHolds, PTL

\* A session never has two idle timers, whatever command races the time-out.
THEOREM IdleTimerUnique == SSpec => []OneIdleTimer
<1>1. SInv => OneIdleTimer
  BY DEF SInv
<1> QED
  BY <1>1, SInvHolds, PTL

\* A session that waits without idle timer is one whose SysAddCTimer failed.
THEOREM SessionGuarded == SSpec => []SessionIsGuarded
<1>1. SInv => SessionIsGuarded
  BY DEF SInv, GuardOK, CallbackOK, SessionIsGuarded, Rest
<1> QED
  BY <1>1, SInvHolds, PTL

(***************************************************************************)
(* The calendar.                                                           *)
(***************************************************************************)
LeapDay(year) == IF Leap(year) THEN 1 ELSE 0

\* The table of SysClockToUTime with its rule for leap years.
DaysBefore(year, m) == DaysBeforeMonth[m] + (IF m > 2 /\ Leap(year) THEN 1 ELSE 0)

LEMMA TableNat == \A m \in 1 .. 12 : DaysBeforeMonth[m] \in Nat
<1>1. \A m \in 1 .. 12 : \/ m = 1 \/ m = 2 \/ m = 3 \/ m = 4 \/ m = 5 \/ m = 6 \/ m = 7 \/ m = 8
                          \/ m = 9 \/ m = 10 \/ m = 11 \/ m = 12
  OBVIOUS
<1> QED
  BY <1>1 DEF DaysBeforeMonth

\* The lengths that UTimeToSysClock takes off add up to the table.
LEMMA TakenIsTable ==
    ASSUME NEW year \in Nat
    PROVE  /\ \A m \in 1 .. 12 : DaysTaken(year)[m] = DaysBefore(year, m)
           /\ DaysTaken(year)[13] = 365 + LeapDay(year)
<1> DEFINE l == LeapDay(year)
           t == DaysTaken(year)
           Eq(f) == f = [m \in 1 .. 13 |-> IF m = 1 THEN 0 ELSE f[m - 1] + MonthDays(year, m - 1)]
<1>1. l \in 0 .. 1
  BY DEF LeapDay
<1>2. /\ MonthDays(year, 1) = 31 /\ MonthDays(year, 2) = 28 + l /\ MonthDays(year, 3) = 31
      /\ MonthDays(year, 4) = 30 /\ MonthDays(year, 5) = 31 /\ MonthDays(year, 6) = 30
      /\ MonthDays(year, 7) = 31 /\ MonthDays(year, 8) = 31 /\ MonthDays(year, 9) = 30
      /\ MonthDays(year, 10) = 31 /\ MonthDays(year, 11) = 30 /\ MonthDays(year, 12) = 31
  BY DEF MonthDays, LeapDay
<1> DEFINE w == <<0, 31, 59 + l, 90 + l, 120 + l, 151 + l, 181 + l, 212 + l, 243 + l, 273 + l,
                  304 + l, 334 + l, 365 + l>>
<1> HIDE DEF l
<1>3. Eq(w)
  <2>1. w = [m \in 1 .. 13 |-> w[m]]
    OBVIOUS
  <2>2. \A m \in 1 .. 13 : w[m] = IF m = 1 THEN 0 ELSE w[m - 1] + MonthDays(year, m - 1)
    <3>1. /\ w[1] = 0 /\ w[2] = 31 /\ w[3] = 59 + l /\ w[4] = 90 + l /\ w[5] = 120 + l
          /\ w[6] = 151 + l /\ w[7] = 181 + l /\ w[8] = 212 + l /\ w[9] = 243 + l
          /\ w[10] = 273 + l /\ w[11] = 304 + l /\ w[12] = 334 + l /\ w[13] = 365 + l
      OBVIOUS
    <3> HIDE DEF w
    <3>2. \A m \in 1 .. 13 : \/ m = 1 \/ m = 2 \/ m = 3 \/ m = 4 \/ m = 5 \/ m = 6 \/ m = 7 \/ m = 8
                              \/ m = 9 \/ m = 10 \/ m = 11 \/ m = 12 \/ m = 13
      OBVIOUS
    <3> QED
      BY <1>1, <1>2, <3>1, <3>2
  <2> HIDE DEF w
  <2> QED
    BY <2>1, <2>2
<1>4. Eq(t)
  <2>1. \E f : Eq(f)
    BY <1>3
  <2>2. t = CHOOSE f : Eq(f)
    BY DEF DaysTaken
  <2> HIDE DEF Eq, t
  <2> QED
    BY <2>1, <2>2
<1> HIDE DEF t, w
<1>5. \A m \in 1 .. 13 : t[m] = IF m = 1 THEN 0 ELSE t[m - 1] + MonthDays(year, m - 1)
  BY <1>4
<1>6. /\ t[1] = 0 /\ t[2] = 31 /\ t[3] = 59 + l /\ t[4] = 90 + l /\ t[5] = 120 + l
      /\ t[6] = 151 + l /\ t[7] = 181 + l
  BY <1>1, <1>2, <1>5
<1>7. /\ t[8] = 212 + l /\ t[9] = 243 + l /\ t[10] = 273 + l /\ t[11] = 304 + l
      /\ t[12] = 334 + l /\ t[13] = 365 + l
  BY <1>1, <1>2, <1>5, <1>6
<1>8. \A m \in 1 .. 12 : t[m] = DaysBeforeMonth[m] + (IF m > 2 THEN l ELSE 0)
  <2>1. \A m \in 1 .. 12 : \/ m = 1 \/ m = 2 \/ m = 3 \/ m = 4 \/ m = 5 \/ m = 6 \/ m = 7 \/ m = 8
                            \/ m = 9 \/ m = 10 \/ m = 11 \/ m = 12
    OBVIOUS
  <2> QED
    BY <1>1, <1>6, <1>7, <2>1 DEF DaysBeforeMonth
<1>9. \A m \in 1 .. 12 : DaysBefore(year, m) = DaysBeforeMonth[m] + (IF m > 2 THEN l ELSE 0)
  BY DEF DaysBefore, l, LeapDay
<1> QED
  BY <1>7, <1>8, <1>9 DEF t, l

\* A month ends where the next one begins, the last with its year.
LEMMA MonthLengths ==
    ASSUME NEW year \in Nat
    PROVE  /\ \A m \in 1 .. 12 : DaysBefore(year, m) \in Nat /\ MonthDays(year, m) \in 28 .. 31
           /\ \A m \in 1 .. 11 : DaysBefore(year, m + 1) = DaysBefore(year, m) + MonthDays(year, m)
           /\ DaysBefore(year, 1) = 0
           /\ DaysBefore(year, 12) + MonthDays(year, 12) = 365 + LeapDay(year)
<1> DEFINE l == LeapDay(year)
<1>1. l \in 0 .. 1
  BY DEF LeapDay
<1>2. /\ MonthDays(year, 1) = 31 /\ MonthDays(year, 2) = 28 + l /\ MonthDays(year, 3) = 31
      /\ MonthDays(year, 4) = 30 /\ MonthDays(year, 5) = 31 /\ MonthDays(year, 6) = 30
      /\ MonthDays(year, 7) = 31 /\ MonthDays(year, 8) = 31 /\ MonthDays(year, 9) = 30
      /\ MonthDays(year, 10) = 31 /\ MonthDays(year, 11) = 30 /\ MonthDays(year, 12) = 31
  BY DEF MonthDays, LeapDay
<1>3. \A m \in 1 .. 12 : DaysBefore(year, m) = DaysBeforeMonth[m] + (IF m > 2 THEN l ELSE 0)
  BY DEF DaysBefore, LeapDay
<1> HIDE DEF l
<1>4. /\ DaysBefore(year, 1) = 0 /\ DaysBefore(year, 2) = 31 /\ DaysBefore(year, 3) = 59 + l
      /\ DaysBefore(year, 4) = 90 + l /\ DaysBefore(year, 5) = 120 + l /\ DaysBefore(year, 6) = 151 + l
      /\ DaysBefore(year, 7) = 181 + l /\ DaysBefore(year, 8) = 212 + l /\ DaysBefore(year, 9) = 243 + l
      /\ DaysBefore(year, 10) = 273 + l /\ DaysBefore(year, 11) = 304 + l /\ DaysBefore(year, 12) = 334 + l
  BY <1>1, <1>3 DEF DaysBeforeMonth
<1>5. \A m \in 1 .. 12 : \/ m = 1 \/ m = 2 \/ m = 3 \/ m = 4 \/ m = 5 \/ m = 6 \/ m = 7 \/ m = 8
                          \/ m = 9 \/ m = 10 \/ m = 11 \/ m = 12
  OBVIOUS
<1>6. \A m \in 1 .. 12 : DaysBefore(year, m) \in Nat /\ MonthDays(year, m) \in 28 .. 31
  BY <1>1, <1>2, <1>4, <1>5
<1>7. \A m \in 1 .. 11 : DaysBefore(year, m + 1) = DaysBefore(year, m) + MonthDays(year, m)
  BY <1>1, <1>2, <1>4, <1>5
<1>8. DaysBefore(year, 12) + MonthDays(year, 12) = 365 + l
  BY <1>1, <1>2, <1>4
<1> QED
  BY <1>4, <1>6, <1>7, <1>8 DEF l

LEMMA MonthLength ==
    ASSUME NEW year \in Nat, NEW m \in 1 .. 12
    PROVE  MonthDays(year, m) \in 28 .. 31 /\ DaysBefore(year, m) \in Nat
  BY MonthLengths

LEMMA MonthFacts ==
    ASSUME NEW year \in Nat, NEW d \in Nat, d < 365 + LeapDay(year)
    PROVE  /\ MonthOf(year, d).month \in 1 .. 12 /\ MonthOf(year, d).day \in Nat \ {0}
           /\ MonthOf(year, d).day <= MonthDays(year, MonthOf(year, d).month)
           /\ DaysBefore(year, MonthOf(year, d).month) + MonthOf(year, d).day - 1 = d
<1> DEFINE l == LeapDay(year)
           t == DaysTaken(year)
           P(m) == t[m] <= d /\ d < t[m + 1]
           month == CHOOSE m \in 1 .. 12 : P(m)
<1>1. l \in 0 .. 1
  BY DEF LeapDay
<1>2. /\ \A m \in 1 .. 12 : t[m] = DaysBefore(year, m) /\ DaysBefore(year, m) \in Nat
      /\ t[13] = 365 + l
  BY TableNat, TakenIsTable DEF DaysBefore
<1>3. t[1] = 0
  BY <1>2 DEF DaysBefore, DaysBeforeMonth
<1>4. MonthOf(year, d) = [month |-> month, day |-> d - t[month] + 1]
  BY DEF MonthOf
<1> HIDE DEF l, t
<1>5. \E m \in 1 .. 12 : P(m)
  <2>1. SUFFICES ASSUME \A m \in 1 .. 12 : ~P(m) PROVE FALSE
    OBVIOUS
  <2>2. \A m \in 1 .. 12 : t[m] \in Nat
    BY <1>2
  <2>3. t[13] \in Nat /\ d < t[13]
    BY <1>1, <1>2 DEF l
  <2>4. \A m \in 1 .. 12 : t[m] <= d => t[m + 1] <= d
    <3> TAKE m \in 1 .. 12
    <3>1. t[m + 1] \in Nat
      <4>1. m + 1 \in 1 .. 12 \/ m + 1 = 13
        OBVIOUS
      <4> QED
        BY <2>2, <2>3, <4>1
    <3> QED
      BY <2>1, <3>1
  <2>5. t[2] <= d /\ t[3] <= d /\ t[4] <= d /\ t[5] <= d
    BY <1>3, <2>4
  <2>6. t[6] <= d /\ t[7] <= d /\ t[8] <= d /\ t[9] <= d
    BY <2>4, <2>5
  <2>7. t[10] <= d /\ t[11] <= d /\ t[12] <= d /\ t[13] <= d
    BY <2>4, <2>6
  <2> QED
    BY <2>3, <2>7
<1> HIDE DEF P
<1>6. month \in 1 .. 12 /\ P(month)
  BY <1>5
<1> HIDE DEF month
<1>7. t[month] = DaysBefore(year, month) /\ t[month] \in Nat /\ t[month] <= d
  BY <1>2, <1>6 DEF P
<1>8. d < t[month + 1] /\ MonthDays(year, month) \in Nat
  <2>1. \A m \in 1 .. 12 : MonthDays(year, m) \in 28 .. 31
    BY MonthLengths
  <2> QED
    BY <1>6, <2>1 DEF P
<1>9. t[month + 1] = t[month] + MonthDays(year, month)
  <2>1. CASE month = 12
    BY <1>2, <1>7, <2>1, MonthLengths DEF l
  <2>2. CASE month # 12
    <3>1. month \in 1 .. 11 /\ month + 1 \in 1 .. 12
      BY <1>6, <2>2
    <3>2. t[month + 1] = DaysBefore(year, month + 1)
      BY <1>2, <3>1
    <3>3. DaysBefore(year, month + 1) = DaysBefore(year, month) + MonthDays(year, month)
      BY <3>1, MonthLengths
    <3> QED
      BY <1>7, <3>2, <3>3
  <2> QED
    BY <2>1, <2>2
<1> QED
  BY <1>4, <1>6, <1>7, <1>8, <1>9

\* The year, the day of the year and the rest of UTimeToSysClock.
LEMMA YearFacts ==
    ASSUME NEW days \in Nat
    PROVE  LET rest == days % 1461
               cycle == IF rest < 366 THEN 0 ELSE ((rest - 366) \div 365) + 1
               year == (days \div 1461) * 4 + cycle
               d == IF cycle = 0 THEN rest ELSE (rest - 366) % 365
           IN  /\ year \in Nat /\ d \in Nat /\ d < 365 + LeapDay(year)
               /\ year * 365 + (IF year = 0 THEN 0 ELSE ((year - 1) \div 4) + 1) + d = days
<1> DEFINE q == days \div 1461
           rest == days % 1461
           cycle == IF rest < 366 THEN 0 ELSE ((rest - 366) \div 365) + 1
           year == q * 4 + cycle
           d == IF cycle = 0 THEN rest ELSE (rest - 366) % 365
<1>1. q \in Nat /\ rest \in 0 .. 1460 /\ days = 1461 * q + rest
  OBVIOUS
<1> HIDE DEF q, rest
<1>2. /\ cycle \in 0 .. 3 /\ d \in Nat
      /\ cycle = 0 => d = rest /\ d < 366
      /\ cycle # 0 => d = rest - (365 * cycle + 1) /\ d < 365
  BY <1>1
<1> HIDE DEF cycle, d
<1>3. year \in Nat /\ (year % 4 = cycle)
  BY <1>1, <1>2
<1>4. (IF year = 0 THEN 0 ELSE ((year - 1) \div 4) + 1) = q + (IF cycle = 0 THEN 0 ELSE 1)
  BY <1>1, <1>2
<1>5. d < 365 + LeapDay(year)
  BY <1>2, <1>3 DEF LeapDay, Leap
<1>6. year * 365 + (q + (IF cycle = 0 THEN 0 ELSE 1)) + d = days
  BY <1>1, <1>2
<1>7. year * 365 + (IF year = 0 THEN 0 ELSE ((year - 1) \div 4) + 1) + d = days
  BY <1>4, <1>6
<1> QED
  BY <1>2, <1>3, <1>5, <1>7 DEF q, rest, cycle, d

\* What UTimeToSysClock makes of a time: SysClockToUTime brings the time back.
LEMMA ClockFacts ==
    ASSUME NEW u \in Nat
    PROVE  LET c == UTimeToSysClock(u)
           IN  /\ c.year \in Nat /\ c.month \in 1 .. 12 /\ c.day \in Nat \ {0}
               /\ c.day <= MonthDays(c.year, c.month) /\ c.week = ((u \div Day) + 6) % 7
               /\ c.hour = (u \div 3600) % 24 /\ c.minute = (u \div 60) % 60 /\ c.second = u % 60
               /\ c.year * 365 + (IF c.year = 0 THEN 0 ELSE ((c.year - 1) \div 4) + 1)
                  + DaysBefore(c.year, c.month) + (c.day - 1) = u \div Day
<1> DEFINE days == u \div Day
           rest == days % 1461
           cycle == IF rest < 366 THEN 0 ELSE ((rest - 366) \div 365) + 1
           year == (days \div 1461) * 4 + cycle
           d == IF cycle = 0 THEN rest ELSE (rest - 366) % 365
           md == MonthOf(year, d)
           h == (u \div 3600) % 24
           mi == (u \div 60) % 60
           s == u % 60
           w == (days + 6) % 7
<1>1. UTimeToSysClock(u) = SysClock(year, md.month, md.day, h, mi, s, w)
  BY DEF UTimeToSysClock
<1>2. days \in Nat
  BY DEF Day
<1> HIDE DEF days
<1>3. /\ year \in Nat /\ d \in Nat /\ d < 365 + LeapDay(year)
      /\ year * 365 + (IF year = 0 THEN 0 ELSE ((year - 1) \div 4) + 1) + d = days
  BY <1>2, YearFacts
<1> HIDE DEF year, d
<1>4. /\ md.month \in 1 .. 12 /\ md.day \in Nat \ {0} /\ md.day <= MonthDays(year, md.month)
      /\ DaysBefore(year, md.month) + md.day - 1 = d
  BY <1>3, MonthFacts
<1> DEFINE y0 == year * 365 + (IF year = 0 THEN 0 ELSE ((year - 1) \div 4) + 1)
<1>5. y0 \in Int /\ DaysBefore(year, md.month) \in Int
  <2>1. y0 \in Int
    BY <1>3
  <2>2. DaysBefore(year, md.month) \in Int
    BY <1>4, TableNat DEF DaysBefore
  <2> QED
    BY <2>1, <2>2
<1>6. y0 + d = days
  BY <1>3
<1> HIDE DEF y0, md
<1>7. y0 + DaysBefore(year, md.month) + (md.day - 1) = days
  BY <1>2, <1>3, <1>4, <1>5, <1>6
<1> HIDE DEF h, mi, s, w
<1>8. LET c == UTimeToSysClock(u)
      IN  /\ c.year = year /\ c.month = md.month /\ c.day = md.day
          /\ c.hour = h /\ c.minute = mi /\ c.second = s /\ c.week = w
  BY <1>1 DEF SysClock
<1> QED
  BY <1>3, <1>4, <1>7, <1>8 DEF y0, h, mi, s, w, days

\* c shows the time of day of u, and its day of the week.
ShowsTime(c, u) ==
    /\ c.hour = (u \div 3600) % 24 /\ c.minute = (u \div 60) % 60 /\ c.second = u % 60
    /\ c.week = ((u \div Day) + 6) % 7
    /\ c = SysClock(c.year, c.month, c.day, c.hour, c.minute, c.second, c.week)

LEMMA TimeOfDay == ASSUME NEW u \in Nat PROVE ShowsTime(UTimeToSysClock(u), u)
<1> DEFINE days == u \div Day
           rest == days % 1461
           cycle == IF rest < 366 THEN 0 ELSE ((rest - 366) \div 365) + 1
           year == (days \div 1461) * 4 + cycle
           md == MonthOf(year, IF cycle = 0 THEN rest ELSE (rest - 366) % 365)
           h == (u \div 3600) % 24
           mi == (u \div 60) % 60
           s == u % 60
           w == (days + 6) % 7
           c == UTimeToSysClock(u)
<1>1. c = SysClock(year, md.month, md.day, h, mi, s, w)
  BY DEF UTimeToSysClock
<1> HIDE DEF year, md, h, mi, s, w, c
<1>2. c.year = year /\ c.month = md.month /\ c.day = md.day /\ c.hour = h /\ c.minute = mi /\ c.second = s /\ c.week = w
  BY <1>1 DEF SysClock
<1>3. c = SysClock(c.year, c.month, c.day, c.hour, c.minute, c.second, c.week)
  BY <1>1, <1>2
<1> QED
  BY <1>2, <1>3 DEF c, h, mi, s, w, ShowsTime

\* The date and the hour of one time with the minute and the second of another.
LEMMA MixedTime ==
    ASSUME NEW a \in Nat, NEW b \in Nat, NEW c,
           c.year = UTimeToSysClock(a).year, c.month = UTimeToSysClock(a).month,
           c.day = UTimeToSysClock(a).day, c.hour = UTimeToSysClock(a).hour,
           c.minute = UTimeToSysClock(b).minute, c.second = UTimeToSysClock(b).second
    PROVE  SysClockToUTime(c) = 3600 * (a \div 3600) + (b % 3600)
<1>1. /\ c.year \in Nat /\ c.month \in 1 .. 12 /\ c.day \in Nat \ {0}
      /\ c.hour = (a \div 3600) % 24
      /\ c.year * 365 + (IF c.year = 0 THEN 0 ELSE ((c.year - 1) \div 4) + 1)
         + DaysBefore(c.year, c.month) + (c.day - 1) = a \div Day
  BY ClockFacts
<1>2. c.minute = (b \div 60) % 60 /\ c.second = b % 60
  BY ClockFacts
<1> DEFINE y0 == c.year * 365 + (IF c.year = 0 THEN 0 ELSE ((c.year - 1) \div 4) + 1)
           l == IF c.month > 2 /\ Leap(c.year) THEN 1 ELSE 0
           t == DaysBeforeMonth[c.month]
           d == c.day - 1
           hour == c.hour
           minute == c.minute
           second == c.second
<1>3. y0 \in Int /\ l \in Int /\ t \in Int /\ d \in Int
  <2>1. y0 \in Int
    BY <1>1
  <2>2. l \in Int /\ d \in Int
    BY <1>1
  <2>3. t \in Int
    <3>1. c.month \in 1 .. 12
      BY <1>1
    <3>2. t \in Nat
      BY ONLY <3>1, TableNat
    <3> QED
      BY ONLY <3>2
  <2> QED
    BY <2>1, <2>2, <2>3
<1>4. y0 + (t + l) + d = a \div 86400
  BY <1>1 DEF DaysBefore, Day
<1>5. SysClockToUTime(c) = (((y0 + l + t + d) * 24 + hour) * 60 + minute) * 60 + second
  BY <1>1 DEF SysClockToUTime
<1>6. hour = (a \div 3600) % 24 /\ minute = (b \div 60) % 60 /\ second = b % 60
  BY <1>1, <1>2
<1> HIDE DEF y0, l, t, d, hour, minute, second
<1>7. y0 + l + t + d = a \div 86400
  BY <1>3, <1>4
<1>8. (a \div 86400) * 24 + ((a \div 3600) % 24) = a \div 3600
  OBVIOUS
<1>9. ((b \div 60) % 60) * 60 + (b % 60) = b % 3600
  OBVIOUS
<1> DEFINE ah == a \div 3600
<1>10. ah \in Nat /\ hour \in Nat /\ minute \in Nat /\ second \in Nat
  BY <1>6
<1>11. (y0 + l + t + d) * 24 + hour = ah /\ minute * 60 + second = b % 3600 /\ (b % 3600) \in Nat
  BY <1>6, <1>7, <1>8, <1>9
<1> HIDE DEF ah
<1>12. SysClockToUTime(c) = (ah * 60 + minute) * 60 + second
  BY <1>5, <1>11
<1>13. (ah * 60 + minute) * 60 + second = 3600 * ah + (minute * 60 + second)
  BY <1>10
<1> QED
  BY <1>11, <1>12, <1>13 DEF ah

\* UTimeToSysClock and SysClockToUTime, which count the days of the months each in
\* its own way, are inverses: no second of the calendar is lost or named twice.
THEOREM CalendarRoundTrip == \A u \in Nat : SysClockToUTime(UTimeToSysClock(u)) = u
<1> TAKE u \in Nat
<1>1. SysClockToUTime(UTimeToSysClock(u)) = 3600 * (u \div 3600) + (u % 3600)
  BY MixedTime
<1> QED
  BY <1>1
(***************************************************************************)
(* Days by their number, counted from 2000-1-1.                            *)
(***************************************************************************)
DaysBeforeYear(y) == y * 365 + (IF y = 0 THEN 0 ELSE ((y - 1) \div 4) + 1)
DayNumber(y, m, d) == DaysBeforeYear(y) + DaysBefore(y, m) + (d - 1)
IsDate(y, m, d) == y \in Nat /\ m \in 1 .. 12 /\ d \in 1 .. MonthDays(y, m)

LEMMA YearLengths ==
    ASSUME NEW y \in Nat
    PROVE  /\ DaysBeforeYear(y) \in Nat
           /\ DaysBeforeYear(y + 1) = DaysBeforeYear(y) + 365 + LeapDay(y)
           /\ \A z \in Nat : y < z => DaysBeforeYear(y + 1) <= DaysBeforeYear(z)
<1>1. DaysBeforeYear(y) \in Nat
  BY DEF DaysBeforeYear
<1>2. DaysBeforeYear(y + 1) = (y + 1) * 365 + (y \div 4) + 1
  BY DEF DaysBeforeYear
<1>3. y = 0 \/ (y \div 4) = ((y - 1) \div 4) + (IF y % 4 = 0 THEN 1 ELSE 0)
  OBVIOUS
<1>4. DaysBeforeYear(y + 1) = DaysBeforeYear(y) + 365 + LeapDay(y)
  BY <1>2, <1>3 DEF DaysBeforeYear, LeapDay, Leap
<1>5. ASSUME NEW z \in Nat, y < z PROVE DaysBeforeYear(y + 1) <= DaysBeforeYear(z)
  <2>1. DaysBeforeYear(z) = z * 365 + ((z - 1) \div 4) + 1
    BY <1>5 DEF DaysBeforeYear
  <2>2. y \div 4 <= (z - 1) \div 4
    BY <1>5
  <2> QED
    BY <1>2, <1>5, <2>1, <2>2
<1> QED
  BY <1>1, <1>4, <1>5

LEMMA MonthsInOrder ==
    ASSUME NEW year \in Nat, NEW m \in 1 .. 12, NEW k \in 1 .. 12, m < k
    PROVE  DaysBefore(year, m) + MonthDays(year, m) <= DaysBefore(year, k)
<1> DEFINE D(i) == DaysBefore(year, i)
           L(i) == MonthDays(year, i)
<1>1. /\ \A i \in 1 .. 12 : D(i) \in Nat /\ L(i) \in 28 .. 31
      /\ \A i \in 1 .. 11 : D(i + 1) = D(i) + L(i)
  BY MonthLengths
<1> HIDE DEF D, L
<1>2. /\ D(2) = D(1) + L(1) /\ D(3) = D(2) + L(2) /\ D(4) = D(3) + L(3) /\ D(5) = D(4) + L(4)
      /\ D(6) = D(5) + L(5) /\ D(7) = D(6) + L(6) /\ D(8) = D(7) + L(7) /\ D(9) = D(8) + L(8)
      /\ D(10) = D(9) + L(9) /\ D(11) = D(10) + L(10) /\ D(12) = D(11) + L(11)
  BY <1>1
<1>3. \A i \in 1 .. 11 : D(i) + L(i) = D(i + 1) /\ D(i) <= D(i + 1)
  BY <1>1
<1>4. \A i \in 1 .. 12 : \/ i = 1 \/ i = 2 \/ i = 3 \/ i = 4 \/ i = 5 \/ i = 6 \/ i = 7 \/ i = 8
                          \/ i = 9 \/ i = 10 \/ i = 11 \/ i = 12
  OBVIOUS
<1>5. m \in 1 .. 11 /\ m + 1 \in 1 .. 12 /\ m + 1 <= k
  OBVIOUS
<1>6. ASSUME NEW i \in 1 .. 12, NEW j \in 1 .. 12, i <= j PROVE D(i) <= D(j)
  <2>1. /\ D(1) <= D(2) /\ D(2) <= D(3) /\ D(3) <= D(4) /\ D(4) <= D(5) /\ D(5) <= D(6)
        /\ D(6) <= D(7) /\ D(7) <= D(8) /\ D(8) <= D(9) /\ D(9) <= D(10) /\ D(10) <= D(11)
        /\ D(11) <= D(12)
    BY <1>1, <1>2
  <2>2. /\ D(1) \in Nat /\ D(2) \in Nat /\ D(3) \in Nat /\ D(4) \in Nat /\ D(5) \in Nat /\ D(6) \in Nat
        /\ D(7) \in Nat /\ D(8) \in Nat /\ D(9) \in Nat /\ D(10) \in Nat /\ D(11) \in Nat /\ D(12) \in Nat
    BY <1>1
  <2> QED
    BY <1>4, <1>6, <2>1, <2>2
<1> QED
  BY <1>3, <1>5, <1>6 DEF D, L

\* A day is in its year and not in the next.
LEMMA DayInYear ==
    ASSUME NEW y, NEW m, NEW d, IsDate(y, m, d)
    PROVE  /\ DayNumber(y, m, d) \in Nat /\ DaysBeforeYear(y) <= DayNumber(y, m, d)
           /\ DayNumber(y, m, d) < DaysBeforeYear(y + 1)
<1>1. y \in Nat /\ m \in 1 .. 12 /\ d \in 1 .. MonthDays(y, m)
  BY DEF IsDate
<1> DEFINE D == DaysBefore(y, m)
           L == MonthDays(y, m)
           Y == DaysBeforeYear(y)
           l == LeapDay(y)
<1>2. D \in Nat /\ L \in 28 .. 31
  BY <1>1, MonthLengths
<1>3. Y \in Nat /\ DaysBeforeYear(y + 1) = Y + 365 + l
  BY <1>1, YearLengths
<1>4. D + L <= 365 + l /\ l \in 0 .. 1
  <2>1. l \in 0 .. 1
    BY DEF LeapDay
  <2>2. DaysBefore(y, 12) + MonthDays(y, 12) = 365 + l
    BY <1>1, MonthLengths
  <2>3. CASE m = 12
    BY <1>2, <2>1, <2>2, <2>3
  <2>4. CASE m # 12
    <3>1. m < 12
      BY <1>1, <2>4
    <3>2. D + L <= DaysBefore(y, 12)
      BY <1>1, <3>1, MonthsInOrder
    <3>3. DaysBefore(y, 12) \in Nat /\ MonthDays(y, 12) \in 28 .. 31
      BY <1>1, MonthLengths
    <3> QED
      BY <1>2, <2>1, <2>2, <3>2, <3>3
  <2> QED
    BY <2>3, <2>4
<1>5. DayNumber(y, m, d) = Y + D + (d - 1) /\ d \in 1 .. L
  BY <1>1 DEF DayNumber
<1> HIDE DEF D, L, Y, l
<1> QED
  BY <1>2, <1>3, <1>4, <1>5 DEF Y

\* No day has two dates.
LEMMA DateUnique ==
    ASSUME NEW y, NEW m, NEW d, IsDate(y, m, d),
           NEW y2, NEW m2, NEW d2, IsDate(y2, m2, d2),
           DayNumber(y, m, d) = DayNumber(y2, m2, d2)
    PROVE  y = y2 /\ m = m2 /\ d = d2
<1> DEFINE Y(i) == DaysBeforeYear(i)
<1>1. /\ y \in Nat /\ m \in 1 .. 12 /\ d \in 1 .. MonthDays(y, m)
      /\ y2 \in Nat /\ m2 \in 1 .. 12 /\ d2 \in 1 .. MonthDays(y2, m2)
  BY DEF IsDate
<1>2. /\ DayNumber(y, m, d) \in Nat /\ Y(y) <= DayNumber(y, m, d) /\ DayNumber(y, m, d) < Y(y + 1)
      /\ DayNumber(y2, m2, d2) \in Nat /\ Y(y2) <= DayNumber(y2, m2, d2) /\ DayNumber(y2, m2, d2) < Y(y2 + 1)
  BY DayInYear
<1>3. Y(y) \in Nat /\ Y(y2) \in Nat /\ Y(y + 1) \in Nat /\ Y(y2 + 1) \in Nat
  <2>1. y + 1 \in Nat /\ y2 + 1 \in Nat
    BY <1>1
  <2> QED
    BY <1>1, <2>1, YearLengths
<1>4. (y < y2 => Y(y + 1) <= Y(y2)) /\ (y2 < y => Y(y2 + 1) <= Y(y))
  BY <1>1, YearLengths
<1>5. y = y2
  <2> HIDE DEF Y
  <2>1. ~(y < y2) /\ ~(y2 < y)
    BY <1>2, <1>3, <1>4
  <2> QED
    BY <1>1, <2>1
<1> DEFINE D(i) == DaysBefore(y, i)
           L(i) == MonthDays(y, i)
<1>6. /\ D(m) \in Nat /\ L(m) \in 28 .. 31 /\ D(m2) \in Nat /\ L(m2) \in 28 .. 31
  BY <1>1, MonthLengths
<1>7. D(m) + (d - 1) = D(m2) + (d2 - 1)
  BY <1>1, <1>3, <1>5, <1>6 DEF DayNumber
<1>8. (m < m2 => D(m) + L(m) <= D(m2)) /\ (m2 < m => D(m2) + L(m2) <= D(m))
  BY <1>1, MonthsInOrder
<1>9. m = m2
  <2>1. d \in 1 .. L(m) /\ d2 \in 1 .. L(m2)
    BY <1>1, <1>5
  <2> HIDE DEF D, L
  <2>2. ~(m < m2) /\ ~(m2 < m)
    BY <1>6, <1>7, <1>8, <2>1
  <2> QED
    BY <1>1, <2>2
<1> QED
  BY <1>1, <1>5, <1>6, <1>7, <1>9

\* What a time's date is, and the number of its day.
LEMMA DateFacts ==
    ASSUME NEW u \in Nat
    PROVE  LET c == UTimeToSysClock(u)
           IN  IsDate(c.year, c.month, c.day) /\ DayNumber(c.year, c.month, c.day) = u \div Day
<1> DEFINE c == UTimeToSysClock(u)
<1>1. /\ c.year \in Nat /\ c.month \in 1 .. 12 /\ c.day \in Nat \ {0}
      /\ c.day <= MonthDays(c.year, c.month)
      /\ c.year * 365 + (IF c.year = 0 THEN 0 ELSE ((c.year - 1) \div 4) + 1)
         + DaysBefore(c.year, c.month) + (c.day - 1) = u \div Day
  BY ClockFacts
<1> HIDE DEF c
<1>2. MonthDays(c.year, c.month) \in 28 .. 31
  BY <1>1, MonthLengths
<1>3. IsDate(c.year, c.month, c.day)
  BY <1>1, <1>2 DEF IsDate
<1>4. DayNumber(c.year, c.month, c.day) = u \div Day
  BY <1>1 DEF DayNumber, DaysBeforeYear
<1> QED
  BY <1>3, <1>4 DEF c

\* UTimeToSysClock finds the date of a day.
LEMMA DateOf ==
    ASSUME NEW y, NEW m, NEW d, IsDate(y, m, d),
           NEW u \in Nat, u \div Day = DayNumber(y, m, d)
    PROVE  LET c == UTimeToSysClock(u) IN c.year = y /\ c.month = m /\ c.day = d
<1> DEFINE c == UTimeToSysClock(u)
<1>1. IsDate(c.year, c.month, c.day) /\ DayNumber(c.year, c.month, c.day) = u \div Day
  BY DateFacts
<1> HIDE DEF c
<1>2. c.year = y /\ c.month = m /\ c.day = d
  BY <1>1, DateUnique
<1> QED
  BY <1>2 DEF c

\* The second that a clock shows.
LEMMA SecondsOf ==
    ASSUME NEW c, IsDate(c.year, c.month, c.day),
           c.hour \in Nat, c.minute \in Nat, c.second \in Nat
    PROVE  SysClockToUTime(c) =
               Day * DayNumber(c.year, c.month, c.day) + 3600 * c.hour + 60 * c.minute + c.second
<1> DEFINE y0 == DaysBeforeYear(c.year)
           l == IF c.month > 2 /\ Leap(c.year) THEN 1 ELSE 0
           t == DaysBeforeMonth[c.month]
           d == c.day - 1
           h == c.hour
           mi == c.minute
           s == c.second
<1>1. c.year \in Nat /\ c.month \in 1 .. 12 /\ c.day \in 1 .. MonthDays(c.year, c.month)
  BY DEF IsDate
<1>2. t \in Nat
  BY <1>1, TableNat
<1>3. y0 \in Nat
  BY <1>1, YearLengths
<1>4. MonthDays(c.year, c.month) \in 28 .. 31
  BY <1>1, MonthLengths
<1>5. d \in Nat /\ l \in Nat /\ c.day # 0
  BY <1>1, <1>4
<1>6. SysClockToUTime(c) = (((y0 + l + t + d) * 24 + h) * 60 + mi) * 60 + s
  BY <1>1, <1>5 DEF SysClockToUTime, DaysBeforeYear
<1>7. DayNumber(c.year, c.month, c.day) = y0 + (t + l) + d
  BY DEF DayNumber, DaysBefore
<1>8. h \in Nat /\ mi \in Nat /\ s \in Nat
  OBVIOUS
<1> HIDE DEF y0, l, t, d, h, mi, s
<1>9. (((y0 + l + t + d) * 24 + h) * 60 + mi) * 60 + s = 86400 * (y0 + (t + l) + d) + 3600 * h + 60 * mi + s
  BY <1>2, <1>3, <1>5, <1>8
<1> QED
  BY <1>6, <1>7, <1>9 DEF Day, h, mi, s

(***************************************************************************)
(* The data base's calendar goes on as time.c's does.                      *)
(***************************************************************************)
LEMMA FirstMonth == ASSUME NEW y \in Nat PROVE DaysBefore(y, 1) = 0
  BY MonthLengths

LEMMA MaxDaysIsMonthDays ==
    ASSUME NEW y \in Nat, NEW m \in 1 .. 12, NEW d, NEW k
    PROVE  MaxDays(DbTime(y, m, d, k)) = MonthDays(y, m)
<1>1. \/ m = 1 \/ m = 2 \/ m = 3 \/ m = 4 \/ m = 5 \/ m = 6 \/ m = 7 \/ m = 8
      \/ m = 9 \/ m = 10 \/ m = 11 \/ m = 12
  OBVIOUS
<1>2. MaxDays(DbTime(y, m, d, k)) = MonthMaxDays[m] + (IF m = 2 /\ Leap(y) THEN 1 ELSE 0)
  BY DEF MaxDays, DbTime
<1> QED
  BY <1>1, <1>2 DEF MonthMaxDays, MonthDays, Leap

\* The month after a month and the one before it.
LEMMA OneMonth ==
    ASSUME NEW y \in 0 .. 254, NEW m \in 1 .. 12, NEW d, NEW k
    PROVE  /\ m < 12 => DbTimeAddOneMonth(DbTime(y, m, d, k)) = DbTime(y, m + 1, d, k)
           /\ m = 12 => DbTimeAddOneMonth(DbTime(y, m, d, k)) = DbTime(y + 1, 1, d, k)
           /\ m > 1 => DbTimeSubOneMonth(DbTime(y, m, d, k)) = DbTime(y, m - 1, d, k)
           /\ DbTimeSubOneMonth(DbTime(y + 1, 1, d, k)) = DbTime(y, 12, d, k)
<1>1. y + 1 \in Int /\ (y + 1) % 256 = y + 1 /\ ((y + 1) - 1) % 256 = y
  OBVIOUS
<1>2. m < 12 => DbTimeAddOneMonth(DbTime(y, m, d, k)) = DbTime(y, m + 1, d, k)
  BY DEF DbTimeAddOneMonth, DbTime
<1>3. m = 12 => DbTimeAddOneMonth(DbTime(y, m, d, k)) = DbTime(y + 1, 1, d, k)
  BY <1>1 DEF DbTimeAddOneMonth, DbTime
<1>4. m > 1 => DbTimeSubOneMonth(DbTime(y, m, d, k)) = DbTime(y, m - 1, d, k)
  BY DEF DbTimeSubOneMonth, DbTime
<1>5. DbTimeSubOneMonth(DbTime(y + 1, 1, d, k)) = DbTime(y, 12, d, k)
  BY <1>1 DEF DbTimeSubOneMonth, DbTime
<1> QED
  BY <1>2, <1>3, <1>4, <1>5

\* The day after a day, in the month, in the next one and in the next year.
LEMMA OneDay ==
    ASSUME NEW y \in 0 .. 254, NEW m \in 1 .. 12, NEW d \in 1 .. MonthDays(y, m), NEW k
    PROVE  LET t == DbTime(y, m, d, k)
           IN  /\ d < MonthDays(y, m) => DbTimeAddOneDay(t) = DbTime(y, m, d + 1, k)
               /\ d = MonthDays(y, m) /\ m < 12 => DbTimeAddOneDay(t) = DbTime(y, m + 1, 1, k)
               /\ d = MonthDays(y, m) /\ m = 12 => DbTimeAddOneDay(t) = DbTime(y + 1, 1, 1, k)
<1> DEFINE t == DbTime(y, m, d, k)
<1>0. y \in Nat
  OBVIOUS
<1>1. y \in Nat /\ MonthDays(y, m) \in 28 .. 31
  BY <1>0, MonthLength
<1>2. MaxDays(t) = MonthDays(y, m)
  BY <1>1, MaxDaysIsMonthDays
<1>3. t.day = d /\ [t EXCEPT !.day = 1] = DbTime(y, m, 1, k) /\ [t EXCEPT !.day = @ + 1] = DbTime(y, m, d + 1, k)
  BY DEF DbTime
<1>4. DbTimeAddOneDay(t) = IF d < MonthDays(y, m) THEN DbTime(y, m, d + 1, k)
                           ELSE DbTimeAddOneMonth(DbTime(y, m, 1, k))
  BY <1>2, <1>3 DEF DbTimeAddOneDay
<1> HIDE DEF t
<1>5. ~(MonthDays(y, m) < MonthDays(y, m))
  BY <1>1
<1>6. m < 12 => DbTimeAddOneMonth(DbTime(y, m, 1, k)) = DbTime(y, m + 1, 1, k)
  BY OneMonth
<1>7. m = 12 => DbTimeAddOneMonth(DbTime(y, m, 1, k)) = DbTime(y + 1, 1, 1, k)
  BY OneMonth
<1> QED
  BY <1>4, <1>5, <1>6, <1>7 DEF t

\* and it is the next by its number.
LEMMA NextDayNumber ==
    ASSUME NEW y \in 0 .. 254, NEW m \in 1 .. 12, NEW d \in 1 .. MonthDays(y, m), NEW k
    PROVE  \E y2, m2, d2 :
               /\ DbTimeAddOneDay(DbTime(y, m, d, k)) = DbTime(y2, m2, d2, k)
               /\ IsDate(y2, m2, d2) /\ DayNumber(y2, m2, d2) = DayNumber(y, m, d) + 1
<1> DEFINE L == MonthDays(y, m)
           D == DaysBefore(y, m)
           Y == DaysBeforeYear(y)
<1>0. y \in Nat
  OBVIOUS
<1>1. y \in Nat /\ L \in 28 .. 31 /\ D \in Nat
  BY <1>0, MonthLength
<1>2. Y \in Nat
  BY <1>1, YearLengths
<1>3. DayNumber(y, m, d) = Y + D + (d - 1)
  BY DEF DayNumber
<1>4. CASE d < L
  <2>1. IsDate(y, m, d + 1)
    BY <1>1, <1>4 DEF IsDate
  <2>2. DayNumber(y, m, d + 1) = Y + D + ((d + 1) - 1)
    BY DEF DayNumber
  <2>3. DbTimeAddOneDay(DbTime(y, m, d, k)) = DbTime(y, m, d + 1, k)
    BY <1>4, OneDay
  <2> HIDE DEF L, D, Y
  <2>4. DayNumber(y, m, d + 1) = DayNumber(y, m, d) + 1
    BY <1>1, <1>2, <1>3, <2>2
  <2> QED
    BY <2>1, <2>3, <2>4
<1>5. CASE d = L /\ m < 12
  <2>1. m \in 1 .. 11 /\ m + 1 \in 1 .. 12
    BY <1>5
  <2>2. DaysBefore(y, m + 1) = D + L /\ MonthDays(y, m + 1) \in 28 .. 31
    BY <1>1, <2>1, MonthLengths
  <2>3. IsDate(y, m + 1, 1)
    BY <1>1, <2>1, <2>2 DEF IsDate
  <2>4. DayNumber(y, m + 1, 1) = Y + (D + L) + (1 - 1)
    BY <2>2 DEF DayNumber
  <2>5. DbTimeAddOneDay(DbTime(y, m, d, k)) = DbTime(y, m + 1, 1, k)
    BY <1>5, OneDay
  <2> HIDE DEF L, D, Y
  <2>6. DayNumber(y, m + 1, 1) = DayNumber(y, m, d) + 1
    BY <1>1, <1>2, <1>3, <1>5, <2>4
  <2> QED
    BY <2>3, <2>5, <2>6
<1>6. CASE d = L /\ m = 12
  <2>1. DaysBeforeYear(y + 1) = Y + 365 + LeapDay(y)
    BY <1>1, YearLengths
  <2>2. D + L = 365 + LeapDay(y) /\ LeapDay(y) \in Nat
    <3>1. DaysBefore(y, 12) + MonthDays(y, 12) = 365 + LeapDay(y)
      BY <1>1, MonthLengths
    <3> QED
      BY <1>6, <3>1 DEF LeapDay
  <2>3. y + 1 \in Nat /\ 1 \in 1 .. 12
    BY <1>1
  <2>4. DaysBefore(y + 1, 1) = 0 /\ MonthDays(y + 1, 1) \in 28 .. 31
    BY <2>3, MonthLength, FirstMonth
  <2>5. IsDate(y + 1, 1, 1)
    BY <2>3, <2>4 DEF IsDate
  <2>6. DayNumber(y + 1, 1, 1) = Y + 365 + LeapDay(y) + 0 + (1 - 1)
    BY <2>1, <2>4 DEF DayNumber
  <2>7. DbTimeAddOneDay(DbTime(y, m, d, k)) = DbTime(y + 1, 1, 1, k)
    BY <1>6, OneDay
  <2> HIDE DEF L, D, Y
  <2>8. DayNumber(y + 1, 1, 1) = DayNumber(y, m, d) + 1
    BY <1>1, <1>2, <1>3, <1>6, <2>2, <2>6
  <2> QED
    BY <2>5, <2>7, <2>8
<1>7. d < L \/ (d = L /\ m < 12) \/ (d = L /\ m = 12)
  BY <1>1
<1> QED
  BY <1>4, <1>5, <1>6, <1>7

\* A utime_t ends in 2068.
LEMMA LastYear ==
    ASSUME NEW y, NEW m, NEW d, IsDate(y, m, d), DayNumber(y, m, d) <= 24854
    PROVE  y \in 0 .. 68
<1>1. y \in Nat
  BY DEF IsDate
<1>2. DaysBeforeYear(y) <= DayNumber(y, m, d) /\ DayNumber(y, m, d) \in Nat
  BY DayInYear
<1>3. DaysBeforeYear(y) >= 365 * y /\ DaysBeforeYear(y) \in Nat
  BY <1>1 DEF DaysBeforeYear
<1> QED
  BY <1>1, <1>2, <1>3

\* The walk of dbtime.c has the number of the day.
WalkInv ==
    /\ n \in 0 .. MaxDay
    /\ date = DbTime(date.year, date.month, date.day, 0)
    /\ IsDate(date.year, date.month, date.day)
    /\ DayNumber(date.year, date.month, date.day) = n

LEMMA WalkInit == DaysInit => WalkInv
<1> SUFFICES ASSUME DaysInit PROVE WalkInv
  OBVIOUS
<1>1. PICK k \in 0 .. MaxDay \div 5844 : n = 5844 * k /\ date = DbTime(16 * k, 1, 1, 0)
  BY DEF DaysInit
<1>2. k \in Nat /\ 5844 * k <= MaxDay
  BY MaxDayAssumption
<1>3. date.year = 16 * k /\ date.month = 1 /\ date.day = 1 /\ date = DbTime(date.year, date.month, date.day, 0)
  BY <1>1 DEF DbTime
<1> DEFINE y == 16 * k
<1>4. y \in Nat /\ 1 \in 1 .. 12
  BY <1>2
<1> HIDE DEF y
<1>a. DaysBefore(y, 1) = 0
  BY <1>4, FirstMonth
<1>b. MonthDays(y, 1) \in 28 .. 31
  BY <1>4, MonthLength
<1> USE DEF y
<1>5. DaysBefore(16 * k, 1) = 0 /\ MonthDays(16 * k, 1) \in 28 .. 31
  BY <1>a, <1>b
<1>6. IsDate(16 * k, 1, 1)
  BY <1>4, <1>5 DEF IsDate
<1>7. DaysBeforeYear(16 * k) = 5844 * k
  <2>1. k = 0 \/ ((16 * k - 1) \div 4) + 1 = 4 * k
    BY <1>2
  <2> QED
    BY <1>2, <2>1 DEF DaysBeforeYear
<1>8. DayNumber(16 * k, 1, 1) = 5844 * k
  BY <1>2, <1>5, <1>7 DEF DayNumber
<1>9. n \in 0 .. MaxDay
  BY <1>1, <1>2, MaxDayAssumption
<1> QED
  BY <1>1, <1>3, <1>6, <1>8, <1>9 DEF WalkInv

LEMMA WalkStep == WalkInv /\ [DaysNext]_dayVars => WalkInv'
<1> SUFFICES ASSUME WalkInv, [DaysNext]_dayVars PROVE WalkInv'
  OBVIOUS
<1>1. CASE UNCHANGED dayVars
  BY <1>1 DEF WalkInv, dayVars
<1>2. CASE DaysNext
  <2> DEFINE y == date.year
             m == date.month
             d == date.day
  <2>1. n < MaxDay /\ n' = n + 1 /\ date' = DbTimeAddOneDay(date)
    BY <1>2 DEF DaysNext
  <2>2. date = DbTime(y, m, d, 0) /\ IsDate(y, m, d) /\ DayNumber(y, m, d) = n /\ n \in 0 .. MaxDay
    BY DEF WalkInv
  <2> HIDE DEF y, m, d
  <2>3. y \in 0 .. 68
    BY <2>2, LastYear, MaxDayAssumption
  <2>4. y \in 0 .. 254 /\ m \in 1 .. 12 /\ d \in 1 .. MonthDays(y, m)
    BY <2>2, <2>3 DEF IsDate
  <2>5. \A k : \E y2, m2, d2 :
            /\ DbTimeAddOneDay(DbTime(y, m, d, k)) = DbTime(y2, m2, d2, k)
            /\ IsDate(y2, m2, d2) /\ DayNumber(y2, m2, d2) = DayNumber(y, m, d) + 1
    BY <2>4, NextDayNumber, Zenon
  <2>5a. PICK y2, m2, d2 :
            /\ DbTimeAddOneDay(DbTime(y, m, d, 0)) = DbTime(y2, m2, d2, 0)
            /\ IsDate(y2, m2, d2) /\ DayNumber(y2, m2, d2) = DayNumber(y, m, d) + 1
    BY <2>5, Zenon
  <2>6. date' = DbTime(y2, m2, d2, 0)
    BY <2>1, <2>2, <2>5a
  <2>7. date'.year = y2 /\ date'.month = m2 /\ date'.day = d2
    BY <2>6 DEF DbTime
  <2>8. n' \in 0 .. MaxDay /\ DayNumber(y2, m2, d2) = n'
    BY <2>1, <2>2, <2>5a, MaxDayAssumption
  <2> QED
    BY <2>5a, <2>6, <2>7, <2>8 DEF WalkInv
<1> QED
  BY <1>1, <1>2

(***************************************************************************)
(* Induction, from the least element of a set of numbers.                  *)
(***************************************************************************)
LEMMA LeastOf ==
    ASSUME NEW T, T \subseteq Nat, T # {}
    PROVE  \E x \in T : \A y \in T : x <= y
<1> DEFINE R == OpToRel(<, Nat)
<1>1. IsWellFoundedOn(R, Nat)
  BY NatLessThanWellFounded
<1>2. \A x, y \in Nat : y < x => <<y, x>> \in R
  BY DEF OpToRel
<1> HIDE DEF R
<1>3. PICK x \in T : \A y \in T : ~(<<y, x>> \in R)
  BY <1>1, WFMin
<1>4. \A y \in T : ~(y < x)
  BY <1>2, <1>3
<1> QED
  BY <1>3, <1>4

LEMMA UpTo ==
    ASSUME NEW k \in Nat, NEW S, 0 \in S, \A i \in 0 .. k - 1 : i \in S => i + 1 \in S
    PROVE  \A i \in 0 .. k : i \in S
<1> DEFINE T == {i \in 0 .. k : i \notin S}
<1> SUFFICES ASSUME T # {} PROVE FALSE
  OBVIOUS
<1>1. PICK x \in T : \A y \in T : x <= y
  <2>1. T \subseteq Nat
    OBVIOUS
  <2> HIDE DEF T
  <2> QED
    BY <2>1, LeastOf
<1>2. x \in 1 .. k /\ x - 1 \in 0 .. k - 1 /\ (x - 1) + 1 = x
  BY <1>1
<1>3. x - 1 \in S
  BY <1>1, <1>2
<1> QED
  BY <1>1, <1>2, <1>3

(***************************************************************************)
(* Months.                                                                 *)
(***************************************************************************)
LEMMA NextMonthNumber ==
    ASSUME NEW y \in Nat, NEW m \in 1 .. 12
    PROVE  /\ m < 12 => DayNumber(y, m + 1, 1) = DayNumber(y, m, 1) + MonthDays(y, m)
           /\ m = 12 => DayNumber(y + 1, 1, 1) = DayNumber(y, m, 1) + MonthDays(y, m)
           /\ DayNumber(y, m, 1) \in Nat /\ IsDate(y, m, 1) /\ MonthDays(y, m) \in 28 .. 31
<1> DEFINE L == MonthDays(y, m)
           D == DaysBefore(y, m)
           Y == DaysBeforeYear(y)
<1>1. L \in 28 .. 31 /\ D \in Nat
  BY MonthLength
<1>2. Y \in Nat
  BY YearLengths
<1>3. DayNumber(y, m, 1) = Y + D + (1 - 1)
  BY DEF DayNumber
<1>4. IsDate(y, m, 1)
  BY <1>1 DEF IsDate
<1>5. ASSUME m < 12 PROVE DayNumber(y, m + 1, 1) = DayNumber(y, m, 1) + L
  <2>1. m \in 1 .. 11
    BY <1>5
  <2>2. DaysBefore(y, m + 1) = D + L
    BY <2>1, MonthLengths
  <2>3. DayNumber(y, m + 1, 1) = Y + (D + L) + (1 - 1)
    BY <2>2 DEF DayNumber
  <2> HIDE DEF L, D, Y
  <2> QED
    BY <1>1, <1>2, <1>3, <2>3
<1>6. ASSUME m = 12 PROVE DayNumber(y + 1, 1, 1) = DayNumber(y, m, 1) + L
  <2>1. DaysBeforeYear(y + 1) = Y + 365 + LeapDay(y)
    BY YearLengths
  <2>2. D + L = 365 + LeapDay(y) /\ LeapDay(y) \in Nat
    <3>1. DaysBefore(y, 12) + MonthDays(y, 12) = 365 + LeapDay(y)
      BY MonthLengths
    <3> QED
      BY <1>6, <3>1 DEF LeapDay
  <2>3. y + 1 \in Nat
    OBVIOUS
  <2>4. DaysBefore(y + 1, 1) = 0
    BY <2>3, FirstMonth
  <2>5. DayNumber(y + 1, 1, 1) = Y + 365 + LeapDay(y) + 0 + (1 - 1)
    BY <2>1, <2>4 DEF DayNumber
  <2> HIDE DEF L, D, Y
  <2> QED
    BY <1>1, <1>2, <1>3, <2>2, <2>5
<1>7. DayNumber(y, m, 1) \in Nat
  BY <1>1, <1>2, <1>3
<1> QED
  BY <1>1, <1>4, <1>5, <1>6, <1>7

\* The month i months after month m of year y.
YearAfter(y, m, i) == y + ((m - 1 + i) \div 12)
MonthAfter(m, i) == ((m - 1 + i) % 12) + 1

MonthsFollow(y, m, i) ==
    /\ YearAfter(y, m, i) \in Nat /\ MonthAfter(m, i) \in 1 .. 12
    /\ MonthAfter(m, i) < 12 =>
           YearAfter(y, m, i + 1) = YearAfter(y, m, i) /\ MonthAfter(m, i + 1) = MonthAfter(m, i) + 1
    /\ MonthAfter(m, i) = 12 =>
           YearAfter(y, m, i + 1) = YearAfter(y, m, i) + 1 /\ MonthAfter(m, i + 1) = 1

LEMMA AfterZero ==
    ASSUME NEW y \in Nat, NEW m \in 1 .. 12
    PROVE  YearAfter(y, m, 0) = y /\ MonthAfter(m, 0) = m
<1>1. (m - 1 + 0) \div 12 = 0 /\ (m - 1 + 0) % 12 = m - 1
  OBVIOUS
<1> QED
  BY <1>1 DEF YearAfter, MonthAfter

LEMMA AfterStep ==
    ASSUME NEW y \in Nat, NEW m \in 1 .. 12, NEW i \in Nat
    PROVE  MonthsFollow(y, m, i)
<1> DEFINE a == m - 1 + i
<1>1. a \in Nat /\ m - 1 + (i + 1) = a + 1
  OBVIOUS
<1>2. /\ (a \div 12) \in Nat /\ (a % 12) \in 0 .. 11
      /\ (a % 12) < 11 => ((a + 1) \div 12) = (a \div 12) /\ ((a + 1) % 12) = (a % 12) + 1
      /\ (a % 12) = 11 => ((a + 1) \div 12) = (a \div 12) + 1 /\ ((a + 1) % 12) = 0
  <2> HIDE DEF a
  <2> QED
    BY <1>1
<1>3. /\ YearAfter(y, m, i) = y + (a \div 12) /\ MonthAfter(m, i) = (a % 12) + 1
      /\ YearAfter(y, m, i + 1) = y + ((a + 1) \div 12) /\ MonthAfter(m, i + 1) = ((a + 1) % 12) + 1
  BY <1>1 DEF YearAfter, MonthAfter
<1> HIDE DEF a
<1> QED
  BY <1>1, <1>2, <1>3 DEF MonthsFollow

\* MonthSeconds adds up the months that follow one another.
LEMMA MonthsOn ==
    ASSUME NEW y \in Nat, NEW m \in 1 .. 12, NEW k \in Nat
    PROVE  LET total == DayNumber(YearAfter(y, m, k), MonthAfter(m, k), 1) - DayNumber(y, m, 1)
           IN  /\ MonthSeconds([year |-> y, month |-> m], k) = total * Day
               /\ total \in Nat /\ 28 * k <= total /\ total <= 31 * k
<1> DEFINE r == [year |-> y, month |-> m]
           Y(i) == YearAfter(y, m, i)
           M(i) == MonthAfter(m, i)
           N(i) == DayNumber(Y(i), M(i), 1)
           L(i) == MonthDays(Y(i), M(i))
           Eq1(f) == f = [i \in 0 .. k |-> IF i = 0 THEN r ELSE NextMonth(f[i - 1])]
           from == CHOOSE f : Eq1(f)
           Eq2(f) == f = [i \in 0 .. k |-> IF i = 0 THEN 0
                              ELSE f[i - 1] + MonthDays(from[i - 1].year, from[i - 1].month) * Day]
           sum == CHOOSE f : Eq2(f)
           w1 == [i \in 0 .. k |-> [year |-> Y(i), month |-> M(i)]]
           w2 == [i \in 0 .. k |-> (N(i) - N(0)) * Day]
<1>1. MonthSeconds(r, k) = sum[k]
  BY DEF MonthSeconds
<1>2. /\ Y(0) = y /\ M(0) = m
      /\ \A i \in Nat :
             /\ Y(i) \in Nat /\ M(i) \in 1 .. 12
             /\ M(i) < 12 => Y(i + 1) = Y(i) /\ M(i + 1) = M(i) + 1
             /\ M(i) = 12 => Y(i + 1) = Y(i) + 1 /\ M(i + 1) = 1
  <2>1. Y(0) = y /\ M(0) = m
    BY AfterZero
  <2>2. ASSUME NEW i \in Nat
        PROVE  /\ Y(i) \in Nat /\ M(i) \in 1 .. 12
               /\ M(i) < 12 => Y(i + 1) = Y(i) /\ M(i + 1) = M(i) + 1
               /\ M(i) = 12 => Y(i + 1) = Y(i) + 1 /\ M(i + 1) = 1
    <3>1. MonthsFollow(y, m, i)
      BY AfterStep
    <3> QED
      BY <3>1 DEF MonthsFollow
  <2> HIDE DEF Y, M
  <2> QED
    BY <2>1, <2>2
<1>3. \A i \in Nat : N(i) \in Nat /\ N(i + 1) = N(i) + L(i) /\ L(i) \in 28 .. 31
  <2> TAKE i \in Nat
  <2> DEFINE a == Y(i)
             b == M(i)
  <2>1. a \in Nat /\ b \in 1 .. 12
    BY <1>2
  <2>2. \/ (b < 12 /\ Y(i + 1) = a /\ M(i + 1) = b + 1)
        \/ (b = 12 /\ Y(i + 1) = a + 1 /\ M(i + 1) = 1)
    BY <1>2, <2>1
  <2> HIDE DEF a, b, Y, M
  <2>3. /\ b < 12 => DayNumber(a, b + 1, 1) = DayNumber(a, b, 1) + MonthDays(a, b)
        /\ b = 12 => DayNumber(a + 1, 1, 1) = DayNumber(a, b, 1) + MonthDays(a, b)
        /\ DayNumber(a, b, 1) \in Nat /\ MonthDays(a, b) \in 28 .. 31
    BY <2>1, NextMonthNumber
  <2>4. DayNumber(Y(i + 1), M(i + 1), 1) = DayNumber(a, b, 1) + MonthDays(a, b)
    BY <2>2, <2>3
  <2> QED
    BY <2>3, <2>4 DEF a, b
<1>4. \A i \in Nat : NextMonth([year |-> Y(i), month |-> M(i)]) = [year |-> Y(i + 1), month |-> M(i + 1)]
  <2> TAKE i \in Nat
  <2>1. Y(i) \in Nat /\ M(i) \in 1 .. 12 /\ (M(i) < 12 \/ M(i) = 12)
    BY <1>2
  <2>2. /\ M(i) < 12 => Y(i + 1) = Y(i) /\ M(i + 1) = M(i) + 1
        /\ M(i) = 12 => Y(i + 1) = Y(i) + 1 /\ M(i + 1) = 1
    BY <1>2
  <2> HIDE DEF Y, M
  <2> QED
    BY <2>1, <2>2 DEF NextMonth
<1> HIDE DEF Y, M, N, L
<1>5. Eq1(w1)
  <2>1. \A i \in 0 .. k : w1[i] = IF i = 0 THEN r ELSE NextMonth(w1[i - 1])
    <3> TAKE i \in 0 .. k
    <3>1. CASE i = 0
      BY <1>2, <3>1
    <3>2. CASE i # 0
      <4>1. i - 1 \in 0 .. k /\ i - 1 \in Nat /\ (i - 1) + 1 = i
        BY <3>2
      <4>2. NextMonth([year |-> Y(i - 1), month |-> M(i - 1)]) = [year |-> Y(i), month |-> M(i)]
        BY <1>4, <4>1
      <4> QED
        BY <3>2, <4>1, <4>2
    <3> QED
      BY <3>1, <3>2
  <2>2. w1 = [i \in 0 .. k |-> w1[i]]
    OBVIOUS
  <2> HIDE DEF w1
  <2> QED
    BY <2>1, <2>2
<1>6. Eq1(from)
  <2>1. \E f : Eq1(f)
    BY <1>5
  <2> HIDE DEF Eq1
  <2> QED
    BY <2>1
<1> HIDE DEF from
<1>7. \A i \in 0 .. k : from[i] = w1[i]
  <2> DEFINE S == {i \in 0 .. k : from[i] = w1[i]}
  <2>1. from[0] = w1[0]
    BY <1>2, <1>6
  <2>2. \A i \in 0 .. k - 1 : i \in S => i + 1 \in S
    <3> SUFFICES ASSUME NEW i \in 0 .. k - 1, from[i] = w1[i] PROVE from[i + 1] = w1[i + 1]
      OBVIOUS
    <3>1. i \in 0 .. k /\ i + 1 \in 0 .. k /\ i + 1 # 0 /\ (i + 1) - 1 = i
      OBVIOUS
    <3>2. from[i + 1] = NextMonth(from[i])
      BY <1>6, <3>1
    <3>3. w1[i + 1] = NextMonth(w1[i])
      BY <1>5, <3>1
    <3> QED
      BY <3>2, <3>3
  <2>3. 0 \in S
    BY <2>1
  <2> HIDE DEF S
  <2>4. \A i \in 0 .. k : i \in S
    BY <2>2, <2>3, UpTo
  <2> QED
    BY <2>4 DEF S
<1>8. \A i \in 0 .. k : MonthDays(from[i].year, from[i].month) = L(i)
  <2> TAKE i \in 0 .. k
  <2>1. from[i] = [year |-> Y(i), month |-> M(i)]
    BY <1>7
  <2>2. from[i].year = Y(i) /\ from[i].month = M(i)
    BY <2>1
  <2> QED
    BY <2>2 DEF L
<1> HIDE DEF w1, Eq1
<1>9. Eq2(w2)
  <2>1. \A i \in 0 .. k : w2[i] = IF i = 0 THEN 0 ELSE w2[i - 1] + MonthDays(from[i - 1].year, from[i - 1].month) * Day
    <3> TAKE i \in 0 .. k
    <3>1. CASE i = 0
      BY <1>3, <3>1 DEF Day
    <3>2. CASE i # 0
      <4>1. i - 1 \in 0 .. k /\ i - 1 \in Nat /\ (i - 1) + 1 = i
        BY <3>2
      <4>2. N(i) = N(i - 1) + L(i - 1) /\ N(i - 1) \in Nat /\ L(i - 1) \in 28 .. 31 /\ N(0) \in Nat
        BY <1>3, <4>1
      <4>3. w2[i] = (N(i) - N(0)) * Day /\ w2[i - 1] = (N(i - 1) - N(0)) * Day
        BY <4>1
      <4>4. MonthDays(from[i - 1].year, from[i - 1].month) = L(i - 1)
        BY <1>8, <4>1
      <4>5. (N(i) - N(0)) * Day = (N(i - 1) - N(0)) * Day + L(i - 1) * Day
        BY <4>2 DEF Day
      <4> QED
        BY <3>2, <4>3, <4>4, <4>5
    <3> QED
      BY <3>1, <3>2
  <2>2. w2 = [i \in 0 .. k |-> w2[i]]
    OBVIOUS
  <2> HIDE DEF w2
  <2> QED
    BY <2>1, <2>2
<1>10. Eq2(sum)
  <2>1. \E f : Eq2(f)
    BY <1>9
  <2> HIDE DEF Eq2
  <2> QED
    BY <2>1
<1>a. w2[k] = (N(k) - N(0)) * Day
  OBVIOUS
<1> HIDE DEF sum, w2
<1>11. \A i \in 0 .. k : sum[i] = w2[i]
  <2> DEFINE S == {i \in 0 .. k : sum[i] = w2[i]}
  <2>1. sum[0] = w2[0]
    BY <1>9, <1>10
  <2>2. \A i \in 0 .. k - 1 : i \in S => i + 1 \in S
    <3> SUFFICES ASSUME NEW i \in 0 .. k - 1, sum[i] = w2[i] PROVE sum[i + 1] = w2[i + 1]
      OBVIOUS
    <3>1. i \in 0 .. k /\ i + 1 \in 0 .. k /\ i + 1 # 0 /\ (i + 1) - 1 = i
      OBVIOUS
    <3> DEFINE l == MonthDays(from[i].year, from[i].month) * Day
    <3>2. sum[i + 1] = sum[i] + l
      BY <1>10, <3>1
    <3>3. w2[i + 1] = w2[i] + l
      BY <1>9, <3>1
    <3> QED
      BY <3>2, <3>3
  <2>3. 0 \in S
    BY <2>1
  <2> HIDE DEF S
  <2>4. \A i \in 0 .. k : i \in S
    BY <2>2, <2>3, UpTo
  <2> QED
    BY <2>4 DEF S
<1>12. sum[k] = (N(k) - N(0)) * Day
  BY <1>11, <1>a
<1>13. N(k) - N(0) \in Nat /\ 28 * k <= N(k) - N(0) /\ N(k) - N(0) <= 31 * k
  <2> DEFINE S == {i \in Nat : 28 * i <= N(i) - N(0) /\ N(i) - N(0) <= 31 * i}
  <2>1. 0 \in S
    BY <1>3
  <2>2. \A i \in 0 .. k - 1 : i \in S => i + 1 \in S
    <3> SUFFICES ASSUME NEW i \in 0 .. k - 1, i \in S PROVE i + 1 \in S
      OBVIOUS
    <3>1. i \in Nat /\ i + 1 \in Nat /\ N(i + 1) = N(i) + L(i) /\ L(i) \in 28 .. 31 /\ N(i) \in Nat /\ N(0) \in Nat
      BY <1>3
    <3> QED
      BY <3>1
  <2> HIDE DEF S
  <2>3. k \in S
    <3>1. \A i \in 0 .. k : i \in S
      BY <2>1, <2>2, UpTo
    <3> QED
      BY <3>1
  <2>4. N(k) \in Nat /\ N(0) \in Nat
    BY <1>3
  <2> QED
    BY <2>3, <2>4 DEF S
<1>14. N(0) = DayNumber(y, m, 1)
  BY <1>2 DEF N
<1> QED
  BY <1>1, <1>12, <1>13, <1>14 DEF N, Y, M

\* UTimeAdd by its units.
LEMMA UTimeAddUnits ==
    ASSUME NEW u, NEW k
    PROVE  /\ UTimeAdd(u, "minute", k) = u + 60 * k
           /\ UTimeAdd(u, "hour", k) = u + 3600 * k
           /\ UTimeAdd(u, "day", k) = u + Day * k
           /\ UTimeAdd(u, "month", k) =
                  u + MonthSeconds([year |-> UTimeToSysClock(u).year, month |-> UTimeToSysClock(u).month], k)
<1>1. UTimeAdd(u, "minute", k) = u + 60 * k
  BY DEF UTimeAdd
<1>2. UTimeAdd(u, "hour", k) = u + 3600 * k
  BY DEF UTimeAdd
<1>3. UTimeAdd(u, "day", k) = u + Day * k
  BY DEF UTimeAdd
<1>4. UTimeAdd(u, "month", k) =
          u + MonthSeconds([year |-> UTimeToSysClock(u).year, month |-> UTimeToSysClock(u).month], k)
  BY DEF UTimeAdd
<1> QED
  BY <1>1, <1>2, <1>3, <1>4

\* From a day to the same day of another month.
LEMMA SameDayOn ==
    ASSUME NEW u \in Nat, NEW k \in Nat
    PROVE  LET c == UTimeToSysClock(u)
               total == DayNumber(YearAfter(c.year, c.month, k), MonthAfter(c.month, k), 1)
                        - DayNumber(c.year, c.month, 1)
           IN  /\ UTimeAdd(u, "month", k) = u + total * Day
               /\ total \in Nat /\ 28 * k <= total /\ total <= 31 * k
<1> DEFINE y == UTimeToSysClock(u).year
           m == UTimeToSysClock(u).month
           total == DayNumber(YearAfter(y, m, k), MonthAfter(m, k), 1) - DayNumber(y, m, 1)
<1>1. y \in Nat /\ m \in 1 .. 12
  BY ClockFacts
<1>2. UTimeAdd(u, "month", k) = u + MonthSeconds([year |-> y, month |-> m], k)
  BY UTimeAddUnits
<1> HIDE DEF y, m
<1>3. /\ MonthSeconds([year |-> y, month |-> m], k) = total * Day
      /\ total \in Nat /\ 28 * k <= total /\ total <= 31 * k
  BY <1>1, MonthsOn
<1> HIDE DEF total
<1>4. UTimeAdd(u, "month", k) = u + total * Day
  BY <1>2, <1>3
<1> QED
  BY <1>3, <1>4 DEF total, y, m

\* The same months by dbtime.c.
DbMonthsAdded(t, k) ==
    LET step[i \in 0 .. k] == IF i = 0 THEN t ELSE DbTimeAddOneMonth(step[i - 1]) IN step[k]

DbMonthsAgree(y, m, d, k) ==
    DbMonthsAdded(DbTime(y, m, d, 0), k) = DbTime(YearAfter(y, m, k), MonthAfter(m, k), d, 0)

LEMMA DbMonthsOn ==
    ASSUME NEW y \in 0 .. 68, NEW m \in 1 .. 12, NEW d \in Nat, NEW k \in 0 .. 1000
    PROVE  DbMonthsAgree(y, m, d, k)
<1> DEFINE Y(i) == YearAfter(y, m, i)
           M(i) == MonthAfter(m, i)
           Eq(f) == f = [i \in 0 .. k |-> IF i = 0 THEN DbTime(y, m, d, 0) ELSE DbTimeAddOneMonth(f[i - 1])]
           step == CHOOSE f : Eq(f)
           w == [i \in 0 .. k |-> DbTime(Y(i), M(i), d, 0)]
<1>1. y \in Nat
  OBVIOUS
<1>2. Y(0) = y /\ M(0) = m
  BY <1>1, AfterZero
<1>3. ASSUME NEW i \in Nat
      PROVE  /\ Y(i) \in Nat /\ M(i) \in 1 .. 12
             /\ M(i) < 12 => Y(i + 1) = Y(i) /\ M(i + 1) = M(i) + 1
             /\ M(i) = 12 => Y(i + 1) = Y(i) + 1 /\ M(i + 1) = 1
  <2>1. MonthsFollow(y, m, i)
    BY <1>1, AfterStep
  <2> QED
    BY <2>1 DEF MonthsFollow
<1>4. ASSUME NEW i \in 0 .. k PROVE Y(i) \in 0 .. 254
  <2>1. m - 1 + i \in 0 .. 1011
    BY <1>4
  <2> DEFINE a == m - 1 + i
  <2>2. (a \div 12) \in 0 .. 84
    <3>1. a \in 0 .. 1011
      BY <2>1
    <3> HIDE DEF a
    <3> QED
      BY <3>1
  <2>3. Y(i) = y + (a \div 12)
    BY DEF YearAfter
  <2> HIDE DEF a
  <2> QED
    BY <2>2, <2>3
<1> HIDE DEF Y, M
<1>5. \A i \in 0 .. k : DbTimeAddOneMonth(DbTime(Y(i), M(i), d, 0)) = DbTime(Y(i + 1), M(i + 1), d, 0)
  <2> TAKE i \in 0 .. k
  <2> DEFINE a == Y(i)
             b == M(i)
  <2>1. i \in Nat
    OBVIOUS
  <2>2. a \in 0 .. 254 /\ b \in 1 .. 12
    BY <1>3, <1>4, <2>1
  <2>3. \/ (b < 12 /\ Y(i + 1) = a /\ M(i + 1) = b + 1)
        \/ (b = 12 /\ Y(i + 1) = a + 1 /\ M(i + 1) = 1)
    BY <1>3, <2>1, <2>2
  <2> HIDE DEF a, b
  <2>4. /\ b < 12 => DbTimeAddOneMonth(DbTime(a, b, d, 0)) = DbTime(a, b + 1, d, 0)
        /\ b = 12 => DbTimeAddOneMonth(DbTime(a, b, d, 0)) = DbTime(a + 1, 1, d, 0)
    BY <2>2, OneMonth
  <2>5. DbTimeAddOneMonth(DbTime(a, b, d, 0)) = DbTime(Y(i + 1), M(i + 1), d, 0)
    BY <2>3, <2>4
  <2> QED
    BY <2>5 DEF a, b
<1>6. Eq(w)
  <2>1. \A i \in 0 .. k : w[i] = IF i = 0 THEN DbTime(y, m, d, 0) ELSE DbTimeAddOneMonth(w[i - 1])
    <3> TAKE i \in 0 .. k
    <3>1. CASE i = 0
      BY <1>2, <3>1
    <3>2. CASE i # 0
      <4>1. i - 1 \in 0 .. k /\ (i - 1) + 1 = i
        BY <3>2
      <4>2. DbTimeAddOneMonth(DbTime(Y(i - 1), M(i - 1), d, 0)) = DbTime(Y(i), M(i), d, 0)
        BY <1>5, <4>1
      <4> QED
        BY <3>2, <4>1, <4>2
    <3> QED
      BY <3>1, <3>2
  <2>2. w = [i \in 0 .. k |-> w[i]]
    OBVIOUS
  <2> HIDE DEF w
  <2> QED
    BY <2>1, <2>2
<1>7. Eq(step)
  <2>1. \E f : Eq(f)
    BY <1>6
  <2> HIDE DEF Eq
  <2> QED
    BY <2>1
<1>8. w[k] = DbTime(Y(k), M(k), d, 0)
  OBVIOUS
<1>9. DbMonthsAdded(DbTime(y, m, d, 0), k) = step[k]
  BY DEF DbMonthsAdded
<1> HIDE DEF step, w
<1>10. \A i \in 0 .. k : step[i] = w[i]
  <2> DEFINE S == {i \in 0 .. k : step[i] = w[i]}
  <2>1. step[0] = w[0]
    BY <1>6, <1>7
  <2>2. \A i \in 0 .. k - 1 : i \in S => i + 1 \in S
    <3> SUFFICES ASSUME NEW i \in 0 .. k - 1, step[i] = w[i] PROVE step[i + 1] = w[i + 1]
      OBVIOUS
    <3>1. i \in 0 .. k /\ i + 1 \in 0 .. k /\ i + 1 # 0 /\ (i + 1) - 1 = i
      OBVIOUS
    <3>2. step[i + 1] = DbTimeAddOneMonth(step[i])
      BY <1>7, <3>1
    <3>3. w[i + 1] = DbTimeAddOneMonth(w[i])
      BY <1>6, <3>1
    <3> QED
      BY <3>2, <3>3
  <2>3. 0 \in S /\ k \in Nat
    BY <2>1
  <2> HIDE DEF S
  <2>4. \A i \in 0 .. k : i \in S
    BY <2>2, <2>3, UpTo
  <2> QED
    BY <2>4 DEF S
<1>11. step[k] = DbTime(Y(k), M(k), d, 0)
  BY <1>8, <1>10
<1> QED
  BY <1>9, <1>11 DEF Y, M, DbMonthsAgree

\* A day on and back, a month on and back, and a quarter of an hour into the next day.
LEMMA StepsCarry == WalkInv => DbTimeSteps
<1> SUFFICES ASSUME WalkInv PROVE DbTimeSteps
  OBVIOUS
<1> DEFINE y == date.year
           m == date.month
           d == date.day
           L == MonthDays(y, m)
<1>1. date = DbTime(y, m, d, 0) /\ IsDate(y, m, d) /\ DayNumber(y, m, d) = n /\ n \in 0 .. MaxDay
  BY DEF WalkInv
<1> HIDE DEF y, m, d
<1>2. y \in 0 .. 68
  BY <1>1, LastYear, MaxDayAssumption
<1>3. y \in Nat /\ y \in 0 .. 254 /\ m \in 1 .. 12 /\ d \in 1 .. L
  BY <1>1, <1>2 DEF IsDate
<1>4. L \in 28 .. 31
  BY <1>3, MonthLength
<1> HIDE DEF L
<1>5. DbTimeSubOneMonth(DbTimeAddOneMonth(DbTime(y, m, d, 0))) = DbTime(y, m, d, 0)
  <2>1. CASE m < 12
    <3>1. DbTimeAddOneMonth(DbTime(y, m, d, 0)) = DbTime(y, m + 1, d, 0)
      BY <1>3, <2>1, OneMonth
    <3>2. m + 1 \in 1 .. 12 /\ m + 1 > 1 /\ (m + 1) - 1 = m
      BY <1>3, <2>1
    <3>3. DbTimeSubOneMonth(DbTime(y, m + 1, d, 0)) = DbTime(y, (m + 1) - 1, d, 0)
      BY <1>3, <3>2, OneMonth
    <3> QED
      BY <3>1, <3>2, <3>3
  <2>2. CASE m = 12
    <3>1. DbTimeAddOneMonth(DbTime(y, m, d, 0)) = DbTime(y + 1, 1, d, 0)
      BY <1>3, <2>2, OneMonth
    <3>2. DbTimeSubOneMonth(DbTime(y + 1, 1, d, 0)) = DbTime(y, 12, d, 0)
      BY <1>3, OneMonth
    <3> QED
      BY <2>2, <3>1, <3>2
  <2> QED
    BY <1>3, <2>1, <2>2
<1>6. d < L \/ (d = L /\ m < 12) \/ (d = L /\ m = 12)
  BY <1>3, <1>4
<1>7. DbTimeSubOneDay(DbTimeAddOneDay(DbTime(y, m, d, 0))) = DbTime(y, m, d, 0)
  <2>1. CASE d < L
    <3>1. DbTimeAddOneDay(DbTime(y, m, d, 0)) = DbTime(y, m, d + 1, 0)
      BY <1>3, <2>1, OneDay DEF L
    <3>2. d + 1 > 1 /\ (d + 1) - 1 = d
      BY <1>3, <1>4
    <3>3. DbTimeSubOneDay(DbTime(y, m, d + 1, 0)) = DbTime(y, m, d, 0)
      BY <3>2 DEF DbTimeSubOneDay, DbTime
    <3> QED
      BY <3>1, <3>3
  <2>2. CASE d = L /\ m < 12
    <3>1. DbTimeAddOneDay(DbTime(y, m, d, 0)) = DbTime(y, m + 1, 1, 0)
      BY <1>3, <2>2, OneDay DEF L
    <3>2. m + 1 \in 1 .. 12 /\ m + 1 > 1 /\ (m + 1) - 1 = m
      BY <1>3, <2>2
    <3>3. DbTimeSubOneMonth(DbTime(y, m + 1, 1, 0)) = DbTime(y, (m + 1) - 1, 1, 0)
      BY <1>3, <3>2, OneMonth
    <3>4. MaxDays(DbTime(y, m, 1, 0)) = L
      BY <1>3, MaxDaysIsMonthDays DEF L
    <3>5. DbTime(y, m + 1, 1, 0).day = 1 /\ [DbTime(y, m, 1, 0) EXCEPT !.day = L] = DbTime(y, m, L, 0)
      BY DEF DbTime
    <3>6. DbTimeSubOneDay(DbTime(y, m + 1, 1, 0)) = DbTime(y, m, L, 0)
      BY <3>2, <3>3, <3>4, <3>5 DEF DbTimeSubOneDay
    <3> QED
      BY <2>2, <3>1, <3>6
  <2>3. CASE d = L /\ m = 12
    <3>1. DbTimeAddOneDay(DbTime(y, m, d, 0)) = DbTime(y + 1, 1, 1, 0)
      BY <1>3, <2>3, OneDay DEF L
    <3>2. DbTimeSubOneMonth(DbTime(y + 1, 1, 1, 0)) = DbTime(y, m, 1, 0)
      BY <1>3, <2>3, OneMonth
    <3>3. MaxDays(DbTime(y, m, 1, 0)) = L
      BY <1>3, MaxDaysIsMonthDays DEF L
    <3>4. DbTime(y + 1, 1, 1, 0).day = 1 /\ [DbTime(y, m, 1, 0) EXCEPT !.day = L] = DbTime(y, m, L, 0)
      BY DEF DbTime
    <3>5. DbTimeSubOneDay(DbTime(y + 1, 1, 1, 0)) = DbTime(y, m, L, 0)
      BY <3>2, <3>3, <3>4 DEF DbTimeSubOneDay
    <3> QED
      BY <2>3, <3>1, <3>5
  <2> QED
    BY <1>6, <2>1, <2>2, <2>3
<1>8. DbTimeAddOneTick([DbTime(y, m, d, 0) EXCEPT !.tick = 95]) = DbTimeAddOneDay(DbTime(y, m, d, 0))
  <2>1. [DbTime(y, m, d, 0) EXCEPT !.tick = 95] = DbTime(y, m, d, 95)
    BY DEF DbTime
  <2>2. [DbTime(y, m, d, 95) EXCEPT !.tick = 0] = DbTime(y, m, d, 0) /\ DbTime(y, m, d, 95).tick = 95
    BY DEF DbTime
  <2>3. DbTimeAddOneTick(DbTime(y, m, d, 95)) = DbTimeAddOneDay(DbTime(y, m, d, 0))
    BY <2>2 DEF DbTimeAddOneTick
  <2> QED
    BY <2>1, <2>3
<1> QED
  BY <1>1, <1>5, <1>7, <1>8 DEF DbTimeSteps

LEMMA MonthsKeep == WalkInv => MonthsKeepTheDay
<1> USE DEF MonthsKeepTheDay
<1> HAVE WalkInv
<1> HAVE n + 400 <= MaxDay /\ date.day <= 28
<1> TAKE k \in {1, 2, 12, 13}
<1> HIDE DEF MonthsKeepTheDay
<1> DEFINE y == date.year
           m == date.month
           d == date.day
           u == n * Day + 3661
           Y == YearAfter(y, m, k)
           M == MonthAfter(m, k)
<1>1. date = DbTime(y, m, d, 0) /\ IsDate(y, m, d) /\ DayNumber(y, m, d) = n /\ n \in 0 .. MaxDay /\ d <= 28
  BY DEF WalkInv
<1> HIDE DEF y, m, d
<1>2. y \in 0 .. 68
  BY <1>1, LastYear, MaxDayAssumption
<1>3. y \in Nat /\ m \in 1 .. 12 /\ d \in 1 .. MonthDays(y, m)
  BY <1>1, <1>2 DEF IsDate
<1>4. k \in Nat /\ k \in 0 .. 1000
  OBVIOUS
<1>5. d \in 1 .. 28 /\ n \in Nat
  <2>1. MonthDays(y, m) \in 28 .. 31
    BY <1>3, MonthLength
  <2> QED
    BY <1>1, <1>3, <2>1, MaxDayAssumption
<1>6. DbMonthsAdded(date, k) = DbTime(Y, M, d, 0)
  <2>1. DbMonthsAdded(DbTime(y, m, d, 0), k) = DbTime(Y, M, d, 0)
    <3>1. y \in 0 .. 68
      BY <1>2
    <3>2. m \in 1 .. 12
      BY <1>3
    <3>3. k \in 0 .. 1000
      BY <1>4
    <3>4. d \in Nat
      BY <1>5
    <3>5. \A a \in 0 .. 68, b \in 1 .. 12, e \in Nat, j \in 0 .. 1000 : DbMonthsAgree(a, b, e, j)
      BY DbMonthsOn
    <3>6. DbMonthsAgree(y, m, d, k)
      BY ONLY <3>1, <3>2, <3>3, <3>4, <3>5, ZenonT(60)
    <3> QED
      BY <3>6 DEF DbMonthsAgree
  <2> QED
    BY <1>1, <2>1
<1>7. Y \in Nat /\ M \in 1 .. 12
  <2>1. MonthsFollow(y, m, k)
    BY <1>3, <1>4, AfterStep
  <2> QED
    BY <2>1 DEF MonthsFollow
<1>8. u \in Nat /\ u \div Day = n
  BY <1>5 DEF Day
<1>9. UTimeToSysClock(u).year = y /\ UTimeToSysClock(u).month = m
  <2> HIDE DEF u
  <2> QED
    BY <1>1, <1>8, DateOf
<1> DEFINE a == DayNumber(Y, M, 1)
           b == DayNumber(y, m, 1)
<1> HIDE DEF u
<1>10. UTimeAdd(u, "month", k) = u + (a - b) * Day
  <2>1. LET c == UTimeToSysClock(u)
        IN  UTimeAdd(u, "month", k) = u + (DayNumber(YearAfter(c.year, c.month, k), MonthAfter(c.month, k), 1)
                                            - DayNumber(c.year, c.month, 1)) * Day
    BY <1>4, <1>8, SameDayOn
  <2> QED
    BY <1>9, <2>1
<1> HIDE DEF Y, M
<1>11. a \in Nat /\ b \in Nat /\ MonthDays(Y, M) \in 28 .. 31
  BY <1>3, <1>7, NextMonthNumber
<1>12. DayNumber(Y, M, d) = a + (d - 1) /\ n = b + (d - 1)
  <2> DEFINE f1 == DaysBeforeYear(Y)
             g1 == DaysBefore(Y, M)
             f2 == DaysBeforeYear(y)
             g2 == DaysBefore(y, m)
  <2>1. f1 \in Nat /\ g1 \in Nat /\ f2 \in Nat /\ g2 \in Nat
    BY <1>3, <1>7, MonthLength, YearLengths
  <2>2. DayNumber(Y, M, d) = f1 + g1 + (d - 1) /\ a = f1 + g1 + (1 - 1) /\ n = f2 + g2 + (d - 1) /\ b = f2 + g2 + (1 - 1)
    BY <1>1 DEF DayNumber
  <2> HIDE DEF f1, g1, f2, g2, a, b
  <2> QED
    BY <1>5, <2>1, <2>2
<1> HIDE DEF a, b
<1> DEFINE c == DbTimeToSysClock(DbTime(Y, M, d, 0))
<1>13. c.year = Y /\ c.month = M /\ c.day = d /\ c.hour = 0 /\ c.minute = 0 /\ c.second = 0
  <2>1. 0 \div 4 = 0 /\ (0 % 4) * 15 = 0
    OBVIOUS
  <2> QED
    BY <2>1 DEF DbTimeToSysClock, DbTime, SysClock
<1>14. DbTimeToUTime(DbTime(Y, M, d, 0)) = SysClockToUTime(c)
  BY DEF DbTimeToUTime
<1> HIDE DEF c
<1>15. IsDate(c.year, c.month, c.day) /\ c.hour \in Nat /\ c.minute \in Nat /\ c.second \in Nat
  BY <1>5, <1>7, <1>11, <1>13 DEF IsDate
<1>16. SysClockToUTime(c) = Day * DayNumber(Y, M, d) + 3600 * 0 + 60 * 0 + 0
  <2>1. SysClockToUTime(c) = Day * DayNumber(c.year, c.month, c.day) + 3600 * c.hour + 60 * c.minute + c.second
    BY <1>15, SecondsOf
  <2> QED
    BY <1>13, <2>1
<1>17. u + (a - b) * 86400 = 86400 * (a + (d - 1)) + 3600 * 0 + 60 * 0 + 0 + 3661
  BY <1>5, <1>11, <1>12 DEF u, Day
<1>18. UTimeAdd(u, "month", k) = DbTimeToUTime(DbTime(Y, M, d, 0)) + 3661
  BY <1>10, <1>12, <1>14, <1>16, <1>17 DEF Day
<1>19. UTimeAdd(u, "month", k) = DbTimeToUTime(DbMonthsAdded(date, k)) + 3661
  BY <1>6, <1>18
<1> QED
  BY <1>19 DEF u, DbMonthsAdded

\* The quarter of an hour that UTimeToDbTime keeps.
LEMMA QuarterKept ==
    ASSUME NEW u \in Nat
    PROVE  DbTimeToUTime(UTimeToDbTime(u)) = u - (u % 900)
<1> DEFINE c == UTimeToSysClock(u)
           t == UTimeToDbTime(u)
           s == DbTimeToSysClock(t)
           h == (u \div 3600) % 24
           mi == (u \div 60) % 60
           b == u - (u % 900)
<1>1. c.hour = h /\ c.minute = mi
  <2>1. ShowsTime(c, u)
    BY TimeOfDay
  <2> HIDE DEF c
  <2> QED
    BY <2>1 DEF ShowsTime
<1>2. t.year = c.year /\ t.month = c.month /\ t.day = c.day /\ t.tick = c.hour * 4 + (c.minute \div 15)
  BY DEF UTimeToDbTime, SysClockToDbTime, DbTime
<1>3. /\ s.year = t.year /\ s.month = t.month /\ s.day = t.day /\ s.hour = t.tick \div 4
      /\ s.minute = (t.tick % 4) * 15 /\ s.second = 0
  BY DEF DbTimeToSysClock, SysClock
<1>4. h \in 0 .. 23 /\ mi \in 0 .. 59
  OBVIOUS
<1>5. b \in Nat /\ (b \div 60) % 60 = (mi \div 15) * 15 /\ b % 60 = 0 /\ 3600 * (u \div 3600) + (b % 3600) = b
  <2>1. b \in Nat
    OBVIOUS
  <2>2. b % 60 = 0
    OBVIOUS
  <2>3. 3600 * (u \div 3600) + (b % 3600) = b
    OBVIOUS
  <2>4. (b \div 60) % 60 = (mi \div 15) * 15
    OBVIOUS
  <2> QED
    BY <2>1, <2>2, <2>3, <2>4
<1> HIDE DEF h, mi
<1>6. ((h * 4 + (mi \div 15)) \div 4) = h /\ ((h * 4 + (mi \div 15)) % 4) = (mi \div 15)
  BY <1>4
<1> HIDE DEF t, s, b
<1>7. /\ s.year = c.year /\ s.month = c.month /\ s.day = c.day /\ s.hour = c.hour
      /\ s.minute = (mi \div 15) * 15 /\ s.second = 0
  BY <1>1, <1>2, <1>3, <1>6
<1>8. UTimeToSysClock(b).minute = (b \div 60) % 60 /\ UTimeToSysClock(b).second = b % 60
  <2>1. ShowsTime(UTimeToSysClock(b), b)
    BY <1>5, TimeOfDay
  <2> QED
    BY <2>1 DEF ShowsTime
<1>9. s.minute = UTimeToSysClock(b).minute /\ s.second = UTimeToSysClock(b).second
  BY <1>5, <1>7, <1>8
<1>10. SysClockToUTime(s) = 3600 * (u \div 3600) + (b % 3600)
  BY <1>5, <1>7, <1>9, MixedTime
<1>11. DbTimeToUTime(t) = SysClockToUTime(s)
  BY DEF DbTimeToUTime, s
<1> QED
  BY <1>5, <1>10, <1>11 DEF b, t

\* The minutes of the day or of the month that plmdb.c keeps.
LEMMA MinutesKept ==
    ASSUME NEW u \in Nat, NEW month \in BOOLEAN
    PROVE  LET c == UTimeToSysClock(u)
           IN  ReadTimeToClock(c, ClockToReadTime(c, month), month, c.week) = [c EXCEPT !.second = 0]
<1> DEFINE c == UTimeToSysClock(u)
           r == ClockToReadTime(c, month)
           h == c.hour
           mi == c.minute
           d == c.day
<1>1. h \in 0 .. 23 /\ mi \in 0 .. 59
  <2>1. (u \div 3600) % 24 \in 0 .. 23 /\ (u \div 60) % 60 \in 0 .. 59
    OBVIOUS
  <2> QED
    <3>1. ShowsTime(c, u)
      BY TimeOfDay
    <3> HIDE DEF c
    <3> QED
      BY <2>1, <3>1 DEF ShowsTime
<1>2. d \in 1 .. 31
  <2>1. IsDate(c.year, c.month, c.day)
    BY DateFacts
  <2>2. c.year \in Nat /\ c.month \in 1 .. 12 /\ d \in 1 .. MonthDays(c.year, c.month)
    BY <2>1 DEF IsDate
  <2>3. MonthDays(c.year, c.month) \in 28 .. 31
    BY <2>2, MonthLength
  <2> QED
    BY <2>2, <2>3
<1>3. c = SysClock(c.year, c.month, d, h, mi, c.second, c.week)
  <2>1. ShowsTime(c, u)
    BY TimeOfDay
  <2> HIDE DEF c
  <2> QED
    BY <2>1 DEF ShowsTime
<1> HIDE DEF c, d, h, mi
<1>4. [c EXCEPT !.second = 0] = SysClock(c.year, c.month, d, h, mi, 0, c.week)
  <2>1. [SysClock(c.year, c.month, d, h, mi, c.second, c.week) EXCEPT !.second = 0]
        = SysClock(c.year, c.month, d, h, mi, 0, c.week)
    BY DEF SysClock
  <2> QED
    BY <1>3, <2>1
<1>5. r = h * 60 + mi + (IF month THEN (d - 1) * 1440 ELSE 0)
  BY <1>2 DEF ClockToReadTime, h, mi, d
<1>6. ReadTimeToClock(c, r, month, c.week) =
          SysClock(c.year, c.month, IF month THEN ((r \div 60) \div 24) + 1 ELSE d,
                   IF month THEN (r \div 60) % 24 ELSE r \div 60, r % 60, 0, c.week)
  BY DEF ReadTimeToClock, d
<1> HIDE DEF r
<1>7. CASE month
  <2>1. r = h * 60 + mi + (d - 1) * 1440
    BY <1>5, <1>7
  <2>2. r % 60 = mi /\ (r \div 60) = h + 24 * (d - 1)
    BY <1>1, <1>2, <2>1
  <2>3. (h + 24 * (d - 1)) % 24 = h /\ ((h + 24 * (d - 1)) \div 24) + 1 = d
    BY <1>1, <1>2
  <2> QED
    BY <1>4, <1>6, <1>7, <2>2, <2>3 DEF r, c
<1>8. CASE ~month
  <2>1. r = h * 60 + mi + 0
    BY <1>5, <1>8
  <2>2. r % 60 = mi /\ (r \div 60) = h
    BY <1>1, <2>1
  <2> QED
    BY <1>4, <1>6, <1>8, <2>2 DEF r, c
<1> QED
  BY <1>7, <1>8

\* time.c and dbtime.c agree on every day of the walk, whatever its last day: the
\* data base's date, stepped on by its own leap year rule, is the one that
\* UTimeToSysClock gives for the first, some and the last second of the day; week,
\* quarters and minutes survive, a step forth and back returns, and adding months
\* keeps the day.
THEOREM CalendarsAgree == DaysSpec => []CalendarAgrees
<1>1. WalkInv => CalendarAgrees
  <2> SUFFICES ASSUME WalkInv, NEW s \in {0, 15 * 60, Day - 1}
               PROVE  LET u == n * Day + s
                          c == UTimeToSysClock(u)
                      IN  /\ SameDay(c, date)
                          /\ c.week = (6 + n) % 7
                          /\ SysClockToUTime(c) = u
                          /\ DbTimeToUTime(UTimeToDbTime(u)) = u - (u % 900)
                          /\ \A month \in BOOLEAN :
                                 ReadTimeToClock(c, ClockToReadTime(c, month), month, c.week)
                                     = [c EXCEPT !.second = 0]
    BY StepsCarry, MonthsKeep DEF CalendarAgrees
  <2> DEFINE u == n * Day + s
             c == UTimeToSysClock(u)
  <2>1. IsDate(date.year, date.month, date.day) /\ DayNumber(date.year, date.month, date.day) = n /\ n \in Nat
    BY MaxDayAssumption DEF WalkInv
  <2>2. u \in Nat /\ u \div Day = n
    BY <2>1 DEF Day
  <2> HIDE DEF u
  <2>3. SameDay(c, date)
    BY <2>1, <2>2, DateOf DEF SameDay
  <2>4. c.week = (6 + n) % 7
    <3>1. c.week = ((u \div Day) + 6) % 7
      <4>1. ShowsTime(c, u)
        BY <2>2, TimeOfDay
      <4> HIDE DEF c
      <4> QED
        BY <4>1 DEF ShowsTime
    <3> QED
      BY <2>1, <2>2, <3>1
  <2>5. SysClockToUTime(c) = u
    BY <2>2, CalendarRoundTrip
  <2>6. DbTimeToUTime(UTimeToDbTime(u)) = u - (u % 900)
    BY <2>2, QuarterKept
  <2>7. \A month \in BOOLEAN :
            ReadTimeToClock(c, ClockToReadTime(c, month), month, c.week) = [c EXCEPT !.second = 0]
    BY <2>2, MinutesKept
  <2> HIDE DEF c
  <2> QED
    BY <2>3, <2>4, <2>5, <2>6, <2>7 DEF c, u
<1> QED
  BY <1>1, WalkInit, WalkStep, PTL DEF DaysSpec

(***************************************************************************)
(* Codes: the end of a code's time, by the calendar.                       *)
(***************************************************************************)
Qr == INSTANCE QrCode

\* The character codes at places j and j + 1, counted from 0, are the digits of v.
ShowsTwo(m, j, v) == m[j + 1] = 48 + (v \div 10) /\ m[j + 2] = 48 + (v % 10)
ShowsDate(m, j, c) ==
    /\ ShowsTwo(m, j, c.year) /\ ShowsTwo(m, j + 2, c.month) /\ ShowsTwo(m, j + 4, c.day)
    /\ ShowsTwo(m, j + 6, c.hour) /\ ShowsTwo(m, j + 8, c.minute) /\ ShowsTwo(m, j + 10, c.second)
ShowsDevice(m, device) == \A i \in 1 .. 7 : m[39 + i] = 48 + device[i]

LEMMA ReadsTwo ==
    ASSUME NEW m, NEW j \in Nat, NEW v \in 0 .. 99, ShowsTwo(m, j, v)
    PROVE  Qr!TwoDigits(m, j) = v
<1> DEFINE a == v \div 10
           b == v % 10
<1>1. a \in 0 .. 9 /\ b \in 0 .. 9 /\ a * 10 + b = v
  OBVIOUS
<1>2. m[j + 1] = 48 + a /\ m[(j + 1) + 1] = 48 + b
  BY DEF ShowsTwo
<1> HIDE DEF a, b
<1>3. Qr!DigitAt(m, j) = a
  <2>1. Qr!DigitAt(m, j) = (m[j + 1] - 48) % 256
    BY DEF Qr!DigitAt
  <2> QED
    BY <1>1, <1>2, <2>1
<1>4. Qr!DigitAt(m, j + 1) = b
  <2>1. Qr!DigitAt(m, j + 1) = (m[(j + 1) + 1] - 48) % 256
    BY DEF Qr!DigitAt
  <2> QED
    BY <1>1, <1>2, <2>1
<1>5. Qr!TwoDigits(m, j) = (a * 10 + b) % 256
  BY <1>3, <1>4 DEF Qr!TwoDigits
<1> QED
  BY <1>1, <1>5

LEMMA DateBounds ==
    ASSUME NEW y, NEW m, NEW d, IsDate(y, m, d)
    PROVE  m \in 1 .. 12 /\ d \in 1 .. 31
<1>1. y \in Nat /\ m \in 1 .. 12 /\ d \in 1 .. MonthDays(y, m)
  BY DEF IsDate
<1>2. MonthDays(y, m) \in 28 .. 31
  BY <1>1, MonthLengths
<1> QED
  BY <1>1, <1>2

\* The parts of a date that a utime_t holds have two digits.
LEMMA PartsHaveTwoDigits ==
    ASSUME NEW u \in Nat, u \div Day <= 24854
    PROVE  LET c == UTimeToSysClock(u)
           IN  /\ c.year \in 0 .. 99 /\ c.month \in 0 .. 99 /\ c.day \in 0 .. 99
               /\ c.hour \in 0 .. 99 /\ c.minute \in 0 .. 99 /\ c.second \in 0 .. 99
<1> DEFINE c == UTimeToSysClock(u)
<1>1. IsDate(c.year, c.month, c.day) /\ DayNumber(c.year, c.month, c.day) = u \div Day
  BY DateFacts
<1>2. c.hour = (u \div 3600) % 24 /\ c.minute = (u \div 60) % 60 /\ c.second = u % 60
  BY TimeOfDay DEF ShowsTime
<1> HIDE DEF c
<1>3. c.year \in 0 .. 68
  BY <1>1, LastYear
<1>4. c.month \in 1 .. 12 /\ c.day \in 1 .. 31
  BY <1>1, DateBounds
<1>5. c.hour \in 0 .. 23 /\ c.minute \in 0 .. 59 /\ c.second \in 0 .. 59
  BY <1>2
<1>6. /\ c.year \in 0 .. 99 /\ c.month \in 0 .. 99 /\ c.day \in 0 .. 99
      /\ c.hour \in 0 .. 99 /\ c.minute \in 0 .. 99 /\ c.second \in 0 .. 99
  BY <1>3, <1>4, <1>5
<1> QED
  BY <1>6 DEF c

\* Both copies of the calendar are the same function.
LEMMA SameCalendar == \A c : Qr!SysClockToUTime(c) = SysClockToUTime(c)
BY DEF Qr!SysClockToUTime, SysClockToUTime, Qr!DaysBeforeMonth, DaysBeforeMonth, Qr!Leap, Leap

\* The deciphered text of a code for this device opens its doors (qrcodeValidity
\* returns 0) at every second up to the one whose date it shows, and at none after
\* it, whatever else is in the text, for all times a utime_t holds.
THEOREM CodeEndsInTime ==
    ASSUME NEW last \in Nat, last \div Day <= 24854, NEW t \in Nat,
           NEW m, NEW device \in [1 .. 7 -> 0 .. 9],
           ShowsDate(m, 27, UTimeToSysClock(last)), ShowsDevice(m, device)
    PROVE  Qr!checkqrcodedata(m, device, UTimeToSysClock(t)).ret = IF t > last THEN 1 ELSE 0
<1> DEFINE c == UTimeToSysClock(last)
           now == UTimeToSysClock(t)
           e == Qr!DateAt(m, 27)
           read == [i \in 1 .. 7 |-> Qr!DigitAt(m, 38 + i)]
<1>1. e.year = c.year /\ e.month = c.month /\ e.day = c.day
      /\ e.hour = c.hour /\ e.minute = c.minute /\ e.second = c.second
  <2>1. /\ c.year \in 0 .. 99 /\ c.month \in 0 .. 99 /\ c.day \in 0 .. 99
        /\ c.hour \in 0 .. 99 /\ c.minute \in 0 .. 99 /\ c.second \in 0 .. 99
    BY PartsHaveTwoDigits
  <2>2. /\ ShowsTwo(m, 27, c.year) /\ ShowsTwo(m, 29, c.month) /\ ShowsTwo(m, 31, c.day)
        /\ ShowsTwo(m, 33, c.hour) /\ ShowsTwo(m, 35, c.minute) /\ ShowsTwo(m, 37, c.second)
    <3> HIDE DEF c
    <3>1. ShowsDate(m, 27, c)
      BY DEF c
    <3>2. 27 + 2 = 29 /\ 27 + 4 = 31 /\ 27 + 6 = 33 /\ 27 + 8 = 35 /\ 27 + 10 = 37
      OBVIOUS
    <3> QED
      BY <3>1, <3>2 DEF ShowsDate
  <2> HIDE DEF c
  <2>3. /\ Qr!TwoDigits(m, 27) = c.year /\ Qr!TwoDigits(m, 29) = c.month
        /\ Qr!TwoDigits(m, 31) = c.day /\ Qr!TwoDigits(m, 33) = c.hour
        /\ Qr!TwoDigits(m, 35) = c.minute /\ Qr!TwoDigits(m, 37) = c.second
    BY <2>1, <2>2, ReadsTwo
  <2>4. /\ e.year = Qr!TwoDigits(m, 27) /\ e.month = Qr!TwoDigits(m, 29)
        /\ e.day = Qr!TwoDigits(m, 31) /\ e.hour = Qr!TwoDigits(m, 33)
        /\ e.minute = Qr!TwoDigits(m, 35) /\ e.second = Qr!TwoDigits(m, 37)
    BY DEF Qr!DateAt, Qr!SysClock
  <2> QED
    BY <2>3, <2>4
<1>2. SysClockToUTime(e) = last
  <2>1. SysClockToUTime(e) = 3600 * (last \div 3600) + (last % 3600)
    <3> HIDE DEF e
    <3> QED
      BY <1>1, MixedTime
  <2> HIDE DEF e
  <2> QED
    BY <2>1
<1>3. SysClockToUTime(now) = t
  BY CalendarRoundTrip
<1>4. Qr!SysClockDifference(now, e) = t - last
  BY <1>2, <1>3, SameCalendar DEF Qr!SysClockDifference
<1>5. read = device
  <2>1. \A i \in 1 .. 7 : Qr!DigitAt(m, 38 + i) = device[i]
    <3> TAKE i \in 1 .. 7
    <3>1. m[39 + i] = 48 + device[i] /\ device[i] \in 0 .. 9 /\ (38 + i) + 1 = 39 + i
      BY DEF ShowsDevice
    <3>2. Qr!DigitAt(m, 38 + i) = (m[(38 + i) + 1] - 48) % 256
      BY DEF Qr!DigitAt
    <3> QED
      BY <3>1, <3>2
  <2> QED
    BY <2>1
<1> DEFINE r == Qr!checkqrcodedata(m, device, now).ret
<1>6. r = CASE read # device -> 2
            [] Qr!SysClockDifference(now, e) > 0 -> 1
            [] OTHER -> 0
  BY DEF Qr!checkqrcodedata
<1> HIDE DEF read, e, now, r
<1>7. r = IF t > last THEN 1 ELSE 0
  BY <1>4, <1>5, <1>6
<1> QED
  BY <1>7 DEF r, now

(***************************************************************************)
(* The cached time.                                                        *)
(***************************************************************************)
\* The two words of ClockCurrent.
LEMMA TwoWords ==
    ASSUME NEW a \in Nat, NEW b \in Nat
    PROVE  UTimeOf(Word0(a), Word1(b)) = 3600 * (a \div 3600) + (b % 3600)
<1> DEFINE ca == UTimeToSysClock(a)
           cb == UTimeToSysClock(b)
           c == [f \in Fields |-> IF f \in Word0Fields THEN Word0(a)[f] ELSE Word1(b)[f]]
<1>1. /\ c["year"] = ca["year"] /\ c["month"] = ca["month"] /\ c["day"] = ca["day"]
      /\ c["hour"] = ca["hour"] /\ c["minute"] = cb["minute"] /\ c["second"] = cb["second"]
  BY DEF Fields, Word0Fields, Word0, Word1
<1>2. UTimeOf(Word0(a), Word1(b)) = SysClockToUTime(c)
  BY DEF UTimeOf
<1> HIDE DEF c, ca, cb
<1>3. /\ c.year = ca.year /\ c.month = ca.month /\ c.day = ca.day
      /\ c.hour = ca.hour /\ c.minute = cb.minute /\ c.second = cb.second
  BY <1>1
<1>4. SysClockToUTime(c) = 3600 * (a \div 3600) + (b % 3600)
  BY <1>3, MixedTime DEF ca, cb
<1> QED
  BY <1>2, <1>4

(***************************************************************************)
(* The cached time, however calls overlap: each word is that of a time the *)
(* clock has shown.                                                        *)
(***************************************************************************)
Threads == {Timer, Client}
Pcs == {"idle", "time", "word0", "word1", "utime", "done", "setutime"}
Calls == {"none", "pass", "read", "set", "setting", "check"}
Locals == [pc : Pcs, val : Nat, new : Nat, before : Nat, call : Calls]

ClockType ==
    /\ had \subseteq Instants /\ os \in had /\ uc \in Nat /\ sets \in Nat
    /\ overlap \in BOOLEAN
    /\ th \in [Threads -> Locals]

ShownValues ==
    \A t \in Threads :
        /\ th[t].pc \in {"word0", "word1", "setutime"} => th[t].val \in had
        /\ th[t].call = "set" => th[t].new \in Instants

ShownWords == /\ \E a \in had : u0 = Word0(a)
              /\ \E b \in had : u1 = Word1(b)

HInv == ClockType /\ ShownValues /\ ShownWords /\ WithinAnHour

LEMMA InstantsNat == Instants \subseteq Nat
BY ClockAssumption

LEMMA IdleType == Idle \in Locals /\ Idle.pc = "idle" /\ Idle.call = "none"
BY DEF Idle, Locals, Pcs, Calls

\* What Step does to the two threads.
LEMMA StepFacts ==
    ASSUME th \in [Threads -> Locals], NEW t \in Threads, NEW at \in Pcs, NEW r \in Locals, Step(t, at, r)
    PROVE  /\ th' \in [Threads -> Locals]
           /\ th'[t].pc = at /\ th'[t].val = r.val /\ th'[t].new = r.new /\ th'[t].call = r.call
           /\ th'[t].before = r.before
           /\ \A o \in Threads \ {t} : th'[o] = th[o]
<1> DEFINE q == [r EXCEPT !.pc = at]
<1>1. /\ q \in Locals /\ q.pc = at /\ q.val = r.val /\ q.new = r.new /\ q.call = r.call
      /\ q.before = r.before
  BY DEF Locals
<1>2. th' = [th EXCEPT ![t] = q]
  BY DEF Step
<1> HIDE DEF q
<1>3. th'[t] = q /\ th' \in [Threads -> Locals] /\ \A o \in Threads \ {t} : th'[o] = th[o]
  BY <1>1, <1>2
<1> QED
  BY <1>1, <1>3

\* A time made of two words is within an hour of that of the first.
LEMMA MadeOfWords ==
    ASSUME HInv
    PROVE  NewUTime \in Nat /\ \E a \in had : Apart(NewUTime, a) < 3600
<1>1. PICK a \in had : u0 = Word0(a)
  BY DEF HInv, ShownWords
<1>2. PICK b \in had : u1 = Word1(b)
  BY DEF HInv, ShownWords
<1>3. a \in Nat /\ b \in Nat
  BY InstantsNat DEF HInv, ClockType
<1> DEFINE Mixed(i, j) == UTimeOf(Word0(i), Word1(j)) = 3600 * (i \div 3600) + (j % 3600)
<1>4. \A i, j \in Nat : Mixed(i, j)
  BY TwoWords
<1> HIDE DEF Mixed
<1>5. NewUTime = 3600 * (a \div 3600) + (b % 3600)
  <2>1. UTimeOf(Word0(a), Word1(b)) = 3600 * (a \div 3600) + (b % 3600)
    <3>1. Mixed(a, b)
      BY <1>3, <1>4
    <3> QED
      BY <3>1 DEF Mixed
  <2>2. NewUTime = UTimeOf(Word0(a), Word1(b))
    BY ONLY <1>1, <1>2 DEF NewUTime
  <2> QED
    BY ONLY <2>1, <2>2
<1>6. 3600 * (a \div 3600) + (b % 3600) \in Nat /\ Apart(3600 * (a \div 3600) + (b % 3600), a) < 3600
  <2> DEFINE r == a % 3600
             q == a \div 3600
             e == b % 3600
  <2>1. q \in Nat /\ r \in 0 .. 3599 /\ e \in 0 .. 3599 /\ a = 3600 * q + r
    BY <1>3
  <2> HIDE DEF q, r, e
  <2>2. 3600 * q + e \in Nat /\ Apart(3600 * q + e, a) < 3600
    BY <2>1 DEF Apart
  <2> QED
    BY <2>2 DEF q, e
<1> QED
  BY <1>5, <1>6

\* Steps that write neither a word nor the cached time.
LEMMA WordsStay ==
    ASSUME HInv, ClockType', ShownValues', UNCHANGED <<u0, u1, uc>>, had \subseteq had'
    PROVE  HInv'
<1>1. ShownWords'
  BY DEF HInv, ShownWords
<1>2. WithinAnHour'
  BY DEF HInv, WithinAnHour
<1> QED
  BY <1>1, <1>2 DEF HInv

\* A step of one thread.
LEMMA ThreadMoves ==
    ASSUME HInv, NEW t \in Threads, NEW at \in Pcs, NEW r \in Locals, Step(t, at, r),
           r.call = "set" => r.new \in Instants,
           at \in {"word0", "word1", "setutime"} => r.val \in had',
           had \subseteq had', had' \subseteq Instants, os' \in had', uc' \in Nat, sets' \in Nat,
           overlap' \in BOOLEAN
    PROVE  ClockType' /\ ShownValues'
<1>1. th \in [Threads -> Locals]
  BY DEF HInv, ClockType
<1>2. /\ th' \in [Threads -> Locals]
      /\ th'[t].pc = at /\ th'[t].val = r.val /\ th'[t].new = r.new /\ th'[t].call = r.call
      /\ \A o \in Threads \ {t} : th'[o] = th[o]
  BY <1>1, StepFacts
<1>3. ClockType'
  BY <1>2 DEF ClockType
<1>4. ShownValues'
  BY <1>2 DEF HInv, ShownValues
<1> QED
  BY <1>3, <1>4

LEMMA BeginShown == ASSUME HInv, NEW t \in Threads, Begin(t) PROVE HInv'
<1>1. PICK call \in {"pass", "read", "set"}, new \in Instants \cup {0} :
          /\ call = "set" => new \in Instants
          /\ Step(t, "time", [Idle EXCEPT !.call = call, !.new = new])
  BY DEF Begin
<1>2. UNCHANGED <<os, u0, u1, uc, sets, had>>
  BY DEF Begin
<1>3. overlap' \in BOOLEAN
  BY Zenon DEF Begin, HInv, ClockType
<1> DEFINE r == [Idle EXCEPT !.call = call, !.new = new]
<1>4. r \in Locals /\ r.call = call /\ r.new = new
  <2>1. new \in Nat /\ call \in Calls
    BY InstantsNat DEF Calls
  <2>2. Idle \in Locals
    BY IdleType
  <2> QED
    BY <2>1, <2>2 DEF Locals
<1>5. Step(t, "time", r) /\ "time" \in Pcs
  BY <1>1 DEF Pcs
<1> HIDE DEF r
<1>6. ClockType' /\ ShownValues'
  <2>1. had \subseteq had' /\ had' \subseteq Instants /\ os' \in had' /\ uc' \in Nat /\ sets' \in Nat
    BY <1>2 DEF HInv, ClockType
  <2>2. r.call = "set" => r.new \in Instants
    BY <1>1, <1>4
  <2> QED
    BY <1>3, <1>4, <1>5, <2>1, <2>2, ThreadMoves
<1> QED
  BY <1>2, <1>6, WordsStay

LEMMA ReadTimeShown == ASSUME HInv, NEW t \in Threads, ReadTime(t) PROVE HInv'
<1>1. os \in had /\ os \in Nat /\ th[t] \in Locals
  BY InstantsNat DEF HInv, ClockType
<1>2. UNCHANGED <<os, u0, u1, uc, sets, overlap, had>>
  BY DEF ReadTime
<1> DEFINE r == [th[t] EXCEPT !.val = os]
<1>3. r \in Locals /\ r.call = th[t].call /\ r.new = th[t].new /\ r.val = os
  BY <1>1 DEF Locals
<1>4. Step(t, "word0", r) /\ "word0" \in Pcs
  BY DEF ReadTime, Pcs
<1> HIDE DEF r
<1>5. ClockType' /\ ShownValues'
  <2>1. /\ had \subseteq had' /\ had' \subseteq Instants /\ os' \in had' /\ uc' \in Nat /\ sets' \in Nat
        /\ overlap' \in BOOLEAN
    BY <1>2 DEF HInv, ClockType
  <2>2. r.call = "set" => r.new \in Instants
    BY <1>3 DEF HInv, ShownValues
  <2>3. r.val \in had'
    BY <1>1, <1>2, <1>3
  <2> QED
    BY <1>3, <1>4, <2>1, <2>2, <2>3, ThreadMoves
<1> QED
  BY <1>2, <1>5, WordsStay

LEMMA WriteWord0Shown == ASSUME HInv, NEW t \in Threads, WriteWord0(t) PROVE HInv'
<1>1. th[t] \in Locals /\ th[t].val \in had
  BY DEF HInv, ClockType, ShownValues, WriteWord0
<1>2. UNCHANGED <<os, u1, uc, sets, overlap, had>> /\ u0' = Word0(th[t].val)
  BY DEF WriteWord0
<1>3. ClockType' /\ ShownValues'
  <2>1. /\ had \subseteq had' /\ had' \subseteq Instants /\ os' \in had' /\ uc' \in Nat /\ sets' \in Nat
        /\ overlap' \in BOOLEAN
    BY <1>2 DEF HInv, ClockType
  <2>2. (th[t].call = "set" => th[t].new \in Instants) /\ th[t].val \in had'
    BY <1>1, <1>2 DEF HInv, ShownValues
  <2>3. Step(t, "word1", th[t]) /\ "word1" \in Pcs
    BY DEF WriteWord0, Pcs
  <2> QED
    BY <1>1, <2>1, <2>2, <2>3, ThreadMoves
<1>4. ShownWords' /\ WithinAnHour'
  BY <1>1, <1>2 DEF HInv, ShownWords, WithinAnHour
<1> QED
  BY <1>3, <1>4 DEF HInv

LEMMA WriteWord1Shown == ASSUME HInv, NEW t \in Threads, WriteWord1(t) PROVE HInv'
<1>1. th[t] \in Locals /\ th[t].val \in had
  BY DEF HInv, ClockType, ShownValues, WriteWord1
<1>2. UNCHANGED <<os, u0, uc, sets, overlap, had>> /\ u1' = Word1(th[t].val)
  BY DEF WriteWord1
<1> DEFINE r == [th[t] EXCEPT !.call = "check"]
<1>3. r \in Locals /\ r.call = "check"
  BY <1>1 DEF Locals, Calls
<1>4. Step(t, "time", r) \/ Step(t, "utime", th[t])
  BY DEF WriteWord1
<1>5. "time" \in Pcs /\ "utime" \in Pcs
  BY DEF Pcs
<1> HIDE DEF r
<1>6. ClockType' /\ ShownValues'
  <2>1. /\ had \subseteq had' /\ had' \subseteq Instants /\ os' \in had' /\ uc' \in Nat /\ sets' \in Nat
        /\ overlap' \in BOOLEAN
    BY <1>2 DEF HInv, ClockType
  <2>2. th[t].call = "set" => th[t].new \in Instants
    BY DEF HInv, ShownValues
  <2>3. CASE Step(t, "time", r)
    BY <1>3, <1>5, <2>1, <2>3, ThreadMoves
  <2>4. CASE Step(t, "utime", th[t])
    BY <1>1, <1>5, <2>1, <2>2, <2>4, ThreadMoves
  <2> QED
    BY <1>4, <2>3, <2>4
<1>7. ShownWords' /\ WithinAnHour'
  BY <1>1, <1>2 DEF HInv, ShownWords, WithinAnHour
<1> QED
  BY <1>6, <1>7 DEF HInv

LEMMA WriteUTimeShown == ASSUME HInv, NEW t \in Threads, WriteUTime(t) PROVE HInv'
<1>1. th[t] \in Locals
  BY DEF HInv, ClockType
<1>2. UNCHANGED <<os, u0, u1, sets, overlap, had>> /\ uc' = NewUTime
  BY DEF WriteUTime
<1>3. Step(t, "idle", Idle) \/ Step(t, "done", th[t])
  BY DEF WriteUTime
<1>4. "idle" \in Pcs /\ "done" \in Pcs
  BY DEF Pcs
<1>5. NewUTime \in Nat /\ \E a \in had : Apart(NewUTime, a) < 3600
  BY MadeOfWords
<1>6. ClockType' /\ ShownValues'
  <2>1. /\ had \subseteq had' /\ had' \subseteq Instants /\ os' \in had' /\ uc' \in Nat /\ sets' \in Nat
        /\ overlap' \in BOOLEAN
    BY <1>2, <1>5 DEF HInv, ClockType
  <2>2. th[t].call = "set" => th[t].new \in Instants
    BY DEF HInv, ShownValues
  <2>3. CASE Step(t, "idle", Idle)
    BY <1>4, <2>1, <2>3, ThreadMoves, IdleType
  <2>4. CASE Step(t, "done", th[t])
    BY <1>1, <1>4, <2>1, <2>2, <2>4, ThreadMoves
  <2> QED
    BY <1>3, <2>3, <2>4
<1>7. ShownWords'
  BY <1>2 DEF HInv, ShownWords
<1>8. WithinAnHour'
  BY <1>2, <1>5 DEF WithinAnHour
<1> QED
  BY <1>6, <1>7, <1>8 DEF HInv

\* A thread ends its call.
LEMMA EndShown ==
    ASSUME HInv, NEW t \in Threads, Step(t, "idle", Idle), UNCHANGED <<os, u0, u1, uc, sets, overlap, had>>
    PROVE  HInv'
<1>1. /\ had \subseteq had' /\ had' \subseteq Instants /\ os' \in had' /\ uc' \in Nat /\ sets' \in Nat
      /\ overlap' \in BOOLEAN
  BY DEF HInv, ClockType
<1>2. "idle" \in Pcs
  BY DEF Pcs
<1>3. ClockType' /\ ShownValues'
  BY <1>1, <1>2, ThreadMoves, IdleType
<1> QED
  BY <1>3, WordsStay

LEMMA SetTimeOfDayShown == ASSUME HInv, SetTimeOfDay PROVE HInv'
<1>1. Client \in Threads
  BY DEF Threads
<1>2. th[Client] \in Locals /\ th[Client].new \in Instants /\ th[Client].new \in Nat /\ uc \in Nat
  BY <1>1, InstantsNat DEF HInv, ClockType, ShownValues, SetTimeOfDay
<1>3. /\ UNCHANGED <<u0, u1, uc, overlap>> /\ sets' = sets + 1
      /\ os' = th[Client].new /\ had' = had \cup {th[Client].new}
  BY DEF SetTimeOfDay
<1> DEFINE r == [th[Client] EXCEPT !.before = uc, !.val = th[Client].new, !.call = "setting"]
<1>4. r \in Locals /\ r.call = "setting" /\ r.val = th[Client].new
  BY <1>2 DEF Locals, Calls
<1>5. Step(Client, "setutime", r) /\ "setutime" \in Pcs
  BY DEF SetTimeOfDay, Pcs
<1> HIDE DEF r
<1>6. ClockType' /\ ShownValues'
  <2>1. /\ had \subseteq had' /\ had' \subseteq Instants /\ os' \in had' /\ uc' \in Nat /\ sets' \in Nat
        /\ overlap' \in BOOLEAN
    BY <1>2, <1>3 DEF HInv, ClockType
  <2>2. r.val \in had' /\ r.call # "set"
    BY <1>3, <1>4
  <2> QED
    BY <1>1, <1>4, <1>5, <2>1, <2>2, ThreadMoves
<1> QED
  BY <1>3, <1>6, WordsStay

LEMMA SetUTimeShown == ASSUME HInv, SetUTime PROVE HInv'
<1>1. Client \in Threads
  BY DEF Threads
<1>2. th[Client] \in Locals /\ th[Client].val \in had /\ th[Client].val \in Nat
  BY <1>1, InstantsNat DEF HInv, ClockType, ShownValues, SetUTime
<1>3. UNCHANGED <<os, u0, u1, sets, overlap, had>> /\ uc' = th[Client].val
  BY DEF SetUTime
<1>4. Step(Client, "word0", th[Client]) /\ "word0" \in Pcs
  BY DEF SetUTime, Pcs
<1>5. ClockType' /\ ShownValues'
  <2>1. /\ had \subseteq had' /\ had' \subseteq Instants /\ os' \in had' /\ uc' \in Nat /\ sets' \in Nat
        /\ overlap' \in BOOLEAN
    BY <1>2, <1>3 DEF HInv, ClockType
  <2>2. (th[Client].call = "set" => th[Client].new \in Instants) /\ th[Client].val \in had'
    BY <1>1, <1>2, <1>3 DEF HInv, ShownValues
  <2> QED
    BY <1>1, <1>2, <1>4, <2>1, <2>2, ThreadMoves
<1>6. ShownWords'
  BY <1>3 DEF HInv, ShownWords
<1>7. WithinAnHour'
  <2>1. Apart(th[Client].val, th[Client].val) < 3600
    BY <1>2 DEF Apart
  <2> QED
    BY <1>2, <1>3, <2>1 DEF WithinAnHour
<1> QED
  BY <1>5, <1>6, <1>7 DEF HInv

\* Steps of the operating system's clock and of those that touch no thread.
LEMMA OthersShown ==
    ASSUME HInv, UNCHANGED <<u0, u1, uc, th, sets, overlap>>,
           had \subseteq had', had' \subseteq Instants, os' \in had'
    PROVE  HInv'
<1>1. ClockType'
  BY DEF HInv, ClockType
<1>2. ShownValues'
  BY DEF HInv, ShownValues
<1> QED
  BY <1>1, <1>2, WordsStay

LEMMA InitShown == ASSUME ClockInit PROVE HInv
<1>1. os \in Instants /\ os \in Nat
  BY InstantsNat DEF ClockInit
<1>2. ClockType
  <2>1. th = [t \in Threads |-> Idle]
    BY DEF ClockInit, Threads
  <2>2. th \in [Threads -> Locals]
    BY <2>1, IdleType
  <2> QED
    BY <1>1, <2>2 DEF ClockInit, ClockType
<1>3. ShownValues
  <2>1. \A t \in Threads : th[t] = Idle
    BY DEF ClockInit, Threads
  <2> QED
    BY <2>1, IdleType DEF ShownValues
<1>4. ShownWords
  BY <1>1 DEF ClockInit, ShownWords
<1>5. WithinAnHour
  <2>1. Apart(os, os) < 3600
    BY <1>1 DEF Apart
  <2> QED
    BY <2>1 DEF ClockInit, WithinAnHour
<1> QED
  BY <1>2, <1>3, <1>4, <1>5 DEF HInv

LEMMA NextShown == ASSUME HInv, [ClockNext]_clockVars PROVE HInv'
<1>1. had \subseteq Instants /\ os \in had
  BY DEF HInv, ClockType
<1>2. CASE Advance
  <2>1. had \subseteq had' /\ had' \subseteq Instants /\ os' \in had'
    BY <1>1, <1>2 DEF Advance
  <2>2. UNCHANGED <<u0, u1, uc, th, sets, overlap>>
    BY <1>2 DEF Advance
  <2> QED
    BY <2>1, <2>2, OthersShown
<1>3. ASSUME NEW t \in Threads,
             Begin(t) \/ ReadTime(t) \/ WriteWord0(t) \/ WriteWord1(t) \/ WriteUTime(t)
      PROVE  HInv'
  BY <1>3, BeginShown, ReadTimeShown, WriteWord0Shown, WriteWord1Shown, WriteUTimeShown
<1>4. CASE RTimerProc
  <2>1. Timer \in Threads /\ Step(Timer, "idle", Idle) /\ UNCHANGED <<os, u0, u1, uc, sets, overlap, had>>
    BY <1>4 DEF RTimerProc, Threads
  <2> QED
    BY <2>1, EndShown
<1>5. CASE SetTimeOfDay
  BY <1>5, SetTimeOfDayShown
<1>6. CASE SetUTime
  BY <1>6, SetUTimeShown
<1>7. CASE FinishSet
  <2>1. Client \in Threads /\ Step(Client, "idle", Idle) /\ UNCHANGED <<os, u0, u1, uc, sets, overlap, had>>
    BY <1>7 DEF FinishSet, Threads
  <2> QED
    BY <2>1, EndShown
<1>8. CASE \/ \E c \in Confs : SysAddRTimer(c)
           \/ \E s \in Slots : SysStopRTimer(s)
           \/ BeginRead \/ ReadWord \/ UNCHANGED clockVars
  <2>1. UNCHANGED <<os, u0, u1, uc, th, sets, overlap, had>>
    BY <1>8 DEF SysAddRTimer, SysStopRTimer, BeginRead, ReadWord, clockVars
  <2> QED
    BY <1>1, <2>1, OthersShown
<1> QED
  BY <1>2, <1>3, <1>4, <1>5, <1>6, <1>7, <1>8 DEF ClockNext, Threads

\* However many threads are inside SysClockRead and SysClockSet, and wherever they
\* are, UTimeCurrent is within an hour of a time the clock has shown.
THEOREM CachedTimeClose == ClockSpec => []WithinAnHour
<1>1. HInv => WithinAnHour
  BY DEF HInv
<1> QED
  BY <1>1, InitShown, NextShown, PTL DEF ClockSpec

(***************************************************************************)
(* The reader, while the clock is only read and no calls overlap: each     *)
(* word is that of a time the words go through in order.                   *)
(***************************************************************************)
\* What the thread at one of the places is about to write, or what was written last.
Last(f, c, places) == IF f[Timer].pc \in places THEN f[Timer].val
                      ELSE IF f[Client].pc \in places THEN f[Client].val ELSE c

First == Last(th, uc, {"word1", "utime"})       \* the time of the first word
Second == Last(th, uc, {"utime"})               \* the time of the second

\* Before it is written, the second word is the older.
WordsInOrder ==
    Followed =>
        /\ th[Timer].pc = "idle" \/ th[Client].pc = "idle"
        /\ \A t \in Threads :
              /\ th[t].pc # "setutime" /\ th[t].call \notin {"setting", "check"}
              /\ th[t].pc = "word0" => uc <= th[t].val /\ th[t].val <= os
        /\ u0 = Word0(First) /\ u1 = Word1(Second)
        /\ uc <= Second /\ Second <= First /\ First <= os

\* The words the reader has were written in the order in which it reads them.
ReaderInOrder ==
    /\ rd.pc # 0 => Followed /\ rd.pc \in 1 .. 5 /\ rd.from \in Nat
    /\ rd.pc \in {1, 5} => rd.from <= Second
    /\ rd.pc = 2 => \E z \in Nat : rd.a1 = Word1(z) /\ rd.from <= z /\ z <= Second
    /\ rd.pc = 3 => \E z, x \in Nat : /\ rd.a1 = Word1(z) /\ rd.b0 = Word0(x)
                                      /\ rd.from <= z /\ z <= x /\ x <= os /\ z <= Second
    /\ rd.pc = 4 => rd.got \in Nat /\ ReadInOrder

OInv == HInv /\ WordsInOrder /\ ReaderInOrder

LEMMA LastOf ==
    ASSUME NEW f, NEW c, NEW t \in Threads, NEW places, "idle" \notin places,
           \A o \in Threads \ {t} : f[o].pc = "idle"
    PROVE  Last(f, c, places) = IF f[t].pc \in places THEN f[t].val ELSE c
BY DEF Last, Threads, Timer, Client

LEMMA LastNat ==
    ASSUME HInv
    PROVE  /\ os \in Nat /\ uc \in Nat /\ First \in Nat /\ Second \in Nat
           /\ \A t \in Threads : th[t] \in Locals /\ th[t].val \in Nat
<1>1. os \in Nat /\ uc \in Nat /\ th \in [Threads -> Locals]
  BY InstantsNat DEF HInv, ClockType
<1>2. \A t \in Threads : th[t] \in Locals /\ th[t].val \in Nat
  BY <1>1 DEF Locals
<1> QED
  BY <1>1, <1>2 DEF First, Second, Last, Threads

\* The words while only one thread is inside a call.
LEMMA OneThread ==
    ASSUME NEW t \in Threads, \A o \in Threads \ {t} : th[o].pc = "idle"
    PROVE  /\ First = IF th[t].pc \in {"word1", "utime"} THEN th[t].val ELSE uc
           /\ Second = IF th[t].pc \in {"utime"} THEN th[t].val ELSE uc
BY LastOf DEF First, Second

LEMMA OthersIdle ==
    ASSUME WordsInOrder, Followed, NEW t \in Threads, th[t].pc # "idle"
    PROVE  \A o \in Threads \ {t} : th[o].pc = "idle"
BY DEF WordsInOrder, Threads

\* A time made of the two words of one time.
LEMMA OneTime == ASSUME NEW a \in Nat PROVE UTimeOf(Word0(a), Word1(a)) = a
<1>1. UTimeOf(Word0(a), Word1(a)) = 3600 * (a \div 3600) + (a % 3600)
  BY TwoWords
<1> QED
  BY <1>1

\* Words are written in order: the times they are of never go back.
Onward == WordsInOrder' /\ First <= First' /\ Second <= Second' /\ os <= os'

LEMMA ThreadOnward ==
    ASSUME HInv, HInv', WordsInOrder, Followed, Followed', NEW t \in Threads,
           Begin(t) \/ ReadTime(t) \/ WriteWord0(t) \/ WriteWord1(t) \/ WriteUTime(t)
    PROVE  Onward
<1>1. /\ os \in Nat /\ uc \in Nat /\ th \in [Threads -> Locals] /\ th[t] \in Locals /\ th[t].val \in Nat
      /\ os' \in Nat /\ uc' \in Nat /\ th'[t].val \in Nat
  <2>1. os' \in Nat /\ uc' \in Nat /\ \A i \in Threads : th'[i].val \in Nat
    BY InstantsNat DEF HInv, ClockType, Locals
  <2> QED
    BY LastNat, <2>1 DEF HInv, ClockType
<1>2. \A o \in Threads \ {t} : th[o].pc = "idle"
  <2>1. CASE th[t].pc # "idle"
    BY <2>1, OthersIdle
  <2>2. CASE Begin(t)
    <3>1. ~ \E o \in DOMAIN th : th[o].pc # "idle"
      BY <2>2 DEF Begin, Followed
    <3> QED
      BY <1>1, <3>1
  <2> QED
    BY <2>1, <2>2 DEF ReadTime, WriteWord0, WriteWord1, WriteUTime
<1>3. /\ First = IF th[t].pc \in {"word1", "utime"} THEN th[t].val ELSE uc
      /\ Second = IF th[t].pc \in {"utime"} THEN th[t].val ELSE uc
  BY <1>2, OneThread
<1>4. ASSUME \A o \in Threads \ {t} : th'[o] = th[o]
      PROVE  /\ First' = IF th'[t].pc \in {"word1", "utime"} THEN th'[t].val ELSE uc'
             /\ Second' = IF th'[t].pc \in {"utime"} THEN th'[t].val ELSE uc'
  <2>1. \A o \in Threads \ {t} : th'[o].pc = "idle"
    BY <1>2, <1>4
  <2> QED
    BY <2>1, LastOf DEF First, Second
<1>5. u0 = Word0(First) /\ u1 = Word1(Second) /\ uc <= Second /\ Second <= First /\ First <= os
  BY DEF WordsInOrder
<1>6. /\ th[t].pc # "setutime" /\ th[t].call \notin {"setting", "check"}
      /\ th[t].pc = "word0" => uc <= th[t].val /\ th[t].val <= os
  BY DEF WordsInOrder
\* What is left to show of each action.
<1>7. ASSUME \A o \in Threads \ {t} : th'[o] = th[o], UNCHANGED os,
             th'[t].pc # "setutime", th'[t].call \notin {"setting", "check"},
             th'[t].pc = "word0" => uc' <= th'[t].val /\ th'[t].val <= os,
             u0' = Word0(First'), u1' = Word1(Second'),
             uc' <= Second', Second' <= First', First' <= os, First <= First', Second <= Second'
      PROVE  Onward
  <2>1. th'[Timer].pc = "idle" \/ th'[Client].pc = "idle"
    BY <1>2, <1>7 DEF Threads, Timer, Client
  <2>2. \A i \in Threads : /\ th'[i].pc # "setutime" /\ th'[i].call \notin {"setting", "check"}
                           /\ th'[i].pc = "word0" => uc' <= th'[i].val /\ th'[i].val <= os
    BY <1>2, <1>7 DEF WordsInOrder
  <2>3. WordsInOrder'
    BY <2>1, <2>2, <1>7 DEF WordsInOrder
  <2> QED
    BY <1>1, <1>7, <2>3 DEF Onward
<1>8. CASE Begin(t)
  <2>1. PICK call \in {"pass", "read", "set"}, new \in Instants \cup {0} :
            Step(t, "time", [Idle EXCEPT !.call = call, !.new = new])
    BY <1>8 DEF Begin
  <2> DEFINE r == [Idle EXCEPT !.call = call, !.new = new]
  <2>2. r \in Locals /\ r.call = call
    <3>1. new \in Nat /\ call \in Calls
      BY InstantsNat DEF Calls
    <3>2. Idle \in Locals
      BY IdleType
    <3> QED
      BY <3>1, <3>2 DEF Locals
  <2>3. Step(t, "time", r) /\ "time" \in Pcs
    BY <2>1 DEF Pcs
  <2> HIDE DEF r
  <2>4. th'[t].pc = "time" /\ th'[t].call = call /\ \A o \in Threads \ {t} : th'[o] = th[o]
    BY <1>1, <2>2, <2>3, StepFacts
  <2>5. UNCHANGED <<os, u0, u1, uc>> /\ th[t].pc = "idle"
    BY <1>8 DEF Begin
  <2>6. First' = uc /\ Second' = uc /\ First = uc /\ Second = uc
    BY <1>3, <1>4, <2>4, <2>5
  <2> QED
    BY <1>1, <1>5, <1>7, <2>4, <2>5, <2>6
<1>9. CASE ReadTime(t)
  <2> DEFINE r == [th[t] EXCEPT !.val = os]
  <2>1. r \in Locals /\ r.call = th[t].call /\ r.val = os
    BY <1>1 DEF Locals
  <2>2. Step(t, "word0", r) /\ "word0" \in Pcs
    BY <1>9 DEF ReadTime, Pcs
  <2> HIDE DEF r
  <2>3. /\ th'[t].pc = "word0" /\ th'[t].call = th[t].call /\ th'[t].val = os
        /\ \A o \in Threads \ {t} : th'[o] = th[o]
    BY <1>1, <2>1, <2>2, StepFacts
  <2>4. UNCHANGED <<os, u0, u1, uc>> /\ th[t].pc = "time"
    BY <1>9 DEF ReadTime
  <2>5. First' = uc /\ Second' = uc /\ First = uc /\ Second = uc
    BY <1>3, <1>4, <2>3, <2>4
  <2> QED
    BY <1>1, <1>5, <1>6, <1>7, <2>3, <2>4, <2>5
<1>10. CASE WriteWord0(t)
  <2>1. Step(t, "word1", th[t]) /\ "word1" \in Pcs
    BY <1>10 DEF WriteWord0, Pcs
  <2>2. /\ th'[t].pc = "word1" /\ th'[t].call = th[t].call /\ th'[t].val = th[t].val
        /\ \A o \in Threads \ {t} : th'[o] = th[o]
    BY <1>1, <2>1, StepFacts
  <2>3. UNCHANGED <<os, u1, uc>> /\ u0' = Word0(th[t].val) /\ th[t].pc = "word0"
    BY <1>10 DEF WriteWord0
  <2>4. First' = th[t].val /\ Second' = uc /\ First = uc /\ Second = uc
    BY <1>3, <1>4, <2>2, <2>3
  <2> QED
    BY <1>1, <1>5, <1>6, <1>7, <2>2, <2>3, <2>4
<1>11. CASE WriteWord1(t)
  <2>1. Step(t, "utime", th[t]) /\ "utime" \in Pcs
    BY <1>6, <1>11 DEF WriteWord1, Pcs
  <2>2. /\ th'[t].pc = "utime" /\ th'[t].call = th[t].call /\ th'[t].val = th[t].val
        /\ \A o \in Threads \ {t} : th'[o] = th[o]
    BY <1>1, <2>1, StepFacts
  <2>3. UNCHANGED <<os, u0, uc>> /\ u1' = Word1(th[t].val) /\ th[t].pc = "word1"
    BY <1>11 DEF WriteWord1
  <2>4. First' = th[t].val /\ Second' = th[t].val /\ First = th[t].val /\ Second = uc
    BY <1>3, <1>4, <2>2, <2>3
  <2> QED
    BY <1>1, <1>5, <1>6, <1>7, <2>2, <2>3, <2>4
<1>12. CASE WriteUTime(t)
  <2>1. Step(t, "idle", Idle) \/ Step(t, "done", th[t])
    BY <1>12 DEF WriteUTime
  <2>2. "idle" \in Pcs /\ "done" \in Pcs /\ Idle \in Locals /\ Idle.call = "none"
    BY IdleType DEF Pcs
  <2>3. CASE Step(t, "idle", Idle)
    <3>1. th'[t].pc = "idle" /\ th'[t].call = "none" /\ \A o \in Threads \ {t} : th'[o] = th[o]
      BY <1>1, <2>2, <2>3, StepFacts
    <3>2. UNCHANGED <<os, u0, u1>> /\ uc' = NewUTime /\ th[t].pc = "utime"
      BY <1>12 DEF WriteUTime
    <3>3. First = th[t].val /\ Second = th[t].val
      BY <1>3, <3>2
    <3>4. uc' = th[t].val
      BY <1>1, <1>5, <3>2, <3>3, OneTime DEF NewUTime
    <3>5. First' = th[t].val /\ Second' = th[t].val
      BY <1>4, <3>1, <3>4
    <3> QED
      BY <1>1, <1>5, <1>7, <3>1, <3>2, <3>3, <3>4, <3>5
  <2>4. CASE Step(t, "done", th[t])
    <3>1. th'[t].pc = "done" /\ th'[t].call = th[t].call /\ \A o \in Threads \ {t} : th'[o] = th[o]
      BY <1>1, <2>2, <2>4, StepFacts
    <3>2. UNCHANGED <<os, u0, u1>> /\ uc' = NewUTime /\ th[t].pc = "utime"
      BY <1>12 DEF WriteUTime
    <3>3. First = th[t].val /\ Second = th[t].val
      BY <1>3, <3>2
    <3>4. uc' = th[t].val
      BY <1>1, <1>5, <3>2, <3>3, OneTime DEF NewUTime
    <3>5. First' = th[t].val /\ Second' = th[t].val
      BY <1>4, <3>1, <3>4
    <3> QED
      BY <1>1, <1>5, <1>6, <1>7, <3>1, <3>2, <3>3, <3>4, <3>5
  <2> QED
    BY <2>1, <2>3, <2>4
<1> QED
  BY <1>8, <1>9, <1>10, <1>11, <1>12

\* A step that leaves the threads' words alone.
LEMMA StillOnward ==
    ASSUME HInv, WordsInOrder, Followed, UNCHANGED <<u0, u1, uc, th>>, os' \in Nat, os <= os'
    PROVE  Onward
<1>1. /\ os \in Nat /\ uc \in Nat /\ First \in Nat /\ Second \in Nat
      /\ \A t \in Threads : th[t].val \in Nat
  BY LastNat
<1>2. First' = First /\ Second' = Second
  BY DEF First, Second
<1>3. WordsInOrder'
  BY <1>1, <1>2 DEF WordsInOrder
<1> QED
  BY <1>1, <1>2, <1>3 DEF Onward

LEMMA ProcOnward == ASSUME HInv, WordsInOrder, Followed, RTimerProc PROVE Onward
<1>1. /\ os \in Nat /\ uc \in Nat /\ th \in [Threads -> Locals] /\ Timer \in Threads
      /\ \A t \in Threads : th[t].val \in Nat
  BY LastNat DEF HInv, ClockType, Threads
<1>2. th[Timer].pc = "done" /\ UNCHANGED <<os, u0, u1, uc>> /\ Step(Timer, "idle", Idle)
  BY DEF RTimerProc
<1>3. \A o \in Threads \ {Timer} : th[o].pc = "idle"
  BY <1>1, <1>2, OthersIdle
<1>4. /\ th'[Timer].pc = "idle" /\ th'[Timer].call = "none"
      /\ \A o \in Threads \ {Timer} : th'[o] = th[o]
  <2>1. "idle" \in Pcs /\ Idle \in Locals /\ Idle.call = "none"
    BY IdleType DEF Pcs
  <2> QED
    BY <1>1, <1>2, <2>1, StepFacts
<1>5. First = uc /\ Second = uc
  BY <1>1, <1>2, <1>3, OneThread
<1>6. First' = uc /\ Second' = uc
  <2>1. \A o \in Threads \ {Timer} : th'[o].pc = "idle"
    BY <1>3, <1>4
  <2> QED
    BY <1>1, <1>2, <1>4, <2>1, LastOf DEF First, Second
<1>7. \A i \in Threads : th'[i].pc = "idle" /\ th'[i].call \notin {"setting", "check"}
  BY <1>3, <1>4 DEF WordsInOrder
<1>8. WordsInOrder'
  <2>1. u0 = Word0(uc) /\ u1 = Word1(uc) /\ uc <= os
    BY <1>5 DEF WordsInOrder
  <2> QED
    BY <1>1, <1>2, <1>6, <1>7, <2>1 DEF WordsInOrder
<1> QED
  BY <1>1, <1>2, <1>5, <1>6, <1>8 DEF Onward

LEMMA NextOnward ==
    ASSUME HInv, HInv', WordsInOrder, [ClockNext]_clockVars, Followed'
    PROVE  Followed /\ Onward
<1>1. os \in Nat /\ os' \in Nat /\ sets \in Nat
  BY InstantsNat DEF HInv, ClockType
<1>2. Client \in Threads
  BY DEF Threads
<1>3. CASE Advance
  BY <1>1, <1>3, StillOnward DEF Advance, Followed
<1>4. ASSUME NEW t \in Threads,
             Begin(t) \/ ReadTime(t) \/ WriteWord0(t) \/ WriteWord1(t) \/ WriteUTime(t)
      PROVE  Followed /\ Onward
  <2>1. ASSUME Begin(t) PROVE Followed
    BY <2>1, Zenon DEF Begin, Followed
  <2>2. ASSUME ~Begin(t) PROVE Followed
    BY <1>4, <2>2 DEF ReadTime, WriteWord0, WriteWord1, WriteUTime, Followed
  <2>3. Followed
    BY <2>1, <2>2
  <2> QED
    BY <1>4, <2>3, ThreadOnward
<1>5. CASE RTimerProc
  <2>1. Followed
    BY <1>5 DEF RTimerProc, Followed
  <2> QED
    BY <1>5, <2>1, ProcOnward
<1>6. CASE SetTimeOfDay
  BY <1>1, <1>6 DEF SetTimeOfDay, Followed
<1>7. CASE SetUTime
  BY <1>2, <1>7 DEF SetUTime, Followed, WordsInOrder
<1>8. CASE FinishSet
  BY <1>2, <1>8 DEF FinishSet, Followed, WordsInOrder
<1>9. CASE \/ \E c \in Confs : SysAddRTimer(c)
           \/ \E s \in Slots : SysStopRTimer(s)
           \/ BeginRead \/ ReadWord \/ UNCHANGED clockVars
  <2>1. UNCHANGED <<os, u0, u1, uc, th, sets, overlap>>
    BY <1>9 DEF SysAddRTimer, SysStopRTimer, BeginRead, ReadWord, clockVars
  <2> QED
    BY <1>1, <2>1, StillOnward DEF Followed
<1> QED
  BY <1>3, <1>4, <1>5, <1>6, <1>7, <1>8, <1>9 DEF ClockNext, Threads

\* What the reader has stays in order as the words go on.
LEMMA ReaderKeeps ==
    ASSUME HInv, HInv', WordsInOrder, ReaderInOrder, Onward, Followed, Followed', UNCHANGED rd
    PROVE  ReaderInOrder'
<1>1. /\ os \in Nat /\ First \in Nat /\ Second \in Nat
      /\ os' \in Nat /\ First' \in Nat /\ Second' \in Nat
      /\ First <= First' /\ Second <= Second' /\ os <= os'
  <2>1. os' \in Nat /\ uc' \in Nat /\ th' \in [Threads -> Locals]
    BY InstantsNat DEF HInv, ClockType
  <2>2. First' \in Nat /\ Second' \in Nat
    <3>1. th'[Timer].val \in Nat /\ th'[Client].val \in Nat
      BY <2>1 DEF Locals, Threads
    <3> QED
      BY <2>1, <3>1 DEF First, Second, Last
  <2> QED
    BY <2>1, <2>2, LastNat DEF Onward
<1>2. rd'.pc # 0 => Followed' /\ rd'.pc \in 1 .. 5 /\ rd'.from \in Nat
  BY DEF ReaderInOrder
<1>3. rd'.pc \in {1, 5} => rd'.from <= Second'
  BY <1>1, <1>2 DEF ReaderInOrder
<1>4. rd'.pc = 2 => \E z \in Nat : rd'.a1 = Word1(z) /\ rd'.from <= z /\ z <= Second'
  <2>1. SUFFICES ASSUME rd.pc = 2
                 PROVE  \E z \in Nat : rd.a1 = Word1(z) /\ rd.from <= z /\ z <= Second'
    OBVIOUS
  <2>2. PICK z \in Nat : rd.a1 = Word1(z) /\ rd.from <= z /\ z <= Second
    BY <2>1 DEF ReaderInOrder
  <2> QED
    BY <1>1, <2>2
<1>5. rd'.pc = 3 => \E z, x \in Nat : /\ rd'.a1 = Word1(z) /\ rd'.b0 = Word0(x)
                                      /\ rd'.from <= z /\ z <= x /\ x <= os' /\ z <= Second'
  <2>1. SUFFICES ASSUME rd.pc = 3
                 PROVE  \E z, x \in Nat : /\ rd.a1 = Word1(z) /\ rd.b0 = Word0(x)
                                          /\ rd.from <= z /\ z <= x /\ x <= os' /\ z <= Second'
    OBVIOUS
  <2>2. PICK z \in Nat, x \in Nat : /\ rd.a1 = Word1(z) /\ rd.b0 = Word0(x)
                                    /\ rd.from <= z /\ z <= x /\ x <= os /\ z <= Second
    BY <2>1 DEF ReaderInOrder
  <2>3. x <= os' /\ z <= Second'
    BY <1>1, <2>2
  <2> QED
    BY <2>2, <2>3
<1>6. rd'.pc = 4 => rd'.got \in Nat /\ ReadInOrder'
  BY <1>1, <1>2 DEF ReaderInOrder, ReadInOrder
<1> QED
  BY <1>2, <1>3, <1>4, <1>5, <1>6 DEF ReaderInOrder

LEMMA ReaderStops == ASSUME rd' = NoRead PROVE ReaderInOrder'
BY DEF NoRead, ReaderInOrder, ReadInOrder

\* The arithmetic of the two words: the second is of the time y, the first of x, and
\* the second reading before it of z, in the same minute of its hour as y.
LEMMA JoinedTime ==
    ASSUME NEW from \in Nat, NEW z \in Nat, NEW x \in Nat, NEW y \in Nat, NEW now \in Nat,
           NEW got, got = 3600 * (x \div 3600) + (y % 3600),
           from <= z, z <= x, x <= now, z <= y, y <= now,
           (z \div 60) % 60 = (y \div 60) % 60
    PROVE  /\ got \in Nat /\ got < now + 3600
           /\ from <= got \/ (from < got + 60 /\ now > from + 3540)
<1> DEFINE hx == x \div 3600
           hy == y \div 3600
           hz == z \div 3600
           m == (y \div 60) % 60
           sy == y % 60
           sz == z % 60
<1>1. y = 3600 * hy + 60 * m + sy /\ hy \in Nat /\ m \in 0 .. 59 /\ sy \in 0 .. 59
  OBVIOUS
<1>2. z = 3600 * hz + 60 * ((z \div 60) % 60) + sz /\ hz \in Nat /\ sz \in 0 .. 59
  OBVIOUS
<1>3. z = 3600 * hz + 60 * m + sz
  BY <1>2
<1>4. y % 3600 = 60 * m + sy
  OBVIOUS
<1>5. 3600 * hx <= x /\ x < 3600 * hx + 3600 /\ hx \in Nat
  OBVIOUS
<1>6. got = 3600 * hx + 60 * m + sy
  BY <1>1, <1>4, <1>5
<1> HIDE DEF hx, hy, hz, m, sy, sz
<1>7. got \in Nat /\ got < now + 3600
  BY <1>1, <1>5, <1>6
<1>8. hz <= hx /\ hz <= hy
  BY <1>1, <1>2, <1>3, <1>5
<1>9. CASE hz < hx
  BY <1>1, <1>2, <1>3, <1>6, <1>9, <1>5
<1>10. CASE hz = hx /\ hy = hx
  BY <1>1, <1>2, <1>3, <1>6, <1>10
<1>11. CASE hz = hx /\ hx < hy
  BY <1>1, <1>2, <1>3, <1>6, <1>11, <1>5
<1>12. hz < hx \/ (hz = hx /\ hy = hx) \/ (hz = hx /\ hx < hy)
  BY <1>1, <1>2, <1>5, <1>8
<1> QED
  BY <1>7, <1>9, <1>10, <1>11, <1>12

\* The minute is in the second word.
LEMMA MinuteOf == ASSUME NEW a \in Nat PROVE Word1(a).minute = (a \div 60) % 60
<1>1. Word1(a).minute = UTimeToSysClock(a).minute
  BY DEF Word1, Fields, Word0Fields
<1>2. UTimeToSysClock(a).minute = (a \div 60) % 60
  <2> DEFINE Minute(m) == m = (a \div 60) % 60
  <2>1. Minute((a \div 60) % 60)
    OBVIOUS
  <2> HIDE DEF Minute
  <2>2. Minute(UTimeToSysClock(a).minute)
    BY <2>1 DEF UTimeToSysClock, SysClock
  <2> QED
    BY <2>2 DEF Minute
<1> QED
  BY <1>1, <1>2

LEMMA BeginReadInOrder == ASSUME HInv, WordsInOrder, BeginRead PROVE ReaderInOrder'
<1>1. uc \in Nat /\ Second \in Nat /\ uc <= Second
  BY LastNat DEF BeginRead, WordsInOrder
<1>2. rd'.pc = 1 /\ rd'.from = uc /\ UNCHANGED <<u0, u1, uc, th, sets, overlap>> /\ Followed
  BY DEF BeginRead
<1>3. Second' = Second /\ Followed'
  BY <1>2 DEF Second, Followed
<1> QED
  BY <1>1, <1>2, <1>3 DEF ReaderInOrder

\* A word is read.
LEMMA ReadWordInOrder == ASSUME HInv, WordsInOrder, ReaderInOrder, ReadWord PROVE ReaderInOrder'
<1>1. UNCHANGED <<os, u0, u1, uc, th, sets, overlap>>
  BY DEF ReadWord
<1>2. First' = First /\ Second' = Second /\ Followed' = Followed
  BY <1>1 DEF First, Second, Followed
<1>3. os \in Nat /\ First \in Nat /\ Second \in Nat
  BY LastNat
<1>4. CASE rd.pc = 4 /\ rd' = NoRead
  BY <1>4, ReaderStops
<1>5. ASSUME rd.pc # 0
      PROVE  /\ Followed /\ Followed' /\ rd.from \in Nat
             /\ u0 = Word0(First) /\ u1 = Word1(Second) /\ Second <= First /\ First <= os
  BY <1>2, <1>5 DEF ReaderInOrder, WordsInOrder
<1>6. CASE rd.pc = 1 /\ rd' = [pc |-> 2, from |-> rd.from, a0 |-> rd.a0, a1 |-> u1]
  <2>1. rd'.pc = 2 /\ rd'.from = rd.from /\ rd'.a1 = u1
    BY <1>6
  <2>2. rd.from <= Second
    BY <1>6 DEF ReaderInOrder
  <2>3. \E z \in Nat : rd'.a1 = Word1(z) /\ rd'.from <= z /\ z <= Second'
    BY <1>2, <1>3, <1>5, <1>6, <2>1, <2>2
  <2> QED
    BY <1>5, <1>6, <2>1, <2>3 DEF ReaderInOrder
<1>7. CASE rd.pc = 2 /\ rd' = [pc |-> 3, from |-> rd.from, a0 |-> rd.a0, a1 |-> rd.a1, b0 |-> u0]
  <2>1. rd'.pc = 3 /\ rd'.from = rd.from /\ rd'.a1 = rd.a1 /\ rd'.b0 = u0
    BY <1>7
  <2>2. PICK z \in Nat : rd.a1 = Word1(z) /\ rd.from <= z /\ z <= Second
    BY <1>7 DEF ReaderInOrder
  <2>3. u0 = Word0(First) /\ Second <= First /\ First <= os
    BY <1>5, <1>7
  <2>4. z <= First
    BY <1>3, <2>2, <2>3
  <2>5. \E x \in Nat : u0 = Word0(x) /\ z <= x /\ x <= os
    BY <1>3, <2>3, <2>4
  <2>6. \E i, x \in Nat : /\ rd'.a1 = Word1(i) /\ rd'.b0 = Word0(x)
                          /\ rd'.from <= i /\ i <= x /\ x <= os' /\ i <= Second'
    BY <1>1, <1>2, <2>1, <2>2, <2>5
  <2> QED
    BY <1>5, <1>7, <2>1, <2>6 DEF ReaderInOrder
<1>8. CASE rd.pc = 3 /\ Agree(rd, u1) /\ rd' = [pc |-> 4, from |-> rd.from, got |-> UTimeOf(rd.b0, u1)]
  <2>1. rd'.pc = 4 /\ rd'.from = rd.from /\ rd'.got = UTimeOf(rd.b0, u1)
    BY <1>8
  <2>2. PICK z \in Nat, x \in Nat : /\ rd.a1 = Word1(z) /\ rd.b0 = Word0(x)
                                    /\ rd.from <= z /\ z <= x /\ x <= os /\ z <= Second
    BY <1>8 DEF ReaderInOrder
  <2> DEFINE y == Second
  <2>3. y \in Nat /\ u1 = Word1(y) /\ y <= os /\ z <= y
    BY <1>3, <1>5, <1>8, <2>2
  <2> HIDE DEF y
  <2>4. (z \div 60) % 60 = (y \div 60) % 60
    <3>1. rd.a1.minute = u1.minute
      BY <1>8 DEF Agree
    <3>2. Word1(z).minute = Word1(y).minute
      BY <2>2, <2>3, <3>1
    <3>3. Word1(z).minute = (z \div 60) % 60
      BY MinuteOf
    <3>4. Word1(y).minute = (y \div 60) % 60
      BY <2>3, MinuteOf
    <3> QED
      BY ONLY <3>2, <3>3, <3>4
  <2> DEFINE got == UTimeOf(rd.b0, u1)
  <2>5. got = 3600 * (x \div 3600) + (y % 3600)
    <3> DEFINE Mixed(i, j) == UTimeOf(Word0(i), Word1(j)) = 3600 * (i \div 3600) + (j % 3600)
    <3>1. \A i, j \in Nat : Mixed(i, j)
      BY TwoWords, SMTT(30)
    <3> HIDE DEF Mixed
    <3>2. Mixed(x, y)
      BY <2>3, <3>1
    <3>3. UTimeOf(Word0(x), Word1(y)) = 3600 * (x \div 3600) + (y % 3600)
      BY <3>2 DEF Mixed
    <3>4. got = UTimeOf(Word0(x), Word1(y))
      BY ONLY <2>2, <2>3 DEF got
    <3> QED
      BY ONLY <3>3, <3>4
  <2> HIDE DEF got
  <2>6. rd.from \in Nat
    BY <1>5, <1>8
  <2>7. got \in Nat /\ got < os + 3600 /\ (rd.from <= got \/ (rd.from < got + 60 /\ os > rd.from + 3540))
    BY <1>3, <2>2, <2>3, <2>4, <2>5, <2>6, JoinedTime
  <2>8. rd'.got = got
    BY <2>1 DEF got
  <2>9. rd'.got \in Nat /\ ReadInOrder'
    BY <1>1, <2>1, <2>7, <2>8 DEF ReadInOrder
  <2> QED
    BY <1>5, <1>8, <2>1, <2>9 DEF ReaderInOrder
<1>9. CASE rd.pc = 3 /\ rd' = [pc |-> 5, from |-> rd.from]
  <2>1. rd'.pc = 5 /\ rd'.from = rd.from
    BY <1>9
  <2>2. PICK z \in Nat, x \in Nat : rd.from <= z /\ z <= Second
    BY <1>9 DEF ReaderInOrder
  <2>3. rd'.from <= Second'
    BY <1>2, <1>3, <1>5, <1>9, <2>1, <2>2
  <2> QED
    BY <1>5, <1>9, <2>1, <2>3 DEF ReaderInOrder
<1>10. CASE rd.pc = 5 /\ rd' = [pc |-> 1, from |-> rd.from, a0 |-> u0]
  <2>1. rd'.pc = 1 /\ rd'.from = rd.from
    BY <1>10
  <2>2. rd'.from <= Second'
    BY <1>2, <1>10, <2>1 DEF ReaderInOrder
  <2> QED
    BY <1>5, <1>10, <2>1, <2>2 DEF ReaderInOrder
<1> QED
  BY <1>4, <1>6, <1>7, <1>8, <1>9, <1>10 DEF ReadWord

LEMMA InitInOrder == ASSUME ClockInit PROVE OInv
<1>1. HInv
  BY InitShown
<1>2. os \in Nat /\ uc = os
  BY InstantsNat DEF ClockInit
<1>3. th[Timer] = Idle /\ th[Client] = Idle
  BY DEF ClockInit, Timer, Client
<1>4. First = uc /\ Second = uc
  BY <1>3, IdleType DEF First, Second, Last
<1>5. WordsInOrder
  <2>1. u0 = Word0(uc) /\ u1 = Word1(uc)
    BY DEF ClockInit
  <2> QED
    BY <1>2, <1>3, <1>4, <2>1, IdleType DEF WordsInOrder, Threads
<1>6. ReaderInOrder
  BY DEF ClockInit, NoRead, ReaderInOrder, ReadInOrder
<1> QED
  BY <1>1, <1>5, <1>6 DEF OInv

LEMMA NextInOrder == ASSUME OInv, [ClockNext]_clockVars PROVE OInv'
<1>1. HInv /\ WordsInOrder /\ ReaderInOrder
  BY DEF OInv
<1>2. HInv'
  BY <1>1, NextShown
<1>3. Followed' => Followed /\ Onward
  BY <1>1, <1>2, NextOnward
<1>4. WordsInOrder'
  <2>1. CASE Followed'
    BY <1>3, <2>1 DEF Onward
  <2>2. CASE ~Followed'
    BY <2>2 DEF WordsInOrder
  <2> QED
    BY <2>1, <2>2
<1>5. ReaderInOrder'
  <2>1. CASE BeginRead
    BY <1>1, <2>1, BeginReadInOrder
  <2>2. CASE ReadWord
    BY <1>1, <2>2, ReadWordInOrder
  <2>3. CASE rd' = NoRead
    BY <2>3, ReaderStops
  <2>4. CASE UNCHANGED rd /\ rd.pc = 0
    BY <2>4 DEF ReaderInOrder, ReadInOrder
  <2>5. ASSUME UNCHANGED rd, UNCHANGED <<sets, overlap>>, rd.pc # 0 PROVE ReaderInOrder'
    <3>1. Followed /\ Followed'
      BY <1>1, <2>5 DEF ReaderInOrder, Followed
    <3> QED
      BY <1>1, <1>2, <1>3, <2>5, <3>1, ReaderKeeps
  <2>6. ASSUME NEW t \in Threads, Begin(t), UNCHANGED rd, rd' # NoRead, rd.pc # 0 PROVE ReaderInOrder'
    <3>1. ~overlap' /\ sets' = sets
      BY <2>6 DEF Begin
    <3>2. Followed /\ Followed'
      BY <1>1, <2>6, <3>1 DEF ReaderInOrder, Followed
    <3> QED
      BY <1>1, <1>2, <1>3, <2>6, <3>2, ReaderKeeps
  <2>7. \/ BeginRead \/ ReadWord \/ rd' = NoRead
        \/ UNCHANGED rd /\ UNCHANGED <<sets, overlap>>
        \/ UNCHANGED rd /\ \E t \in Threads : Begin(t)
    <3>1. ASSUME NEW t \in Threads, Begin(t) PROVE rd' = NoRead \/ UNCHANGED rd
      BY <3>1 DEF Begin
    <3>2. ASSUME NEW t \in Threads, ReadTime(t) \/ WriteWord0(t) \/ WriteWord1(t) \/ WriteUTime(t)
          PROVE  UNCHANGED rd /\ UNCHANGED <<sets, overlap>>
      BY <3>2 DEF ReadTime, WriteWord0, WriteWord1, WriteUTime
    <3>3. CASE \/ Advance \/ RTimerProc \/ SetUTime \/ FinishSet \/ UNCHANGED clockVars
               \/ (\E c \in Confs : SysAddRTimer(c)) \/ (\E s \in Slots : SysStopRTimer(s))
      BY <3>3 DEF Advance, RTimerProc, SetUTime, FinishSet, clockVars, SysAddRTimer, SysStopRTimer
    <3>4. CASE SetTimeOfDay
      BY <3>4 DEF SetTimeOfDay
    <3> QED
      BY <3>1, <3>2, <3>3, <3>4 DEF ClockNext, Threads
  <2> QED
    BY <2>1, <2>2, <2>3, <2>4, <2>5, <2>6, <2>7
<1> QED
  BY <1>2, <1>4, <1>5 DEF OInv

\* SysClockReadCurrent, which takes no lock, returns a time between the one that was
\* cached when it began and an hour after the clock, but for a loop that takes an hour.
THEOREM ReadsInOrder == ClockSpec => []ReadInOrder
<1>1. OInv => ReadInOrder
  BY DEF OInv, ReaderInOrder, ReadInOrder
<1> QED
  BY <1>1, InitInOrder, NextInOrder, PTL DEF ClockSpec

(***************************************************************************)
(* The clock timers: when they start.                                      *)
(***************************************************************************)
Units == {"minute", "hour", "day", "month"}

\* The times at which a minute, an hour, a day or a month begins.
Starts(mod) == {b \in Nat : AtPeriodStart([mod |-> mod, tbase |-> b])}

LEMMA StartsAre ==
    /\ Starts("minute") = {b \in Nat : b % 60 = 0}
    /\ Starts("hour") = {b \in Nat : b % 3600 = 0}
    /\ Starts("day") = {b \in Nat : b % Day = 0}
    /\ Starts("month") = {b \in Nat : b % Day = 0 /\ UTimeToSysClock(b).day = 1}
<1> DEFINE q(mod, b) == [mod |-> mod, tbase |-> b]
<1>1. \A b : AtPeriodStart(q("minute", b)) <=> b % 60 = 0
  BY DEF AtPeriodStart
<1>2. \A b : AtPeriodStart(q("hour", b)) <=> b % 3600 = 0
  BY DEF AtPeriodStart
<1>3. \A b : AtPeriodStart(q("day", b)) <=> b % Day = 0
  BY DEF AtPeriodStart
<1>4. \A b : AtPeriodStart(q("month", b)) <=> (b % Day = 0 /\ UTimeToSysClock(b).day = 1)
  BY DEF AtPeriodStart
<1>5. Starts("minute") = {b \in Nat : b % 60 = 0}
  BY <1>1 DEF Starts
<1>6. Starts("hour") = {b \in Nat : b % 3600 = 0}
  BY <1>2 DEF Starts
<1>7. Starts("day") = {b \in Nat : b % Day = 0}
  BY <1>3 DEF Starts
<1>8. Starts("month") = {b \in Nat : b % Day = 0 /\ UTimeToSysClock(b).day = 1}
  BY <1>4 DEF Starts
<1> QED
  BY <1>5, <1>6, <1>7, <1>8

\* A month begins with its first day.
LEMMA MonthStart ==
    ASSUME NEW y \in Nat, NEW m \in 1 .. 12
    PROVE  Day * DayNumber(y, m, 1) \in Starts("month")
<1> DEFINE N == DayNumber(y, m, 1)
           b == Day * N
<1>1. N \in Nat /\ IsDate(y, m, 1)
  BY NextMonthNumber
<1> HIDE DEF N
<1>2. b \in Nat /\ b % Day = 0 /\ b \div Day = N
  BY <1>1 DEF Day
<1> HIDE DEF b
<1>3. b \div Day = DayNumber(y, m, 1)
  BY <1>2 DEF N
<1>4. UTimeToSysClock(b).day = 1
  BY <1>1, <1>2, <1>3, DateOf
<1>5. b \in Starts("month")
  BY <1>2, <1>4, StartsAre
<1> QED
  BY <1>5 DEF b, N

LEMMA StartOfMonth ==
    ASSUME NEW b \in Starts("month")
    PROVE  LET c == UTimeToSysClock(b)
           IN  c.year \in Nat /\ c.month \in 1 .. 12 /\ b = Day * DayNumber(c.year, c.month, 1)
<1> DEFINE y == UTimeToSysClock(b).year
           m == UTimeToSysClock(b).month
           N == DayNumber(y, m, 1)
<1>1. b \in Nat /\ b % Day = 0 /\ UTimeToSysClock(b).day = 1
  BY StartsAre
<1>2. IsDate(y, m, 1) /\ N = b \div Day
  BY <1>1, DateFacts
<1>3. y \in Nat /\ m \in 1 .. 12
  BY <1>2 DEF IsDate
<1> HIDE DEF N
<1>4. b = Day * N
  BY <1>1, <1>2 DEF Day
<1> QED
  BY <1>3, <1>4 DEF N

\* Whole periods lead from a start to a later one.
LEMMA AddBounds ==
    ASSUME NEW mod \in Units, NEW k \in Nat \ {0}, NEW b \in Nat
    PROVE  /\ UTimeAdd(b, mod, k) \in Nat /\ b < UTimeAdd(b, mod, k)
           /\ UTimeAdd(b, mod, k) <= b + Longest([mod |-> mod, dev |-> k])
           /\ Longest([mod |-> mod, dev |-> k]) \in Nat
<1> DEFINE L(x) == Longest([mod |-> x, dev |-> k])
           A(x) == UTimeAdd(b, x, k)
           Good(x) == A(x) \in Nat /\ b < A(x) /\ A(x) <= b + L(x) /\ L(x) \in Nat
<1>1. Good("minute")
  <2>1. L("minute") = 60 * k
    BY DEF Longest
  <2>2. A("minute") = b + 60 * k
    BY DEF UTimeAdd
  <2> HIDE DEF L, A
  <2> QED
    BY <2>1, <2>2
<1>2. Good("hour")
  <2>1. L("hour") = 3600 * k
    BY DEF Longest
  <2>2. A("hour") = b + 3600 * k
    BY DEF UTimeAdd
  <2> HIDE DEF L, A
  <2> QED
    BY <2>1, <2>2
<1>3. Good("day")
  <2>1. L("day") = Day * k
    BY DEF Longest
  <2>2. A("day") = b + Day * k
    BY DEF UTimeAdd
  <2> HIDE DEF L, A
  <2> QED
    BY <2>1, <2>2 DEF Day
<1>4. Good("month")
  <2>1. L("month") = 31 * Day * k
    BY DEF Longest
  <2> DEFINE c == UTimeToSysClock(b)
             total == DayNumber(YearAfter(c.year, c.month, k), MonthAfter(c.month, k), 1)
                      - DayNumber(c.year, c.month, 1)
  <2>2. k \in Nat
    OBVIOUS
  <2>3. A("month") = b + total * Day /\ total \in Nat /\ 28 * k <= total /\ total <= 31 * k
    BY <2>2, SameDayOn
  <2> HIDE DEF L, A, total
  <2> QED
    BY <2>1, <2>2, <2>3 DEF Day
<1> HIDE DEF Good
<1>5. Good(mod)
  BY <1>1, <1>2, <1>3, <1>4 DEF Units
<1> QED
  BY <1>5 DEF Good

LEMMA AddKeepsStart ==
    ASSUME NEW mod \in Units, NEW k \in Nat \ {0}, NEW b \in Starts(mod)
    PROVE  UTimeAdd(b, mod, k) \in Starts(mod)
<1>0. b \in Nat /\ k \in Nat
  BY DEF Starts
<1>1. CASE mod = "minute"
  <2>1. b % 60 = 0
    BY <1>1, StartsAre
  <2>2. b + 60 * k \in Nat /\ (b + 60 * k) % 60 = 0
    BY <1>0, <2>1
  <2>3. UTimeAdd(b, "minute", k) = b + 60 * k
    BY DEF UTimeAdd
  <2>4. UTimeAdd(b, "minute", k) \in Starts("minute")
    BY <2>2, <2>3, StartsAre
  <2> QED
    BY <1>1, <2>4
<1>2. CASE mod = "hour"
  <2>1. b % 3600 = 0
    BY <1>2, StartsAre
  <2>2. b + 3600 * k \in Nat /\ (b + 3600 * k) % 3600 = 0
    BY <1>0, <2>1
  <2>3. UTimeAdd(b, "hour", k) = b + 3600 * k
    BY DEF UTimeAdd
  <2>4. UTimeAdd(b, "hour", k) \in Starts("hour")
    BY <2>2, <2>3, StartsAre
  <2> QED
    BY <1>2, <2>4
<1>3. CASE mod = "day"
  <2>1. b % Day = 0
    BY <1>3, StartsAre
  <2>2. b + Day * k \in Nat /\ (b + Day * k) % Day = 0
    BY <1>0, <2>1 DEF Day
  <2>3. UTimeAdd(b, "day", k) = b + Day * k
    BY DEF UTimeAdd
  <2>4. UTimeAdd(b, "day", k) \in Starts("day")
    BY <2>2, <2>3, StartsAre
  <2> QED
    BY <1>3, <2>4
<1>4. CASE mod = "month"
  <2> DEFINE y == UTimeToSysClock(b).year
             m == UTimeToSysClock(b).month
             N == DayNumber(y, m, 1)
             y2 == YearAfter(y, m, k)
             m2 == MonthAfter(m, k)
             M == DayNumber(y2, m2, 1)
             total == M - N
  <2>1. y \in Nat /\ m \in 1 .. 12 /\ b = Day * N
    BY <1>4, StartOfMonth
  <2>2. UTimeAdd(b, "month", k) = b + total * Day
    BY <1>0, SameDayOn
  <2>3. y2 \in Nat /\ m2 \in 1 .. 12
    <3> HIDE DEF y, m
    <3>1. MonthsFollow(y, m, k)
      BY <1>0, <2>1, AfterStep
    <3> QED
      BY <3>1 DEF MonthsFollow
  <2> HIDE DEF y2, m2
  <2>4. M \in Nat /\ Day * M \in Starts("month")
    BY <2>3, NextMonthNumber, MonthStart
  <2>5. N \in Nat
    BY <2>1, NextMonthNumber
  <2>6. b + total * Day = Day * M
    <3> HIDE DEF M, N
    <3> QED
      BY <2>1, <2>4, <2>5 DEF Day
  <2> QED
    BY <1>4, <2>2, <2>4, <2>6
<1> QED
  BY <1>1, <1>2, <1>3, <1>4 DEF Units

\* The clock from which periods are counted.
PeriodClock(mod, c) ==
    [c EXCEPT !.month = IF mod = "month" THEN 1 ELSE @,
              !.day = IF mod \in {"month", "day"} THEN 1 ELSE @,
              !.hour = IF mod = "minute" THEN @ ELSE 0,
              !.minute = 0, !.second = 0]

LEMMA PeriodClockParts ==
    ASSUME NEW mod, NEW u \in Nat
    PROVE  LET c == UTimeToSysClock(u)
               d == PeriodClock(mod, c)
           IN  /\ d.year = c.year /\ d.month = (IF mod = "month" THEN 1 ELSE c.month)
               /\ d.day = (IF mod \in {"month", "day"} THEN 1 ELSE c.day)
               /\ d.hour = (IF mod = "minute" THEN c.hour ELSE 0)
               /\ d.minute = 0 /\ d.second = 0
<1> DEFINE c == UTimeToSysClock(u)
<1>1. c = SysClock(c.year, c.month, c.day, c.hour, c.minute, c.second, c.week)
  BY TimeOfDay DEF ShowsTime
<1> HIDE DEF c
<1> DEFINE d == PeriodClock(mod, c)
<1>2. /\ d.year = c.year /\ d.month = (IF mod = "month" THEN 1 ELSE c.month)
      /\ d.day = (IF mod \in {"month", "day"} THEN 1 ELSE c.day)
      /\ d.hour = (IF mod = "minute" THEN c.hour ELSE 0)
      /\ d.minute = 0 /\ d.second = 0
  BY <1>1 DEF SysClock, PeriodClock
<1> QED
  BY <1>2 DEF c

\* Periods are counted from the beginning of one.
LEMMA PeriodsFromStart ==
    ASSUME NEW mod \in Units, NEW u \in Nat
    PROVE  PeriodsFrom(mod, u) \in Starts(mod) /\ PeriodsFrom(mod, u) <= u
<1> DEFINE c == UTimeToSysClock(u)
           d == PeriodClock(mod, c)
           N == DayNumber(d.year, d.month, d.day)
           C == DayNumber(c.year, c.month, c.day)
<1>1. PeriodsFrom(mod, u) = SysClockToUTime(d)
  BY DEF PeriodsFrom, PeriodClock
<1>2. /\ d.year = c.year /\ d.month = (IF mod = "month" THEN 1 ELSE c.month)
      /\ d.day = (IF mod \in {"month", "day"} THEN 1 ELSE c.day)
      /\ d.hour = (IF mod = "minute" THEN c.hour ELSE 0)
      /\ d.minute = 0 /\ d.second = 0
  BY PeriodClockParts
<1>3. IsDate(c.year, c.month, c.day) /\ C = u \div Day
  BY DateFacts
<1>4. c.hour = (u \div 3600) % 24
  <2>1. ShowsTime(c, u)
    BY TimeOfDay
  <2> HIDE DEF c
  <2> QED
    BY <2>1 DEF ShowsTime
<1> HIDE DEF c, d
<1>5. c.year \in Nat /\ c.month \in 1 .. 12 /\ c.day \in 1 .. MonthDays(c.year, c.month) /\ 1 \in 1 .. 12
  BY <1>3 DEF IsDate
<1>6. IsDate(d.year, d.month, d.day)
  <2>1. IsDate(c.year, c.month, 1) /\ IsDate(c.year, 1, 1)
    BY <1>5, NextMonthNumber
  <2>2. CASE mod = "month"
    BY <2>1, <2>2, <1>2
  <2>3. CASE mod = "day"
    BY <2>1, <2>3, <1>2
  <2>4. CASE mod \in {"minute", "hour"}
    BY <1>3, <2>4, <1>2
  <2> QED
    BY <2>2, <2>3, <2>4 DEF Units
<1>7. c.hour \in Nat /\ d.hour \in Nat /\ d.minute \in Nat /\ d.second \in Nat
  BY <1>2, <1>4
<1>8. SysClockToUTime(d) = Day * N + 3600 * d.hour + 60 * d.minute + d.second
  BY <1>6, <1>7, SecondsOf
<1>9. N \in Nat
  BY <1>6, DayInYear
<1>10. PeriodsFrom(mod, u) = Day * N + 3600 * d.hour
  <2> HIDE DEF N
  <2> QED
    BY <1>1, <1>2, <1>7, <1>8, <1>9 DEF Day
<1>11. N <= C
  <2>1. CASE mod = "month"
    <3>1. N = DaysBeforeYear(c.year) + DaysBefore(c.year, 1) + (1 - 1)
      BY <2>1, <1>2 DEF DayNumber
    <3>2. DaysBefore(c.year, 1) = 0 /\ DaysBeforeYear(c.year) \in Nat
      BY <1>5, FirstMonth, YearLengths
    <3>3. DaysBeforeYear(c.year) <= C /\ C \in Nat
      BY <1>3, DayInYear
    <3> HIDE DEF N, C
    <3> QED
      BY <3>1, <3>2, <3>3
  <2>2. CASE mod = "day"
    <3>1. N = DaysBeforeYear(c.year) + DaysBefore(c.year, c.month) + (1 - 1)
      BY <2>2, <1>2 DEF DayNumber
    <3>2. C = DaysBeforeYear(c.year) + DaysBefore(c.year, c.month) + (c.day - 1)
      BY DEF DayNumber
    <3>3. DaysBeforeYear(c.year) \in Nat
      BY <1>5, YearLengths
    <3>4. DaysBefore(c.year, c.month) \in Nat /\ MonthDays(c.year, c.month) \in 28 .. 31
      BY <1>5, MonthLength
    <3>5. c.day \in Nat /\ c.day >= 1
      BY <1>5, <3>4
    <3> HIDE DEF N, C
    <3> QED
      BY <3>1, <3>2, <3>3, <3>4, <3>5
  <2>3. CASE mod \in {"minute", "hour"}
    <3>1. N = C
      BY <2>3, <1>2
    <3> QED
      BY <3>1, <1>9
  <2> QED
    BY <2>1, <2>2, <2>3 DEF Units
<1>12. PeriodsFrom(mod, u) \in Nat /\ PeriodsFrom(mod, u) <= u
  <2> DEFINE h == (u \div 3600) % 24
             D == u \div Day
  <2>1. Day * D + 3600 * h <= u /\ D \in Nat /\ h \in Nat
    BY DEF Day
  <2>2. d.hour <= h
    BY <1>2, <1>4, <2>1
  <2> HIDE DEF D, h, N, C
  <2>3. C = D
    BY <1>3 DEF D
  <2> QED
    BY <1>7, <1>9, <1>10, <1>11, <2>1, <2>2, <2>3 DEF Day
<1>13. PeriodsFrom(mod, u) \in Starts(mod)
  <2> DEFINE e == d.hour
  <2> HIDE DEF N, e
  <2>0. e \in Nat /\ PeriodsFrom(mod, u) = Day * N + 3600 * e
    BY <1>7, <1>10 DEF e
  <2>1. CASE mod = "month"
    <3>1. e = 0 /\ N = DayNumber(c.year, 1, 1)
      BY <2>1, <1>2 DEF e, N
    <3>2. PeriodsFrom(mod, u) = Day * N
      BY <2>0, <3>1, <1>9 DEF Day
    <3>3. Day * DayNumber(c.year, 1, 1) \in Starts("month")
      BY <1>5, MonthStart
    <3> QED
      BY <2>1, <3>1, <3>2, <3>3
  <2>2. CASE mod = "day"
    <3>1. e = 0
      BY <2>2, <1>2 DEF e
    <3>2. PeriodsFrom(mod, u) % Day = 0
      BY <2>0, <3>1, <1>9 DEF Day
    <3> QED
      BY <2>2, <3>2, <1>12, StartsAre
  <2>3. CASE mod = "hour"
    <3>2. PeriodsFrom(mod, u) % 3600 = 0
      BY <2>0, <1>9 DEF Day
    <3> QED
      BY <2>3, <3>2, <1>12, StartsAre
  <2>4. CASE mod = "minute"
    <3>2. PeriodsFrom(mod, u) % 60 = 0
      BY <2>0, <1>9 DEF Day
    <3> QED
      BY <2>4, <3>2, <1>12, StartsAre
  <2> QED
    BY <2>1, <2>2, <2>3, <2>4 DEF Units
<1> QED
  BY <1>12, <1>13

GoesUntil(f, add, stop) == f = [b \in Nat |-> IF b \in stop THEN b ELSE f[add[b]]]
Reaches(f, base, add, stop, I) ==
    f[base] \in I \cap stop /\ (f[base] = base \/ \E q \in I \ stop : f[base] = add[q])

\* Going on until a number of stop is reached: what the recursive function of
\* StartAfter is, whether or not one is.
LEMMA GoExists ==
    ASSUME NEW add \in [Nat -> Nat], NEW stop \in SUBSET Nat
    PROVE  \E f : GoesUntil(f, add, stop)
<1> DEFINE Closed(C) == \A x \in C : x \notin stop => add[x] \in C
           S(b) == {r \in stop : \A C \in SUBSET Nat : b \in C /\ Closed(C) => r \in C}
           Pick(T) == CHOOSE r : r \in T
           f == [b \in Nat |-> Pick(S(b))]
<1>1. ASSUME NEW b \in stop PROVE f[b] = b
  <2>1. {b} \in SUBSET Nat /\ b \in {b} /\ Closed({b})
    OBVIOUS
  <2>2. S(b) = {b}
    BY <2>1
  <2>3. Pick({b}) = b
    OBVIOUS
  <2> QED
    BY <2>2, <2>3
<1>2. ASSUME NEW b \in Nat \ stop PROVE f[b] = f[add[b]]
  <2>1. ASSUME NEW r \in S(b) PROVE r \in S(add[b])
    <3>1. r \in stop /\ r # b
      OBVIOUS
    <3>2. ASSUME NEW C \in SUBSET Nat, add[b] \in C, Closed(C) PROVE r \in C
      <4>1. C \cup {b} \in SUBSET Nat /\ b \in C \cup {b} /\ Closed(C \cup {b})
        BY <3>2
      <4>2. r \in C \cup {b}
        BY <4>1
      <4> QED
        BY <3>1, <4>2
    <3> QED
      BY <3>1, <3>2
  <2>2. ASSUME NEW r \in S(add[b]) PROVE r \in S(b)
    OBVIOUS
  <2>3. S(b) = S(add[b])
    <3> HIDE DEF S
    <3>1. \A r : r \in S(b) <=> r \in S(add[b])
      BY <2>1, <2>2
    <3> QED
      BY <3>1
  <2>4. add[b] \in Nat
    OBVIOUS
  <2> HIDE DEF S, Pick
  <2>5. f[b] = Pick(S(b)) /\ f[add[b]] = Pick(S(add[b]))
    BY <2>4
  <2> QED
    BY <2>3, <2>5
<1>3. f = [b \in Nat |-> f[b]]
  OBVIOUS
<1> HIDE DEF f
<1>4. \A b \in Nat : f[b] = IF b \in stop THEN b ELSE f[add[b]]
  BY <1>1, <1>2
<1>5. f = [b \in Nat |-> IF b \in stop THEN b ELSE f[add[b]]]
  BY <1>3, <1>4
<1> QED
  BY <1>5 DEF GoesUntil

\* Steps that go up end at the first number of stop.
LEMMA GoStops ==
    ASSUME NEW add \in [Nat -> Nat], \A b \in Nat : b < add[b],
           NEW now \in Nat, NEW stop \in SUBSET Nat, \A b \in Nat \ stop : b <= now,
           NEW I \in SUBSET Nat, \A b \in I : add[b] \in I,
           NEW f, GoesUntil(f, add, stop),
           NEW base \in I
    PROVE  Reaches(f, base, add, stop, I)
<1> DEFINE Good(b) == f[b] \in I \cap stop /\ (f[b] = b \/ \E q \in I \ stop : f[b] = add[q])
           T == {b \in I : ~Good(b)}
           W == {x \in Nat : \E b \in T : b <= now /\ x = now - b}
<1>0. \A b \in Nat : f[b] = IF b \in stop THEN b ELSE f[add[b]]
  BY Zenon DEF GoesUntil
<1>1. ASSUME NEW b \in I, b \in stop PROVE Good(b)
  <2>1. f[b] = b
    BY <1>0, <1>1
  <2> QED
    BY <1>1, <2>1
<1>2. ASSUME NEW b \in I, b \notin stop, Good(add[b]) PROVE Good(b)
  <2>1. f[b] = f[add[b]]
    BY <1>0, <1>2
  <2>2. b \in I \ stop
    BY <1>2
  <2> QED
    BY <1>2, <2>1, <2>2
<1> SUFFICES ASSUME T # {} PROVE FALSE
  BY DEF Reaches
<1>3. \A b \in T : b \in Nat /\ b \notin stop /\ b <= now
  BY <1>1
<1> HIDE DEF Good
<1>4. W \subseteq Nat /\ W # {}
  <2>1. PICK b \in T : TRUE
    OBVIOUS
  <2>2. b \in Nat /\ b <= now
    BY <1>3
  <2>3. now - b \in Nat
    BY <2>2
  <2>4. now - b \in W
    BY <2>2, <2>3
  <2> QED
    BY <2>4
<1> HIDE DEF W
<1>5. PICK x \in W : \A y \in W : x <= y
  BY <1>4, LeastOf
<1>6. PICK b \in T : b <= now /\ x = now - b
  BY DEF W
<1>7. b \in I /\ b \in Nat /\ b \notin stop /\ b <= now
  BY <1>3
<1>8. add[b] \in I /\ add[b] \in Nat /\ b < add[b]
  BY <1>7
<1>9. add[b] \in T
  BY <1>2, <1>7, <1>8
<1>10. add[b] <= now
  BY <1>3, <1>9
<1> DEFINE a == add[b]
<1> HIDE DEF a
<1>11. a \in Nat /\ b < a /\ a <= now /\ a \in T
  BY <1>8, <1>9, <1>10 DEF a
<1>12. now - a \in Nat /\ now - a < x
  BY <1>6, <1>7, <1>11
<1>13. now - a \in W
  BY <1>11, <1>12 DEF W
<1> QED
  BY <1>5, <1>6, <1>7, <1>12, <1>13

RTimers == [bonce : BOOLEAN, dev : Nat \ {0}, mod : Units, basetime : Nat, tbase : Nat, tstart : Nat]

\* A timer that repeats starts at the beginning of a period, and not far after lim.
StillDue(r, lim) ==
    ~r.bonce => /\ r.tstart = r.tbase + r.basetime /\ AtPeriodStart(r)
                /\ r.tstart <= lim + Furthest(r)

WithStart(r, g) == [r EXCEPT !.tbase = g, !.tstart = g + r.basetime]

LEMMA PartsOf ==
    ASSUME NEW r \in RTimers
    PROVE  /\ r.mod \in Units /\ r.dev \in Nat \ {0} /\ r.basetime \in Nat
           /\ r.tbase \in Nat /\ r.tstart \in Nat /\ r.bonce \in BOOLEAN
           /\ AtPeriodStart(r) <=> r.tbase \in Starts(r.mod)
           /\ Longest(r) = Longest([mod |-> r.mod, dev |-> r.dev])
           /\ Longest(r) \in Nat /\ Furthest(r) \in Nat
<1>1. /\ r.mod \in Units /\ r.dev \in Nat \ {0} /\ r.basetime \in Nat
      /\ r.tbase \in Nat /\ r.tstart \in Nat
  BY DEF RTimers
<1>2. r.bonce \in BOOLEAN
  BY DEF RTimers
<1> DEFINE a == [mod |-> r.mod, tbase |-> r.tbase]
           l == [mod |-> r.mod, dev |-> r.dev]
<1>3. a.mod = r.mod /\ a.tbase = r.tbase /\ l.mod = r.mod /\ l.dev = r.dev
  OBVIOUS
<1> HIDE DEF a, l
<1>4. AtPeriodStart(r) <=> AtPeriodStart(a)
  BY <1>3 DEF AtPeriodStart
<1>5. AtPeriodStart(r) <=> r.tbase \in Starts(r.mod)
  BY <1>1, <1>4 DEF Starts, a
<1>6. Longest(r) = Longest(l)
  BY <1>3 DEF Longest
<1>7. Longest([mod |-> r.mod, dev |-> r.dev]) \in Nat
  <2>1. 0 \in Nat
    OBVIOUS
  <2> QED
    BY <1>1, <2>1, AddBounds
<1>8. Longest(r) = Longest([mod |-> r.mod, dev |-> r.dev])
  BY <1>6 DEF l
<1>9. Furthest(r) \in Nat
  BY <1>1, <1>7, <1>8 DEF Furthest
<1> QED
  BY <1>1, <1>2, <1>5, <1>7, <1>8, <1>9

\* What StartAfter finds: the first start of a period whose base time is after now.
LEMMA StartFound ==
    ASSUME NEW r \in RTimers, NEW now \in Nat, NEW base \in Starts(r.mod)
    PROVE  \E g \in Starts(r.mod) :
               /\ StartAfter(r, base, now) = WithStart(r, g)
               /\ now < g + r.basetime
               /\ g = base \/ g + r.basetime <= now + Longest(r)
<1> DEFINE Eq(f) == f = [b \in Nat |-> IF now < b + r.basetime THEN b
                                       ELSE f[UTimeAdd(b, r.mod, r.dev)]]
           G == CHOOSE f : Eq(f)
           I == Starts(r.mod)
           add == [b \in Nat |-> UTimeAdd(b, r.mod, r.dev)]
           stop == {b \in Nat : now < b + r.basetime}
<1>1. r.mod \in Units /\ r.dev \in Nat \ {0} /\ r.basetime \in Nat /\ r.tbase \in Nat /\ r.tstart \in Nat
  BY PartsOf
<1>2. StartAfter(r, base, now) = [r EXCEPT !.tbase = G[base], !.tstart = G[base] + r.basetime]
  BY DEF StartAfter
<1>3. \A b \in Nat : /\ UTimeAdd(b, r.mod, r.dev) \in Nat /\ b < UTimeAdd(b, r.mod, r.dev)
                     /\ UTimeAdd(b, r.mod, r.dev) <= b + Longest(r)
  <2>1. Longest(r) = Longest([mod |-> r.mod, dev |-> r.dev])
    BY PartsOf
  <2> QED
    BY <1>1, <2>1, AddBounds
<1>4. add \in [Nat -> Nat] /\ \A b \in Nat : b < add[b] /\ add[b] <= b + Longest(r)
  BY <1>3
<1>5. stop \in SUBSET Nat /\ \A b \in Nat \ stop : b + r.basetime <= now /\ b <= now
  BY <1>1
<1>6. I \in SUBSET Nat /\ \A b \in I : add[b] \in I
  <2>1. I \in SUBSET Nat
    BY DEF Starts
  <2>2. \A b \in I : UTimeAdd(b, r.mod, r.dev) \in I
    BY <1>1, AddKeepsStart
  <2> QED
    BY <2>1, <2>2
<1>7. \A f : Eq(f) <=> GoesUntil(f, add, stop)
  BY DEF GoesUntil
<1> HIDE DEF Eq, add, stop, I
<1>8. \E f : Eq(f)
  BY <1>4, <1>5, <1>7, GoExists
<1>9. Eq(G)
  BY <1>8
<1> HIDE DEF G
<1>10. GoesUntil(G, add, stop)
  BY <1>7, <1>9
<1>11. base \in I
  BY DEF I
<1>12. /\ \A b \in Nat : b < add[b]
       /\ \A b \in Nat \ stop : b <= now
       /\ \A b \in I : add[b] \in I
  BY <1>4, <1>5, <1>6
<1>13. G[base] \in I \cap stop /\ (G[base] = base \/ \E q \in I \ stop : G[base] = add[q])
  <2>1. add \in [Nat -> Nat] /\ stop \in SUBSET Nat /\ I \in SUBSET Nat
    BY <1>4, <1>5, <1>6
  <2>2. Reaches(G, base, add, stop, I)
    BY ONLY now \in Nat, <2>1, <1>10, <1>11, <1>12, GoStops
  <2> QED
    BY <2>2 DEF Reaches
<1> DEFINE g == G[base]
<1> HIDE DEF g
<1>14. g \in I /\ g \in Nat /\ now < g + r.basetime
  BY <1>6, <1>13 DEF stop, g
<1>15. g = base \/ g + r.basetime <= now + Longest(r)
  <2>1. CASE \E q \in I \ stop : G[base] = add[q]
    <3>1. PICK q \in I \ stop : g = add[q]
      BY <2>1 DEF g
    <3>2. q \in Nat /\ q + r.basetime <= now /\ g <= q + Longest(r) /\ Longest(r) \in Nat
      BY <3>1, <1>4, <1>5, <1>6, PartsOf
    <3> QED
      BY <1>1, <1>14, <3>2
  <2> QED
    BY <2>1, <1>13 DEF g
<1>16. StartAfter(r, base, now) = WithStart(r, g)
  BY <1>2 DEF g, WithStart
<1> QED
  BY <1>14, <1>15, <1>16 DEF I

\* A timer with another start.
LEMMA Moved ==
    ASSUME NEW r \in RTimers, NEW g \in Starts(r.mod), NEW lim \in Int,
           g + r.basetime <= lim + Furthest(r)
    PROVE  WithStart(r, g) \in RTimers /\ StillDue(WithStart(r, g), lim)
<1> DEFINE s == g + r.basetime
           q == [r EXCEPT !.tbase = g, !.tstart = s]
<1>1. g \in Nat /\ s \in Nat /\ r.mod \in Units /\ r.basetime \in Nat
  <2>1. g \in Nat
    BY DEF Starts
  <2>2. r.mod \in Units /\ r.basetime \in Nat
    BY PartsOf
  <2> QED
    BY <2>1, <2>2
<1> HIDE DEF s
<1>2. /\ q \in RTimers /\ q.tbase = g /\ q.tstart = s /\ q.bonce = r.bonce
      /\ q.mod = r.mod /\ q.dev = r.dev /\ q.basetime = r.basetime
  BY <1>1 DEF RTimers
<1> HIDE DEF q
<1>3. AtPeriodStart(q)
  BY <1>2, PartsOf
<1>4. Longest(q) = Longest(r)
  BY <1>2 DEF Longest
<1>5. Furthest(q) = Furthest(r)
  BY <1>2, <1>4 DEF Furthest
<1>6. q.tstart <= lim + Furthest(q)
  BY <1>2, <1>5 DEF s
<1>7. q.tstart = q.tbase + q.basetime
  BY <1>2 DEF s
<1> QED
  BY <1>2, <1>3, <1>6, <1>7 DEF StillDue, q, s, WithStart

LEMMA DueLater ==
    ASSUME NEW r \in RTimers, NEW a \in Int, NEW b \in Int, a <= b, StillDue(r, a)
    PROVE  StillDue(r, b)
<1>1. r.tstart \in Nat /\ Furthest(r) \in Nat
  BY PartsOf
<1> QED
  BY <1>1 DEF StillDue

\* RecalRTimerP brings a timer near the time it is given.
LEMMA RecalDue ==
    ASSUME NEW r \in RTimers, NEW now \in Nat
    PROVE  RecalRTimerP(r, now) \in RTimers /\ StillDue(RecalRTimerP(r, now), now)
<1>1. CASE r.bonce
  BY <1>1 DEF RecalRTimerP, StillDue
<1>2. CASE ~r.bonce
  <2> DEFINE base == PeriodsFrom(r.mod, now)
  <2>1. RecalRTimerP(r, now) = StartAfter(r, base, now)
    BY <1>2 DEF RecalRTimerP
  <2>2. r.mod \in Units /\ r.basetime \in Nat /\ Longest(r) \in Nat
    BY PartsOf
  <2>3. base \in Starts(r.mod) /\ base <= now /\ base \in Nat
    BY <2>2, PeriodsFromStart DEF Starts
  <2> HIDE DEF base
  <2>4. PICK g \in Starts(r.mod) :
            /\ StartAfter(r, base, now) = WithStart(r, g)
            /\ now < g + r.basetime
            /\ g = base \/ g + r.basetime <= now + Longest(r)
    BY <2>3, StartFound
  <2>5. g \in Nat
    BY DEF Starts
  <2>6. g + r.basetime <= now + Furthest(r)
    BY <2>2, <2>3, <2>4, <2>5 DEF Furthest
  <2>7. now \in Int
    OBVIOUS
  <2> QED
    BY <2>1, <2>4, <2>6, <2>7, Moved
<1> QED
  BY <1>1, <1>2

LEMMA EmptyApart == Empty \notin RTimers
<1>1. \A r \in RTimers : DOMAIN r = {"bonce", "dev", "mod", "basetime", "tbase", "tstart"}
  BY DEF RTimers
<1>2. DOMAIN Empty = {"flag"}
  BY DEF Empty
<1> QED
  BY <1>1, <1>2

\* RTimerProc for one timer that is due by lim, at a time not after lim.
LEMMA StepDue ==
    ASSUME NEW r \in RTimers, NEW now \in Nat, NEW lim \in Int, now <= lim, StillDue(r, lim)
    PROVE  \/ RTimerStep(r, now) = Empty
           \/ RTimerStep(r, now) \in RTimers /\ StillDue(RTimerStep(r, now), lim)
<1>0. /\ r # Empty /\ r.tstart \in Nat /\ r.mod \in Units /\ r.basetime \in Nat
      /\ r.bonce \in BOOLEAN /\ Longest(r) \in Nat
  BY PartsOf, EmptyApart
<1>1. CASE now < r.tstart
  <2>1. RTimerStep(r, now) = r
    BY <1>0, <1>1 DEF RTimerStep
  <2> QED
    BY <2>1
<1>2. CASE ~(now < r.tstart) /\ r.bonce
  <2>1. RTimerStep(r, now) = Empty
    BY <1>0, <1>2 DEF RTimerStep
  <2> QED
    BY <2>1
<1>3. CASE ~(now < r.tstart) /\ ~r.bonce /\ now - r.tstart > 3600
  <2>1. RTimerStep(r, now) = RecalRTimerP(r, now)
    BY <1>0, <1>3 DEF RTimerStep
  <2>2. RecalRTimerP(r, now) \in RTimers /\ StillDue(RecalRTimerP(r, now), now)
    BY RecalDue
  <2>3. now \in Int
    OBVIOUS
  <2>4. StillDue(RecalRTimerP(r, now), lim)
    BY <2>2, <2>3, DueLater
  <2> QED
    BY <2>1, <2>2, <2>4
<1>4. CASE ~(now < r.tstart) /\ ~r.bonce /\ ~(now - r.tstart > 3600)
  <2>1. RTimerStep(r, now) = StartAfter(r, r.tbase, now)
    BY <1>0, <1>4 DEF RTimerStep
  <2>2. r.tbase \in Starts(r.mod) /\ r.tstart = r.tbase + r.basetime
    <3>1. AtPeriodStart(r) /\ r.tstart = r.tbase + r.basetime
      BY <1>4 DEF StillDue
    <3> QED
      BY <3>1, PartsOf
  <2>3. PICK g \in Starts(r.mod) :
            /\ StartAfter(r, r.tbase, now) = WithStart(r, g)
            /\ now < g + r.basetime
            /\ g = r.tbase \/ g + r.basetime <= now + Longest(r)
    BY <2>2, StartFound
  <2>4. g \in Nat
    BY DEF Starts
  <2>5. g + r.basetime <= now + Longest(r)
    BY <2>2, <2>3, <1>0, <1>4
  <2>6. Longest(r) <= Furthest(r) /\ Furthest(r) \in Nat
    BY <1>0 DEF Furthest
  <2>7. g + r.basetime <= lim + Furthest(r)
    BY <1>0, <2>4, <2>5, <2>6
  <2> QED
    BY <2>1, <2>3, <2>7, Moved
<1> QED
  BY <1>0, <1>1, <1>2, <1>3, <1>4

(***************************************************************************)
(* The clock timers, as long as no two calls overlap: they are due within  *)
(* a period of the cached time.                                            *)
(***************************************************************************)
\* A thread that is in no call.
Resting(r) == r.pc = "idle" /\ r.call = "none"

\* The words and the cached time in the course of one call.
Course(r) ==
    /\ r.pc = "idle" => r.call = "none"
    /\ r.pc \in {"idle", "time", "done"} => u0 = Word0(uc) /\ u1 = Word1(uc)
    /\ r.pc # "setutime" => uc <= os
    /\ r.pc \in {"word0", "word1", "utime"} => uc <= r.val /\ r.val <= os
    /\ r.pc \in {"word1", "utime"} => u0 = Word0(r.val)
    /\ r.pc = "utime" => u1 = Word1(r.val)
    /\ r.pc = "setutime" => r.call = "setting" /\ r.before = uc /\ r.val = r.new /\ r.new <= os
    /\ r.call = "setting" => r.pc \in {"setutime", "word0", "word1"}
    /\ r.call = "setting" /\ r.pc # "setutime" => uc = r.new /\ r.val = r.new
    /\ r.call = "check" => r.new <= uc
    /\ r.call \in {"setting", "check"} => sets >= 1

Alone(t) == Course(th[t]) /\ \A o \in Threads \ {t} : Resting(th[o])

OneCall == ~overlap => \E t \in Threads : Alone(t)

\* While the clock is being set, timers count from the time before, or already from
\* the new one.
Setting == {"setting", "check"}
DueNow(r, c) ==
    IF c.call \in Setting
    THEN StillDue(r, c.before + 300 * (sets - 1)) \/ (c.pc # "setutime" /\ StillDue(r, uc + 300 * sets))
    ELSE StillDue(r, uc + 300 * sets)

StayDue == \A r \in RTimers : DueNow(r, th[Client]) => DueNow(r, th[Client])'

LEMMA TypesNat ==
    ASSUME HInv
    PROVE  /\ os \in Nat /\ uc \in Nat /\ sets \in Nat /\ overlap \in BOOLEAN
           /\ th \in [Threads -> Locals] /\ \A t \in Threads : th[t] \in Locals
           /\ \A t \in Threads : /\ th[t].val \in Nat /\ th[t].new \in Nat /\ th[t].before \in Nat
                                 /\ th[t].pc \in Pcs /\ th[t].call \in Calls
<1>1. os \in Nat /\ uc \in Nat /\ sets \in Nat /\ th \in [Threads -> Locals]
  BY InstantsNat DEF HInv, ClockType
<1>2. overlap \in BOOLEAN
  BY DEF HInv, ClockType
<1>3. \A t \in Threads : th[t] \in Locals
  BY <1>1
<1>4. \A t \in Threads : /\ th[t].val \in Nat /\ th[t].new \in Nat /\ th[t].before \in Nat
                         /\ th[t].pc \in Pcs /\ th[t].call \in Calls
  BY <1>3 DEF Locals
<1> QED
  BY <1>1, <1>2, <1>3, <1>4

\* Whoever is in a call is alone.
LEMMA InCall ==
    ASSUME OneCall, ~overlap, NEW t \in Threads, th[t].pc # "idle"
    PROVE  Alone(t)
<1>1. PICK o \in Threads : Alone(o)
  BY DEF OneCall
<1>2. o = t
  BY <1>1 DEF Alone, Resting
<1> QED
  BY <1>1, <1>2

LEMMA DueKept ==
    ASSUME HInv, HInv', sets' = sets,
           th'[Client].call \in Setting <=> th[Client].call \in Setting,
           th[Client].call \in Setting =>
               /\ th'[Client].before = th[Client].before
               /\ th[Client].pc # "setutime" => th'[Client].pc # "setutime",
           (th[Client].call \in Setting /\ th[Client].pc = "setutime") \/ uc <= uc'
    PROVE  StayDue
<1> SUFFICES ASSUME NEW r \in RTimers, DueNow(r, th[Client]) PROVE DueNow(r, th[Client])'
  BY DEF StayDue
<1> DEFINE c == th[Client]
           d == th'[Client]
<1>1. uc \in Nat /\ uc' \in Nat /\ sets \in Nat
  BY DEF HInv, ClockType
<1>2. ASSUME uc <= uc', StillDue(r, uc + 300 * sets) PROVE StillDue(r, uc' + 300 * sets)
  <2>1. uc + 300 * sets \in Int /\ uc' + 300 * sets \in Int /\ uc + 300 * sets <= uc' + 300 * sets
    BY <1>1, <1>2
  <2> QED
    BY <1>2, <2>1, DueLater
<1>3. CASE c.call \notin Setting
  <2>1. StillDue(r, uc' + 300 * sets)
    BY <1>2, <1>3 DEF DueNow
  <2> QED
    BY <1>3, <2>1 DEF DueNow
<1>4. CASE c.call \in Setting
  <2>1. CASE StillDue(r, c.before + 300 * (sets - 1))
    <3>1. StillDue(r, d.before + 300 * (sets - 1))
      BY <1>4, <2>1
    <3> QED
      BY <1>4, <3>1 DEF DueNow
  <2>2. CASE c.pc # "setutime" /\ StillDue(r, uc + 300 * sets)
    <3>1. StillDue(r, uc' + 300 * sets)
      BY <1>2, <2>2
    <3>2. d.pc # "setutime"
      BY <1>4, <2>2
    <3> QED
      BY <1>4, <3>1, <3>2 DEF DueNow
  <2> QED
    BY <1>4, <2>1, <2>2 DEF DueNow
<1> QED
  BY <1>3, <1>4

\* A step of the thread that is in a call.
LEMMA TurnKept ==
    ASSUME HInv, NEW t \in Threads, Alone(t), NEW at \in Pcs, NEW r \in Locals, Step(t, at, r),
           Course(th[t])'
    PROVE  Alone(t)'
<1>1. \A o \in Threads \ {t} : th'[o] = th[o]
  <2>1. th \in [Threads -> Locals]
    BY TypesNat
  <2> QED
    BY <2>1, StepFacts
<1> QED
  BY <1>1 DEF Alone, Resting

\* ... in which nothing that timers depend on goes back.
LEMMA TurnDue ==
    ASSUME HInv, HInv', NEW t \in Threads, Alone(t), NEW at \in Pcs, NEW r \in Locals, Step(t, at, r),
           sets' = sets, uc <= uc' \/ th[t].pc = "setutime",
           t = Timer => th[t].pc # "setutime",
           r.call \in Setting <=> th[t].call \in Setting,
           th[t].call \in Setting => r.before = th[t].before /\ (th[t].pc # "setutime" => at # "setutime")
    PROVE  StayDue
<1>1. th \in [Threads -> Locals]
  BY TypesNat
<1>2. /\ th'[t].pc = at /\ th'[t].call = r.call /\ th'[t].before = r.before
      /\ \A o \in Threads \ {t} : th'[o] = th[o]
  BY <1>1, StepFacts
<1>3. CASE t = Client
  <2>1. th[t].pc = "setutime" => th[t].call \in Setting
    BY DEF Alone, Course, Setting
  <2> QED
    BY <1>2, <1>3, <2>1, DueKept
<1>4. CASE t = Timer
  <2>1. th'[Client] = th[Client] /\ th[Client].call = "none"
    BY <1>2, <1>4 DEF Alone, Resting, Threads, Timer, Client
  <2>2. th[Client].call \notin Setting /\ uc <= uc'
    BY <1>4, <2>1 DEF Setting
  <2> QED
    BY <2>1, <2>2, DueKept
<1> QED
  BY <1>3, <1>4 DEF Threads

LEMMA ReadTimeKeeps ==
    ASSUME HInv, HInv', NEW t \in Threads, Alone(t), ReadTime(t)
    PROVE  Alone(t)' /\ StayDue
<1> DEFINE r == [th[t] EXCEPT !.val = os]
<1>1. /\ os \in Nat /\ uc \in Nat /\ th \in [Threads -> Locals] /\ th[t] \in Locals
  BY TypesNat
<1>2. /\ r \in Locals /\ r.val = os /\ r.call = th[t].call /\ r.new = th[t].new
      /\ r.before = th[t].before
  BY <1>1 DEF Locals
<1>3. /\ Step(t, "word0", r) /\ "word0" \in Pcs /\ th[t].pc = "time"
      /\ UNCHANGED <<os, u0, u1, uc, sets>>
  BY DEF ReadTime, Pcs
<1> HIDE DEF r
<1>4. /\ th'[t].pc = "word0" /\ th'[t].val = os /\ th'[t].call = th[t].call
      /\ th'[t].new = th[t].new /\ th'[t].before = th[t].before
  BY <1>1, <1>2, <1>3, StepFacts
<1>5. Course(th[t])'
  BY <1>1, <1>3, <1>4 DEF Alone, Course
<1>6. Alone(t)'
  BY <1>2, <1>3, <1>5, TurnKept
<1>7. uc <= uc' /\ sets' = sets
  BY <1>1, <1>3
<1>8. StayDue
  BY <1>2, <1>3, <1>7, TurnDue
<1> QED
  BY <1>6, <1>8

LEMMA WriteWord0Keeps ==
    ASSUME HInv, HInv', NEW t \in Threads, Alone(t), WriteWord0(t)
    PROVE  Alone(t)' /\ StayDue
<1>1. /\ os \in Nat /\ uc \in Nat /\ th \in [Threads -> Locals] /\ th[t] \in Locals
  BY TypesNat
<1>2. /\ Step(t, "word1", th[t]) /\ "word1" \in Pcs /\ th[t].pc = "word0"
      /\ UNCHANGED <<os, u1, uc, sets>> /\ u0' = Word0(th[t].val)
  BY DEF WriteWord0, Pcs
<1>3. /\ th'[t].pc = "word1" /\ th'[t].val = th[t].val /\ th'[t].call = th[t].call
      /\ th'[t].new = th[t].new /\ th'[t].before = th[t].before
  BY <1>1, <1>2, StepFacts
<1>4. Course(th[t])'
  BY <1>1, <1>2, <1>3 DEF Alone, Course
<1>5. Alone(t)'
  BY <1>1, <1>2, <1>4, TurnKept
<1>6. uc <= uc' /\ sets' = sets
  BY <1>1, <1>2
<1>7. StayDue
  BY <1>1, <1>2, <1>6, TurnDue
<1> QED
  BY <1>5, <1>7

LEMMA WriteWord1Keeps ==
    ASSUME HInv, HInv', NEW t \in Threads, Alone(t), WriteWord1(t)
    PROVE  Alone(t)' /\ StayDue
<1>1. /\ os \in Nat /\ uc \in Nat /\ th \in [Threads -> Locals] /\ th[t] \in Locals
  BY TypesNat
<1>2. th[t].pc = "word1" /\ UNCHANGED <<os, u0, uc, sets>> /\ u1' = Word1(th[t].val)
  BY DEF WriteWord1
<1>3. uc <= uc' /\ sets' = sets
  BY <1>1, <1>2
<1>4. CASE th[t].call = "setting"
  <2> DEFINE r == [th[t] EXCEPT !.call = "check"]
  <2>1. /\ r \in Locals /\ r.call = "check" /\ r.val = th[t].val /\ r.new = th[t].new
        /\ r.before = th[t].before
    BY <1>1 DEF Locals, Calls
  <2>2. Step(t, "time", r) /\ "time" \in Pcs
    BY <1>4 DEF WriteWord1, Pcs
  <2> HIDE DEF r
  <2>3. /\ th'[t].pc = "time" /\ th'[t].val = th[t].val /\ th'[t].call = "check"
        /\ th'[t].new = th[t].new /\ th'[t].before = th[t].before
    BY <1>1, <2>1, <2>2, StepFacts
  <2>4. uc = th[t].new /\ th[t].val = th[t].new /\ u0 = Word0(th[t].val) /\ uc <= os /\ sets >= 1
    BY <1>2, <1>4 DEF Alone, Course
  <2>5. Course(th[t])'
    BY <1>1, <1>2, <2>3, <2>4 DEF Course
  <2>6. Alone(t)'
    BY <2>1, <2>2, <2>5, TurnKept
  <2>7. r.call \in Setting /\ th[t].call \in Setting
    BY <1>4, <2>1 DEF Setting
  <2>8. StayDue
    BY <1>2, <1>3, <2>1, <2>2, <2>7, TurnDue
  <2> QED
    BY <2>6, <2>8
<1>5. CASE th[t].call # "setting"
  <2>1. Step(t, "utime", th[t]) /\ "utime" \in Pcs
    BY <1>5 DEF WriteWord1, Pcs
  <2>2. /\ th'[t].pc = "utime" /\ th'[t].val = th[t].val /\ th'[t].call = th[t].call
        /\ th'[t].new = th[t].new /\ th'[t].before = th[t].before
    BY <1>1, <2>1, StepFacts
  <2>3. Course(th[t])'
    BY <1>1, <1>2, <1>5, <2>2 DEF Alone, Course
  <2>4. Alone(t)'
    BY <1>1, <2>1, <2>3, TurnKept
  <2>5. StayDue
    BY <1>1, <1>2, <1>3, <2>1, TurnDue
  <2> QED
    BY <2>4, <2>5
<1> QED
  BY <1>4, <1>5

\* The words are those of the time that was read: so is the cached time.
LEMMA WriteUTimeKeeps ==
    ASSUME HInv, HInv', NEW t \in Threads, Alone(t), WriteUTime(t)
    PROVE  Alone(t)' /\ StayDue
<1>1. /\ os \in Nat /\ uc \in Nat /\ th \in [Threads -> Locals] /\ th[t] \in Locals /\ th[t].val \in Nat
      /\ th[t].new \in Nat
  BY TypesNat
<1>2. th[t].pc = "utime" /\ UNCHANGED <<os, u0, u1, sets>> /\ uc' = UTimeOf(u0, u1)
  BY DEF WriteUTime, NewUTime
<1>3. /\ u0 = Word0(th[t].val) /\ u1 = Word1(th[t].val) /\ uc <= th[t].val /\ th[t].val <= os
      /\ th[t].call # "setting" /\ (th[t].call = "check" => th[t].new <= uc /\ sets >= 1)
  BY <1>2 DEF Alone, Course
<1>4. uc' = th[t].val
  <2>1. UTimeOf(Word0(th[t].val), Word1(th[t].val)) = th[t].val
    BY <1>1, OneTime
  <2> QED
    BY <1>2, <1>3, <2>1
<1>5. uc <= uc' /\ uc' <= os /\ sets' = sets
  BY <1>2, <1>3, <1>4
<1>6. CASE th[t].call = "read"
  <2>1. Step(t, "idle", Idle) /\ "idle" \in Pcs
    BY <1>6 DEF WriteUTime, Pcs
  <2>2. Idle \in Locals /\ Idle.call = "none"
    BY IdleType
  <2>3. th'[t].pc = "idle" /\ th'[t].call = "none"
    BY <1>1, <2>1, <2>2, StepFacts
  <2>4. Course(th[t])'
    BY <1>2, <1>3, <1>4, <1>5, <2>3 DEF Course
  <2>5. Alone(t)'
    BY <2>1, <2>2, <2>4, TurnKept
  <2>6. Idle.call \notin Setting /\ th[t].call \notin Setting
    BY <1>6, <2>2 DEF Setting
  <2>7. StayDue
    BY <1>2, <1>5, <2>1, <2>2, <2>6, TurnDue
  <2> QED
    BY <2>5, <2>7
<1>7. CASE th[t].call # "read"
  <2>1. Step(t, "done", th[t]) /\ "done" \in Pcs
    BY <1>7 DEF WriteUTime, Pcs
  <2>2. /\ th'[t].pc = "done" /\ th'[t].val = th[t].val /\ th'[t].call = th[t].call
        /\ th'[t].new = th[t].new /\ th'[t].before = th[t].before
    BY <1>1, <2>1, StepFacts
  <2>3. th[t].call = "check" => th[t].new <= uc'
    BY <1>1, <1>3, <1>4
  <2>4. Course(th[t])'
    BY <1>2, <1>3, <1>4, <1>5, <2>2, <2>3 DEF Course
  <2>5. Alone(t)'
    BY <1>1, <2>1, <2>4, TurnKept
  <2>6. StayDue
    BY <1>1, <1>2, <1>5, <2>1, TurnDue
  <2> QED
    BY <2>5, <2>6
<1> QED
  BY <1>6, <1>7

LEMMA SetUTimeKeeps ==
    ASSUME HInv, HInv', Alone(Client), SetUTime
    PROVE  Alone(Client)' /\ StayDue
<1>0. Client \in Threads /\ Client # Timer
  BY DEF Threads, Client, Timer
<1>1. os \in Nat /\ uc \in Nat /\ th \in [Threads -> Locals] /\ th[Client] \in Locals /\ th[Client].val \in Nat
  BY <1>0, TypesNat
<1>2. /\ Step(Client, "word0", th[Client]) /\ "word0" \in Pcs /\ th[Client].pc = "setutime"
      /\ UNCHANGED <<os, u0, u1, sets>> /\ uc' = th[Client].val
  BY DEF SetUTime, Pcs
<1>3. /\ th'[Client].pc = "word0" /\ th'[Client].val = th[Client].val /\ th'[Client].call = th[Client].call
      /\ th'[Client].new = th[Client].new /\ th'[Client].before = th[Client].before
  BY <1>0, <1>1, <1>2, StepFacts
<1>4. /\ th[Client].call = "setting" /\ th[Client].val = th[Client].new /\ th[Client].new <= os /\ sets >= 1
  BY <1>2 DEF Alone, Course
<1>5. Course(th[Client])'
  BY <1>1, <1>2, <1>3, <1>4 DEF Course
<1>6. Alone(Client)'
  BY <1>0, <1>1, <1>2, <1>5, TurnKept
<1>7. StayDue
  BY <1>0, <1>1, <1>2, TurnDue
<1> QED
  BY <1>6, <1>7

\* The clock is set: timers count from the time before.
LEMMA SetTimeOfDayKeeps ==
    ASSUME HInv, HInv', Alone(Client), SetTimeOfDay
    PROVE  Alone(Client)' /\ StayDue
<1>0. Client \in Threads
  BY DEF Threads
<1>1. /\ os \in Nat /\ uc \in Nat /\ sets \in Nat /\ th \in [Threads -> Locals] /\ th[Client] \in Locals
      /\ th[Client].new \in Nat
  BY <1>0, TypesNat
<1> DEFINE q == [th[Client] EXCEPT !.before = uc]
           moved == [q EXCEPT !.val = th[Client].new]
           r == [moved EXCEPT !.call = "setting"]
<1>2. q \in Locals /\ q.before = uc /\ q.new = th[Client].new
  BY <1>1 DEF Locals
<1>3. Step(Client, "setutime", r)
  BY DEF SetTimeOfDay
<1> HIDE DEF q
<1>4. moved \in Locals /\ moved.before = uc /\ moved.new = th[Client].new /\ moved.val = th[Client].new
  BY <1>1, <1>2 DEF Locals
<1> HIDE DEF moved
<1>5. /\ r \in Locals /\ r.before = uc /\ r.new = th[Client].new /\ r.val = th[Client].new
      /\ r.call = "setting"
  BY <1>1, <1>4 DEF Locals, Calls
<1> HIDE DEF r
<1>6. /\ "setutime" \in Pcs /\ th[Client].pc = "done" /\ th[Client].call = "set"
      /\ UNCHANGED <<u0, u1, uc>> /\ os' = th[Client].new /\ sets' = sets + 1
  BY DEF SetTimeOfDay, Pcs
<1>7. /\ th'[Client].pc = "setutime" /\ th'[Client].val = th[Client].new /\ th'[Client].call = "setting"
      /\ th'[Client].new = th[Client].new /\ th'[Client].before = uc
  BY <1>0, <1>1, <1>3, <1>5, <1>6, StepFacts
<1>8. Course(th[Client])'
  BY <1>1, <1>6, <1>7 DEF Course
<1>9. Alone(Client)'
  BY <1>0, <1>3, <1>5, <1>6, <1>8, TurnKept
<1>10. StayDue
  <2> SUFFICES ASSUME NEW x \in RTimers, DueNow(x, th[Client]) PROVE DueNow(x, th[Client])'
    BY DEF StayDue
  <2>1. StillDue(x, uc + 300 * sets)
    BY <1>6 DEF DueNow, Setting
  <2>2. sets' - 1 = sets
    BY <1>1, <1>6
  <2>3. StillDue(x, th'[Client].before + 300 * (sets' - 1))
    BY <1>7, <2>1, <2>2
  <2> QED
    BY <1>7, <2>3 DEF DueNow, Setting
<1> QED
  BY <1>9, <1>10

Anchored(r) == ~r.bonce => r.tstart = r.tbase + r.basetime /\ AtPeriodStart(r)

TimersOK ==
    /\ rtimer \in [Slots -> RTimers \cup {Empty}]
    /\ \A s \in Slots : rtimer[s] # Empty => Anchored(rtimer[s])
    /\ ~overlap => \A s \in Slots : rtimer[s] # Empty => DueNow(rtimer[s], th[Client])

TInv == HInv /\ OneCall /\ TimersOK

LEMMA TimersRest ==
    ASSUME TimersOK, rtimer' = rtimer, ~overlap' => ~overlap /\ StayDue
    PROVE  TimersOK'
<1>1. /\ rtimer' \in [Slots -> RTimers \cup {Empty}]
      /\ \A s \in Slots : rtimer'[s] # Empty => Anchored(rtimer'[s])
  BY DEF TimersOK
<1>2. ASSUME ~overlap', NEW s \in Slots, rtimer'[s] # Empty PROVE DueNow(rtimer[s], th[Client])'
  <2> DEFINE r == rtimer[s]
  <2>1. r \in RTimers /\ DueNow(r, th[Client])
    BY <1>2 DEF TimersOK
  <2>2. \A x \in RTimers : DueNow(x, th[Client]) => DueNow(x, th[Client])'
    BY <1>2 DEF StayDue
  <2>3. \A x \in RTimers : x = rtimer' [s] => (DueNow(x, th[Client])' <=> DueNow(rtimer[s], th[Client])')
    BY DEF DueNow
  <2> QED
    BY <2>1, <2>2, <2>3
<1> QED
  BY <1>1, <1>2 DEF TimersOK, Anchored

\* Nothing but the operating system's clock goes on.
LEMMA NobodyMoves ==
    ASSUME TInv, HInv', UNCHANGED <<u0, u1, uc, th, sets, overlap>>, os <= os'
    PROVE  OneCall' /\ StayDue
<1>1. os \in Nat /\ os' \in Nat /\ uc \in Nat /\ \A t \in Threads : th[t].val \in Nat /\ th[t].new \in Nat
  <2>1. os \in Nat /\ uc \in Nat /\ \A t \in Threads : th[t].val \in Nat /\ th[t].new \in Nat
    BY TypesNat DEF TInv
  <2>2. os' \in Nat
    BY InstantsNat DEF HInv, ClockType
  <2> QED
    BY <2>1, <2>2
<1>2. ASSUME NEW t \in Threads, Alone(t) PROVE Alone(t)'
  <2>1. Course(th[t])'
    BY <1>1, <1>2 DEF Alone, Course
  <2>2. \A o \in Threads \ {t} : Resting(th[o])'
    BY <1>2 DEF Alone, Resting
  <2> QED
    BY <2>1, <2>2 DEF Alone
<1>3. OneCall'
  BY <1>2 DEF TInv, OneCall
<1>4. StayDue
  <2>1. uc <= uc' /\ HInv
    BY <1>1 DEF TInv
  <2> QED
    BY <2>1, DueKept
<1> QED
  BY <1>3, <1>4

LEMMA BeginKeeps ==
    ASSUME TInv, HInv', NEW t \in Threads, Begin(t)
    PROVE  TInv'
<1>0. HInv /\ OneCall /\ TimersOK
  BY DEF TInv
<1>1. os \in Nat /\ uc \in Nat /\ sets \in Nat /\ th \in [Threads -> Locals]
  BY <1>0, TypesNat
<1>2. /\ UNCHANGED <<os, u0, u1, uc, rtimer, sets>>
      /\ overlap' = (overlap \/ \E o \in DOMAIN th : th[o].pc # "idle")
  BY DEF Begin
<1>3. PICK call \in {"pass", "read", "set"}, new \in Nat :
          Step(t, "time", [Idle EXCEPT !.call = call, !.new = new])
  BY InstantsNat DEF Begin
<1> DEFINE r == [Idle EXCEPT !.call = call, !.new = new]
<1>4. r \in Locals /\ r.call = call
  <2>1. call \in Calls
    BY DEF Calls
  <2>2. Idle \in Locals
    BY IdleType
  <2> QED
    BY <2>1, <2>2 DEF Locals
<1>5. Step(t, "time", r) /\ "time" \in Pcs
  BY <1>3 DEF Pcs
<1> HIDE DEF r
<1>6. th'[t].pc = "time" /\ th'[t].call = call /\ \A o \in Threads \ {t} : th'[o] = th[o]
  BY <1>1, <1>4, <1>5, StepFacts
<1>7. ASSUME ~overlap' PROVE ~overlap /\ Alone(t)' /\ StayDue
  <2>1. ~overlap /\ \A o \in Threads : th[o].pc = "idle"
    BY <1>1, <1>2, <1>7
  <2>2. PICK o \in Threads : Alone(o)
    BY <1>0, <2>1 DEF OneCall
  <2>3. u0 = Word0(uc) /\ u1 = Word1(uc) /\ uc <= os
    BY <2>1, <2>2 DEF Alone, Course
  <2>4. \A i \in Threads : Resting(th[i])
    BY <2>1, <2>2 DEF Alone, Course, Resting
  <2>5. Course(th[t])'
    BY <1>1, <1>2, <1>6, <2>3 DEF Course
  <2>6. Alone(t)'
    BY <1>6, <2>4, <2>5 DEF Alone, Resting
  <2>7. Client \in Threads
    BY DEF Threads
  <2>8. th[Client].call \notin Setting /\ th'[Client].call \notin Setting
    BY <1>6, <2>4, <2>7 DEF Resting, Setting
  <2>9. uc <= uc' /\ sets' = sets
    BY <1>1, <1>2
  <2>10. StayDue
    BY <1>0, <2>8, <2>9, DueKept
  <2> QED
    BY <2>1, <2>6, <2>10
<1>8. OneCall'
  BY <1>7 DEF OneCall
<1>9. TimersOK'
  BY <1>0, <1>2, <1>7, TimersRest
<1> QED
  BY <1>8, <1>9 DEF TInv

\* A step of a thread in its call that leaves the timers alone.
LEMMA TurnTimers ==
    ASSUME TInv, HInv', NEW t \in Threads, th[t].pc # "idle", UNCHANGED <<rtimer, overlap>>,
           Alone(t) => Alone(t)' /\ StayDue
    PROVE  TInv'
<1>1. ~overlap => Alone(t)
  BY InCall DEF TInv
<1>2. OneCall'
  BY <1>1 DEF OneCall
<1>3. TimersOK'
  BY <1>1, TimersRest DEF TInv
<1> QED
  BY <1>2, <1>3 DEF TInv

\* A thread ends its call.
LEMMA EndKeeps ==
    ASSUME TInv, NEW t \in Threads, th[t].pc = "done", Step(t, "idle", Idle),
           UNCHANGED <<os, u0, u1, uc, sets, overlap>>
    PROVE  /\ OneCall' /\ th'[t].call = "none" /\ th'[t].pc = "idle"
           /\ \A o \in Threads \ {t} : th'[o] = th[o]
<1>1. HInv /\ th \in [Threads -> Locals]
  BY TypesNat DEF TInv
<1>2. Idle \in Locals /\ Idle.call = "none" /\ "idle" \in Pcs
  BY IdleType DEF Pcs
<1>3. th'[t].pc = "idle" /\ th'[t].call = "none" /\ \A o \in Threads \ {t} : th'[o] = th[o]
  BY <1>1, <1>2, StepFacts
<1>4. ASSUME ~overlap PROVE Alone(t)'
  <2>1. Alone(t)
    BY <1>4, InCall DEF TInv
  <2>2. u0 = Word0(uc) /\ u1 = Word1(uc) /\ uc <= os
    BY <2>1 DEF Alone, Course
  <2>3. Course(th[t])'
    BY <1>3, <2>2 DEF Course
  <2> QED
    BY <1>1, <1>2, <2>1, <2>3, TurnKept
<1>5. OneCall'
  BY <1>4 DEF OneCall
<1> QED
  BY <1>3, <1>5

LEMMA AnchoredDue ==
    ASSUME NEW r \in RTimers, NEW lim \in Int
    PROVE  /\ StillDue(r, lim) => Anchored(r)
           /\ Anchored(r) /\ r.tstart <= lim => StillDue(r, lim)
<1>1. r.tstart \in Nat /\ Furthest(r) \in Nat
  BY PartsOf
<1> QED
  BY <1>1 DEF StillDue, Anchored

LEMMA RTimerProcKeeps == ASSUME TInv, HInv', RTimerProc PROVE TInv'
<1>0. HInv /\ OneCall /\ TimersOK /\ Timer \in Threads /\ Client \in Threads \ {Timer}
  BY DEF TInv, Threads, Timer, Client
<1>1. uc \in Nat /\ sets \in Nat
  BY <1>0, TypesNat
<1>2. /\ th[Timer].pc = "done" /\ Step(Timer, "idle", Idle) /\ UNCHANGED <<os, u0, u1, uc, sets, overlap>>
      /\ rtimer' = [s \in Slots |-> RTimerStep(rtimer[s], uc)]
  BY DEF RTimerProc
<1>3. OneCall' /\ th'[Client] = th[Client]
  BY <1>0, <1>2, EndKeeps
<1>4. ASSUME ~overlap PROVE th[Client].call = "none"
  BY <1>0, <1>2, <1>4, InCall DEF Alone, Resting
<1> DEFINE f == [s \in Slots |-> RTimerStep(rtimer[s], uc)]
           Fine(q) == q = Empty \/ (q \in RTimers /\ Anchored(q))
           lim == uc + 300 * sets
<1>5. lim \in Int /\ uc <= lim
  BY <1>1
<1> HIDE DEF lim
<1>6. RTimerStep(Empty, uc) = Empty
  BY DEF RTimerStep
<1>7. ASSUME NEW s \in Slots
      PROVE  Fine(f[s]) /\ (~overlap /\ f[s] # Empty => StillDue(f[s], lim))
  <2>1. rtimer[s] = Empty \/ (rtimer[s] \in RTimers /\ Anchored(rtimer[s]))
    BY <1>0 DEF TimersOK
  <2>2. CASE rtimer[s] = Empty
    BY <1>6, <2>2
  <2>3. CASE rtimer[s] \in RTimers /\ Anchored(rtimer[s])
    <3> DEFINE r == rtimer[s]
               q == RTimerStep(r, uc)
    <3>1. f[s] = q
      OBVIOUS
    <3>2. Fine(q)
      <4> DEFINE far == r.tstart + uc
      <4>1. r.tstart \in Nat
        BY <2>3, PartsOf
      <4>2. far \in Int /\ uc <= far /\ r.tstart <= far
        BY <1>1, <4>1
      <4> HIDE DEF far, r
      <4>3. r \in RTimers /\ Anchored(r)
        BY <2>3 DEF r
      <4>4. StillDue(r, far)
        BY <4>2, <4>3, AnchoredDue
      <4>5. q = Empty \/ (q \in RTimers /\ StillDue(q, far))
        BY <1>1, <4>2, <4>3, <4>4, StepDue
      <4> QED
        BY <4>2, <4>5, AnchoredDue
    <3>3. ASSUME ~overlap, q # Empty PROVE StillDue(q, lim)
      <4>1. r \in RTimers /\ r # Empty
        BY <2>3, EmptyApart
      <4>2. StillDue(r, lim)
        BY <1>0, <1>4, <3>3, <4>1 DEF TimersOK, DueNow, Setting, lim
      <4> HIDE DEF r
      <4>3. q = Empty \/ (q \in RTimers /\ StillDue(q, lim))
        BY <1>1, <1>5, <4>1, <4>2, StepDue
      <4> QED
        BY <3>3, <4>3
    <3> HIDE DEF q
    <3> QED
      BY <3>1, <3>2, <3>3
  <2> QED
    BY <2>1, <2>2, <2>3
<1>8. rtimer' = f
  BY <1>2
<1>9. /\ rtimer' \in [Slots -> RTimers \cup {Empty}]
      /\ \A s \in Slots : rtimer'[s] # Empty => Anchored(rtimer'[s])
      /\ ~overlap => \A s \in Slots : rtimer'[s] # Empty => StillDue(rtimer'[s], lim)
  <2>1. f = [s \in Slots |-> f[s]]
    OBVIOUS
  <2> HIDE DEF f
  <2> QED
    BY <1>7, <1>8, <2>1
<1>10. TimersOK'
  <2>1. \A s \in Slots : (rtimer'[s] # Empty => Anchored(rtimer[s])')
    BY <1>9 DEF Anchored
  <2>2. ASSUME ~overlap', NEW s \in Slots, rtimer'[s] # Empty PROVE DueNow(rtimer[s], th[Client])'
    <3>1. StillDue(rtimer'[s], uc' + 300 * sets')
      BY <1>2, <1>9, <2>2 DEF lim
    <3>2. th'[Client].call = "none"
      BY <1>2, <1>3, <1>4, <2>2
    <3> QED
      BY <3>1, <3>2 DEF DueNow, Setting
  <2> QED
    BY <1>9, <2>1, <2>2 DEF TimersOK
<1> QED
  BY <1>3, <1>10 DEF TInv

\* SysRecalAllRTimer, or the clock was not set far.
LEMMA FinishSetKeeps == ASSUME TInv, HInv', FinishSet PROVE TInv'
<1>0. HInv /\ OneCall /\ TimersOK /\ Client \in Threads
  BY DEF TInv, Threads
<1>1. uc \in Nat /\ sets \in Nat /\ th[Client].new \in Nat /\ th[Client].before \in Nat
  BY <1>0, TypesNat
<1> DEFINE far == ~(Apart(th[Client].new, th[Client].before) <= 300)
           f == [s \in Slots |-> IF rtimer[s] = Empty THEN Empty ELSE RecalRTimerP(rtimer[s], uc)]
           lim == uc + 300 * sets
<1>2. /\ th[Client].pc = "done" /\ th[Client].call = "check" /\ Step(Client, "idle", Idle)
      /\ UNCHANGED <<os, u0, u1, uc, sets, overlap>>
      /\ rtimer' = IF far THEN f ELSE rtimer
  BY DEF FinishSet
<1>3. OneCall' /\ th'[Client].call = "none"
  BY <1>0, <1>2, EndKeeps
<1>4. lim \in Int /\ uc \in Int /\ uc <= lim
  BY <1>1
<1> HIDE DEF lim
<1> DEFINE Fine(q) == /\ q # Empty => q \in RTimers /\ Anchored(q)
                      /\ ~overlap /\ q # Empty => StillDue(q, lim)
<1>5. ASSUME far, NEW s \in Slots PROVE rtimer'[s] = f[s] /\ Fine(f[s])
  <2>1. rtimer'[s] = f[s]
    BY <1>2, <1>5
  <2>2. rtimer[s] = Empty \/ rtimer[s] \in RTimers
    BY <1>0 DEF TimersOK
  <2>3. CASE rtimer[s] = Empty
    BY <2>1, <2>3
  <2>4. CASE rtimer[s] # Empty
    <3> DEFINE q == RecalRTimerP(rtimer[s], uc)
    <3>1. f[s] = q
      BY <2>4
    <3>2. q \in RTimers /\ StillDue(q, uc)
      BY <1>1, <2>2, <2>4, RecalDue
    <3> HIDE DEF q
    <3>3. Anchored(q)
      BY <1>4, <3>2, AnchoredDue
    <3>4. StillDue(q, lim)
      BY <1>4, <3>2, DueLater
    <3> QED
      BY <2>1, <3>1, <3>2, <3>3, <3>4
  <2> QED
    BY <2>3, <2>4
<1>6. ASSUME ~far, NEW s \in Slots PROVE rtimer'[s] = rtimer[s] /\ Fine(rtimer[s])
  <2>1. rtimer'[s] = rtimer[s]
    BY <1>2, <1>6
  <2>2. rtimer[s] # Empty => rtimer[s] \in RTimers /\ Anchored(rtimer[s])
    BY <1>0 DEF TimersOK
  <2>3. ASSUME ~overlap, rtimer[s] # Empty PROVE StillDue(rtimer[s], lim)
    <3> DEFINE r == rtimer[s]
               past == th[Client].before + 300 * (sets - 1)
    <3>1. r \in RTimers
      BY <2>2, <2>3
    <3>2. th[Client].new <= uc /\ sets >= 1
      BY <1>0, <1>2, <2>3, InCall DEF Alone, Course
    <3>3. StillDue(r, past) \/ StillDue(r, uc + 300 * sets)
      BY <1>0, <1>2, <2>3 DEF TimersOK, DueNow, Setting
    <3>4. past \in Int /\ past <= uc + 300 * sets
      <4>1. th[Client].before <= th[Client].new + 300
        BY <1>1, <1>6 DEF Apart
      <4> QED
        BY <1>1, <3>2, <4>1
    <3> HIDE DEF r, past
    <3>5. past <= lim
      BY <3>4 DEF lim
    <3>6. StillDue(r, past) \/ StillDue(r, lim)
      BY <3>3 DEF lim
    <3>7. StillDue(r, lim)
      BY <1>4, <3>1, <3>4, <3>5, <3>6, DueLater
    <3> QED
      BY <3>7 DEF r
  <2> QED
    BY <2>1, <2>2, <2>3
<1>7. rtimer' \in [Slots -> RTimers \cup {Empty}]
  <2>1. CASE far
    <3>1. rtimer' = f
      BY <1>2, <2>1
    <3>2. f = [s \in Slots |-> f[s]]
      OBVIOUS
    <3>3. \A s \in Slots : f[s] \in RTimers \cup {Empty}
      BY <1>5, <2>1
    <3> HIDE DEF f
    <3> QED
      BY <3>1, <3>2, <3>3
  <2>2. CASE ~far
    <3>1. rtimer' = rtimer
      BY <1>2, <2>2
    <3> QED
      BY <1>0, <3>1 DEF TimersOK
  <2> QED
    BY <2>1, <2>2
<1>8. \A s \in Slots : Fine(rtimer'[s])
  <2> HIDE DEF far, f, Fine
  <2> QED
    BY <1>5, <1>6
<1>9. TimersOK'
  <2>1. \A s \in Slots : (rtimer'[s] # Empty => Anchored(rtimer[s])')
    BY <1>8 DEF Anchored
  <2>2. ASSUME ~overlap', NEW s \in Slots, rtimer'[s] # Empty PROVE DueNow(rtimer[s], th[Client])'
    <3>1. StillDue(rtimer'[s], uc' + 300 * sets')
      BY <1>2, <1>8, <2>2 DEF lim
    <3> QED
      BY <1>3, <3>1 DEF DueNow, Setting
  <2> QED
    BY <1>7, <2>1, <2>2 DEF TimersOK
<1> QED
  BY <1>3, <1>9 DEF TInv

LEMMA BaseNat ==
    ASSUME NEW c \in Confs
    PROVE  RTimerGetBase(c.tmod, c.basetime) \in Nat
<1> DEFINE mi == c.basetime.minute
           h == c.basetime.hour
           d == c.basetime.day
<1>1. mi \in Nat /\ h \in Nat /\ d \in Nat
  BY ConfsAssumption
<1>2. RTimerGetBase(c.tmod, c.basetime) =
          60 * mi + (IF c.tmod \in {"day", "month"} THEN 3600 * h ELSE 0)
          + (IF c.tmod = "month" /\ d > 0 THEN Day * (d - 1) ELSE 0)
  BY DEF RTimerGetBase
<1> HIDE DEF mi, h, d
<1>3. 60 * mi \in Nat /\ 3600 * h \in Nat /\ (d > 0 => Day * (d - 1) \in Nat)
  BY <1>1 DEF Day
<1> QED
  BY <1>2, <1>3

\* A new timer is due from the cached time.
LEMMA SysAddKeeps ==
    ASSUME TInv, HInv', NEW c \in Confs, SysAddRTimer(c)
    PROVE  TInv'
<1>0. HInv /\ OneCall /\ TimersOK
  BY DEF TInv
<1>1. uc \in Nat /\ sets \in Nat /\ th \in [Threads -> Locals]
  BY <1>0, TypesNat
<1> DEFINE base == RTimerGetBase(c.tmod, c.basetime)
           once == [bonce |-> TRUE, dev |-> 1, mod |-> "hour", basetime |-> 0, tbase |-> uc, tstart |-> uc]
           often == [bonce |-> FALSE, dev |-> c.tdev, mod |-> c.tmod, basetime |-> base,
                     tbase |-> 0, tstart |-> 0]
           q == IF c.bonce THEN once ELSE RecalRTimerP(often, uc)
           lim == uc + 300 * sets
<1>2. PICK s \in Slots : rtimer[s] = Empty /\ rtimer' = [rtimer EXCEPT ![s] = q]
  BY DEF SysAddRTimer
<1>3. UNCHANGED <<os, u0, u1, uc, th, sets, overlap>> /\ c.tdev # 0
  BY DEF SysAddRTimer
<1>4. c.tdev \in Nat \ {0} /\ c.tmod \in Units /\ base \in Nat
  BY <1>3, BaseNat, ConfsAssumption DEF Units
<1> HIDE DEF base
<1>5. once \in RTimers /\ once.bonce
  BY <1>1 DEF RTimers, Units
<1>6. often \in RTimers
  BY <1>4 DEF RTimers
<1> HIDE DEF once, often
<1>7. uc \in Int /\ lim \in Int /\ uc <= lim
  BY <1>1
<1>8. q \in RTimers /\ StillDue(q, uc)
  <2>1. CASE c.bonce
    BY <1>5, <2>1 DEF StillDue
  <2>2. CASE ~c.bonce
    BY <1>1, <1>6, <2>2, RecalDue
  <2> QED
    BY <2>1, <2>2
<1> HIDE DEF q, lim
<1>9. Anchored(q) /\ StillDue(q, lim)
  BY <1>7, <1>8, AnchoredDue, DueLater
<1>10. OneCall' /\ StayDue
  <2>1. os <= os'
    BY <1>0, <1>3, TypesNat
  <2> QED
    BY <1>3, <2>1, NobodyMoves
<1>11. ASSUME ~overlap PROVE DueNow(q, th[Client])
  <2>1. CASE th[Client].call \in Setting /\ th[Client].pc = "setutime"
    <3>1. Client \in Threads
      BY DEF Threads
    <3>2. th[Client].before = uc /\ sets >= 1
      BY <1>0, <1>11, <2>1, <3>1, InCall DEF Alone, Course, Setting
    <3> DEFINE past == th[Client].before + 300 * (sets - 1)
    <3>3. past \in Int /\ uc <= past
      BY <1>1, <3>2
    <3> HIDE DEF past
    <3>4. StillDue(q, past)
      BY <1>7, <1>8, <3>3, DueLater
    <3> QED
      BY <2>1, <3>4 DEF DueNow, past
  <2>2. CASE ~(th[Client].call \in Setting /\ th[Client].pc = "setutime")
    BY <1>9, <2>2 DEF DueNow, lim
  <2> QED
    BY <2>1, <2>2
<1>12. TimersOK'
  <2>1. rtimer \in [Slots -> RTimers \cup {Empty}]
    BY <1>0 DEF TimersOK
  <2>2. rtimer' \in [Slots -> RTimers \cup {Empty}]
    BY <1>2, <1>8, <2>1
  <2>3. \A i \in Slots : rtimer'[i] = IF i = s THEN q ELSE rtimer[i]
    BY <1>2, <2>1
  <2>4. ASSUME NEW i \in Slots, rtimer'[i] # Empty
        PROVE  Anchored(rtimer'[i]) /\ (~overlap => DueNow(rtimer'[i], th[Client]))
    <3>1. CASE i = s
      BY <1>9, <1>11, <2>3, <3>1
    <3>2. CASE i # s
      <4>1. rtimer'[i] = rtimer[i]
        BY <2>3, <3>2
      <4> QED
        BY <1>0, <2>4, <4>1 DEF TimersOK
    <3> QED
      BY <3>1, <3>2
  <2>5. \A i \in Slots : (rtimer'[i] # Empty => Anchored(rtimer[i])')
    BY <2>4 DEF Anchored
  <2>6. ASSUME ~overlap', NEW i \in Slots, rtimer'[i] # Empty PROVE DueNow(rtimer[i], th[Client])'
    BY <1>3, <2>4, <2>6 DEF DueNow
  <2> QED
    BY <2>2, <2>5, <2>6 DEF TimersOK
<1> QED
  BY <1>10, <1>12 DEF TInv

LEMMA SysStopKeeps ==
    ASSUME TInv, HInv', NEW s \in Slots, SysStopRTimer(s)
    PROVE  TInv'
<1>0. HInv /\ OneCall /\ TimersOK
  BY DEF TInv
<1>1. UNCHANGED <<os, u0, u1, uc, th, sets, overlap>> /\ rtimer' = [rtimer EXCEPT ![s] = Empty]
  BY DEF SysStopRTimer
<1>2. OneCall'
  <2>1. os <= os'
    BY <1>0, <1>1, TypesNat
  <2> QED
    BY <1>1, <2>1, NobodyMoves
<1>3. TimersOK'
  <2>1. rtimer \in [Slots -> RTimers \cup {Empty}]
    BY <1>0 DEF TimersOK
  <2>2. /\ rtimer' \in [Slots -> RTimers \cup {Empty}]
        /\ \A i \in Slots : rtimer'[i] # Empty => rtimer'[i] = rtimer[i] /\ rtimer[i] # Empty
    BY <1>1, <2>1
  <2>3. ASSUME NEW i \in Slots, rtimer'[i] # Empty
        PROVE  Anchored(rtimer'[i]) /\ (~overlap => DueNow(rtimer'[i], th[Client]))
    BY <1>0, <2>2, <2>3 DEF TimersOK
  <2>4. \A i \in Slots : (rtimer'[i] # Empty => Anchored(rtimer[i])')
    BY <2>3 DEF Anchored
  <2>5. ASSUME ~overlap', NEW i \in Slots, rtimer'[i] # Empty PROVE DueNow(rtimer[i], th[Client])'
    BY <1>1, <2>3, <2>5 DEF DueNow
  <2> QED
    BY <2>2, <2>4, <2>5 DEF TimersOK
<1> QED
  BY <1>2, <1>3 DEF TInv

LEMMA InitDue == ASSUME ClockInit PROVE TInv
<1>1. HInv
  BY InitShown
<1>2. OneCall
  <2>1. /\ th = [t \in Threads |-> Idle] /\ u0 = Word0(os) /\ u1 = Word1(os) /\ uc = os
    BY DEF ClockInit, Threads
  <2>2. Idle.pc = "idle" /\ Idle.call = "none"
    BY IdleType
  <2>3. \A t \in Threads : th[t].pc = "idle" /\ th[t].call = "none"
    BY <2>1, <2>2
  <2>4. uc <= os
    BY <1>1, <2>1, TypesNat
  <2>5. Timer \in Threads
    BY DEF Threads
  <2>6. Alone(Timer)
    BY <2>1, <2>3, <2>4, <2>5 DEF Alone, Course, Resting
  <2> QED
    BY <2>5, <2>6 DEF OneCall
<1>3. TimersOK
  BY DEF ClockInit, TimersOK
<1> QED
  BY <1>1, <1>2, <1>3 DEF TInv

LEMMA NextDue == ASSUME TInv, [ClockNext]_clockVars PROVE TInv'
<1>0. HInv /\ OneCall /\ TimersOK /\ Client \in Threads /\ Timer \in Threads
  BY DEF TInv, Threads
<1>1. HInv'
  BY <1>0, NextShown
<1>2. CASE Advance
  <2>1. UNCHANGED <<u0, u1, uc, th, sets, overlap, rtimer>> /\ os < os' /\ os \in Nat /\ os' \in Nat
    BY <1>0, <1>2, InstantsNat, TypesNat DEF Advance
  <2>2. OneCall' /\ StayDue
    BY <1>1, <2>1, NobodyMoves
  <2>3. TimersOK'
    BY <1>0, <2>1, <2>2, TimersRest
  <2> QED
    BY <1>1, <2>2, <2>3 DEF TInv
<1>3. ASSUME NEW t \in Threads, Begin(t) PROVE TInv'
  BY <1>1, <1>3, BeginKeeps
<1>4. ASSUME NEW t \in Threads, ReadTime(t) \/ WriteWord0(t) \/ WriteWord1(t) \/ WriteUTime(t)
      PROVE  TInv'
  <2>1. th[t].pc # "idle" /\ UNCHANGED <<rtimer, overlap>>
    BY <1>4 DEF ReadTime, WriteWord0, WriteWord1, WriteUTime
  <2>2. ASSUME Alone(t) PROVE Alone(t)' /\ StayDue
    BY <1>0, <1>1, <1>4, <2>2, ReadTimeKeeps, WriteWord0Keeps, WriteWord1Keeps, WriteUTimeKeeps
  <2> QED
    BY <1>1, <2>1, <2>2, TurnTimers
<1>5. CASE SetTimeOfDay \/ SetUTime
  <2>1. th[Client].pc # "idle" /\ UNCHANGED <<rtimer, overlap>>
    BY <1>5 DEF SetTimeOfDay, SetUTime
  <2>2. ASSUME Alone(Client) PROVE Alone(Client)' /\ StayDue
    BY <1>0, <1>1, <1>5, <2>2, SetTimeOfDayKeeps, SetUTimeKeeps
  <2> QED
    BY <1>0, <1>1, <2>1, <2>2, TurnTimers
<1>6. CASE RTimerProc
  BY <1>1, <1>6, RTimerProcKeeps
<1>7. CASE FinishSet
  BY <1>1, <1>7, FinishSetKeeps
<1>8. CASE \E c \in Confs : SysAddRTimer(c)
  BY <1>1, <1>8, SysAddKeeps
<1>9. CASE \E s \in Slots : SysStopRTimer(s)
  BY <1>1, <1>9, SysStopKeeps
<1>10. CASE BeginRead \/ ReadWord \/ UNCHANGED clockVars
  <2>1. UNCHANGED <<os, u0, u1, uc, th, sets, overlap, rtimer>>
    BY <1>10 DEF BeginRead, ReadWord, clockVars
  <2>2. os <= os'
    BY <1>0, <2>1, TypesNat
  <2>3. OneCall' /\ StayDue
    BY <1>1, <2>1, <2>2, NobodyMoves
  <2>4. TimersOK'
    BY <1>0, <2>1, <2>3, TimersRest
  <2> QED
    BY <1>1, <2>3, <2>4 DEF TInv
<1> QED
  BY <1>2, <1>3, <1>4, <1>5, <1>6, <1>7, <1>8, <1>9, <1>10 DEF ClockNext, Threads

\* As long as no two calls overlapped and none is under way, every timer that repeats
\* starts at its base time after the beginning of a period, at most a period after the
\* cached time, or its base time if that is longer, and five minutes for each time the
\* clock was set.
THEOREM TimersStayDue == ClockSpec => []TimersDue
<1>1. ASSUME TInv PROVE TimersDue
  <2> SUFFICES ASSUME ~overlap, \A o \in DOMAIN th : th[o].pc = "idle",
                      NEW s \in Slots, rtimer[s] # Empty, ~rtimer[s].bonce
               PROVE  /\ rtimer[s].tstart <= uc + Furthest(rtimer[s]) + 300 * sets
                      /\ rtimer[s].tstart = rtimer[s].tbase + rtimer[s].basetime
                      /\ AtPeriodStart(rtimer[s])
    BY DEF TimersDue
  <2>1. HInv /\ OneCall /\ TimersOK /\ Client \in Threads
    BY <1>1 DEF TInv, Threads
  <2>2. uc \in Nat /\ sets \in Nat /\ th \in [Threads -> Locals]
    BY <2>1, TypesNat
  <2>3. \A o \in Threads : th[o].pc = "idle"
    BY <2>2
  <2>4. th[Client].call = "none"
    BY <2>1, <2>3 DEF OneCall, Alone, Course, Resting
  <2>5. rtimer[s] \in RTimers /\ StillDue(rtimer[s], uc + 300 * sets)
    BY <2>1, <2>4 DEF TimersOK, DueNow, Setting
  <2>6. Furthest(rtimer[s]) \in Nat
    BY <2>5, PartsOf
  <2> QED
    BY <2>2, <2>5, <2>6 DEF StillDue
<1> QED
  BY <1>1, InitDue, NextDue, PTL DEF ClockSpec
=============================================================================
