------------------------------ MODULE TimerSet ------------------------------
(***************************************************************************)
(* What the relative timers promise, without blocks, links or handles.     *)
(*                                                                         *)
(* Timers are known by the order in which they were added.  Each live one  *)
(* counts the ticks since it was added, cleared or last fired.  A tick     *)
(* visits the timers that are live when it starts, oldest first, each      *)
(* once; a timer whose count reaches its interval fires, and its callback  *)
(* decides whether it stays.  No timer is added, stopped or cleared by     *)
(* anybody else in the middle of a tick.                                   *)
(***************************************************************************)
EXTENDS Integers, FiniteSets

CONSTANTS Capacity, Intervals

VARIABLES
    added,    \* number of timers added so far
    live,     \* live timers: number -> [dev, cnt]
    ticking,  \* a tick is in progress
    todo,     \* timers the tick still has to visit
    firing    \* the timer whose callback runs, as a set of at most one

vars == <<added, live, ticking, todo, firing>>

Without(k) == [j \in DOMAIN live \ {k} |-> live[j]]

Init ==
    /\ added = 0
    /\ live = [j \in {} |-> [dev |-> 0, cnt |-> 0]]
    /\ ticking = FALSE
    /\ todo = {} /\ firing = {}

Add(d) ==
    /\ ~ticking
    /\ Cardinality(DOMAIN live) < Capacity
    /\ live' = [j \in DOMAIN live \cup {added} |->
                    IF j = added THEN [dev |-> d, cnt |-> 0] ELSE live[j]]
    /\ added' = added + 1
    /\ UNCHANGED <<ticking, todo, firing>>

Stop(k) ==
    /\ ~ticking
    /\ live' = Without(k)
    /\ UNCHANGED <<added, ticking, todo, firing>>

Clear(k) ==
    /\ ~ticking
    /\ live' = [live EXCEPT ![k].cnt = 0]
    /\ UNCHANGED <<added, ticking, todo, firing>>

TickBegin ==
    /\ ~ticking
    /\ ticking' = TRUE
    /\ todo' = DOMAIN live
    /\ UNCHANGED <<added, live, firing>>

Oldest(k) == k \in todo /\ \A j \in todo : k <= j

Visit(k) ==
    /\ ticking /\ firing = {} /\ Oldest(k)
    /\ todo' = todo \ {k}
    /\ LET n == live[k].cnt + 1
       IN  IF n >= live[k].dev
           THEN firing' = {k} /\ live' = [live EXCEPT ![k].cnt = 0]
           ELSE firing' = {} /\ live' = [live EXCEPT ![k].cnt = n]
    /\ UNCHANGED <<added, ticking>>

Fired(k) ==
    /\ k \in firing
    /\ firing' = {}
    /\ live' = live \/ live' = Without(k)
    /\ UNCHANGED <<added, ticking, todo>>

TickEnd ==
    /\ ticking /\ firing = {} /\ todo = {}
    /\ ticking' = FALSE
    /\ UNCHANGED <<added, live, todo, firing>>

Next ==
    \/ \E d \in Intervals : Add(d)
    \/ \E k \in DOMAIN live : Stop(k) \/ Clear(k) \/ Visit(k) \/ Fired(k)
    \/ TickBegin
    \/ TickEnd

Spec == Init /\ [][Next]_vars
=============================================================================
