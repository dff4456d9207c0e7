------------------------------ MODULE MCCTimer ------------------------------
(***************************************************************************)
(* Model checking of CTimer, and of the refinement CTimer => TimerSet.     *)
(***************************************************************************)
EXTENDS CTimer
=============================================================================
