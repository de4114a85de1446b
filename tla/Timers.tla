-------------------------------- MODULE Timers --------------------------------
(***************************************************************************)
(* The clock that time-outs, pauses and times to live are counted with.    *)
(* Timers fire when they are due: time does not pass one by.               *)
(***************************************************************************)
EXTENDS Naturals

CONSTANTS MaxClock,  \* bound: how far the clock runs
          None

VARIABLE clock

ASSUME ClockBound == MaxClock \in Nat
ASSUME NoneIsNoTime == None \notin Nat

Tick ==
  /\ clock < MaxClock
  /\ clock' = clock + 1
==============================================================================
