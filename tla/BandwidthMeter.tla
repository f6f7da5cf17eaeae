--------------------------- MODULE BandwidthMeter ---------------------------
(***************************************************************************)
(* What a bandwidth limit promises (app/throttle.py): in every interval a  *)
(* meter lets through at most Capacity and Rate for each unit of time.     *)
(* excess is the most that any interval ending now has gone beyond its     *)
(* Rate; an interval that went beyond by nothing can be forgotten.         *)
(***************************************************************************)
EXTENDS Naturals

CONSTANTS
    Meters,   \* what has a limit
    Rate,     \* bytes per unit of time of each
    Capacity  \* the burst that each allows

VARIABLE excess

Init == excess = [m \in Meters |-> 0]

Pass(m, n) ==
    /\ excess[m] + n <= Capacity[m]
    /\ excess' = [excess EXCEPT ![m] = @ + n]

Elapse ==
    excess' = [m \in Meters |->
                  IF excess[m] > Rate[m] THEN excess[m] - Rate[m] ELSE 0]

Next == Elapse \/ \E m \in Meters : \E n \in 1..Capacity[m] : Pass(m, n)

Spec == Init /\ [][Next]_excess
=============================================================================
