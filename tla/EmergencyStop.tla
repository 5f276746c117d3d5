--------------------------- MODULE EmergencyStop ---------------------------
(***************************************************************************)
(* What both controllers' emergency stop promises, without tasks, flags or *)
(* frames: once it brakes it may hold the pedals, it takes them only while *)
(* it brakes, and it stops braking only when the car stands, giving the    *)
(* pedals back in the same step.  The car moves and stops as it likes.     *)
(*                                                                         *)
(* Where the driver's reaction ends it (phase 1), the pedals may be given  *)
(* back at any time, and it may be abandoned while the car moves; what it  *)
(* then leaves to the pedals is not promised.                              *)
(***************************************************************************)
CONSTANT Reacts    \* Boolean: the driver's reaction may end the emergency stop

VARIABLES braking, held, moving

vars == <<braking, held, moving>>

Init == braking = FALSE /\ held = FALSE /\ moving = FALSE

Engage  == ~braking /\ braking' = TRUE /\ UNCHANGED <<held, moving>>
Hold    == braking /\ held' = TRUE /\ UNCHANGED <<braking, moving>>
Drive   == moving' \in BOOLEAN /\ UNCHANGED <<braking, held>>
Release == /\ braking /\ ~moving
           /\ braking' = FALSE /\ held' = FALSE
           /\ UNCHANGED moving
React   == Reacts /\ held' = FALSE /\ UNCHANGED <<braking, moving>>
Abandon == Reacts /\ braking' = FALSE /\ UNCHANGED <<held, moving>>

Next == Engage \/ Hold \/ Drive \/ Release \/ React \/ Abandon

Spec == Init /\ [][Next]_vars
=============================================================================
