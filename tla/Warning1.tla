------------------------------ MODULE Warning1 ------------------------------
(***************************************************************************)
(* The statistics with which phase 1's cruise control watches the distance *)
(* (scc.c:29-57): the relative speed to the car ahead, the time to         *)
(* collision TTC, and, over the iterations in which TTC is short, their    *)
(* time TET and its integral TIT.  Nobody but SCC touches any of them: an  *)
(* iteration is one step.  What SCC does with the speed is in Cruise.      *)
(*                                                                         *)
(* Distances are whole numbers of the sensor's centimetres.  rel_speed_mps *)
(* is in their tenfold, the change in 0.1 s; TTC and the times are tenths  *)
(* of a second, TTC rounded down, TIT hundredths of a square second.  The  *)
(* float sum of twenty 0.1f reaches the 2.0f of scc.c:52.                  *)
(***************************************************************************)
EXTENDS Integers

CONSTANTS Dists,     \* the distances the sensor publishes
          MaxTET     \* bound: dangerous iterations that are counted

Infinite == 99990    \* 9999.0f
SafeFor == 20        \* 2 s

VARIABLES prev_dist_m, rel_speed_mps, TTC, TET, TIT, safe_time
vars == <<prev_dist_m, rel_speed_mps, TTC, TET, TIT, safe_time>>

\* TTC is a local of the iteration, infinite before the first one.
Init ==
  /\ prev_dist_m = 0 /\ rel_speed_mps = 0 /\ TTC = Infinite
  /\ TET = 0 /\ TIT = 0 /\ safe_time = 0

\* scc.c:33-43: the speed is the old distance less the new one.
RelSpeed(d) == 10 * (prev_dist_m - d)
Collision(d, rel) == IF 10 * rel < -1 THEN (10 * d) \div (-rel) ELSE Infinite

\* scc.c:46: TTC is below 2.5 s and above 0.1 s, its fraction included.
InDanger(d, rel) == 10 * rel < -1 /\ 10 * d < 25 * (-rel) /\ 10 * d > -rel

\* scc.c:46-57
Counts(d, rel) ==
  \/ /\ InDanger(d, rel) /\ TET < MaxTET
     /\ TET' = TET + 1 /\ TIT' = TIT + 25 - TTC'
     /\ safe_time' = 0
  \/ /\ ~InDanger(d, rel) /\ safe_time + 1 < SafeFor
     /\ safe_time' = safe_time + 1 /\ UNCHANGED <<TET, TIT>>
  \/ /\ ~InDanger(d, rel) /\ safe_time + 1 >= SafeFor
     /\ TET' = 0 /\ TIT' = 0 /\ safe_time' = 0

\* The iteration of StartSCCTask at distance d.
Iterates(d) ==
  /\ rel_speed_mps' = RelSpeed(d) /\ prev_dist_m' = d
  /\ TTC' = Collision(d, rel_speed_mps')
  /\ Counts(d, rel_speed_mps')

Next == \E d \in Dists : Iterates(d)

Spec == Init /\ [][Next]_vars

-----------------------------------------------------------------------------
\* TTC is infinite because there is hardly any relative speed (scc.c:42), 0.1 at
\* most by the constant of scc.c:39, in tenths here.
Hardly(rel) == 10 * rel \in -1 .. 1
InfiniteOnlyWhenStill == TTC = Infinite => Hardly(rel_speed_mps)
=============================================================================
