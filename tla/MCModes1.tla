------------------------------ MODULE MCModes1 ------------------------------
(***************************************************************************)
(* What the lane detection may say: offset 150 is no lane, 200 the lane is *)
(* left, both with an indicator of 0; 50, the middle, is what Main stores. *)
(* One drive uses cruise control, lane keeping and the indicator by their  *)
(* buttons, or both by their keys.                                         *)
(***************************************************************************)
EXTENDS Modes1

LostOrLeft == {<<150, 0>>, <<200, 0>>}
Controls == {{"!", "1"}, {"@", "#"}, {"2", "3"}}
=============================================================================
