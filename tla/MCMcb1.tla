------------------------------- MODULE MCMcb1 -------------------------------
(***************************************************************************)
(* Small instances of Mcb1.                                                *)
(***************************************************************************)
EXTENDS Mcb1

\* A press of the accelerator with a touch of the brake, which is no press.
MCPressures == {[accel |-> 2, brake |-> 1]}

\* The shock unit reports a shock; it asks whether the driver is conscious;
\* another node sends on the second identifier.
MCAsk == {[id |-> "0x111", byte |-> 0], [id |-> "0x111", byte |-> 1]}
MCAll == MCAsk \cup {[id |-> "0x200", byte |-> 1]}

\* SCC stops the car, or goes as fast as it can.
MCCruiseSpeeds == {0, 2}
=============================================================================
