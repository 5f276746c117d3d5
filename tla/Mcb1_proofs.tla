---------------------------- MODULE Mcb1_proofs ----------------------------
(***************************************************************************)
(* Proofs about Mcb1, for every value of the constants that                *)
(* Mcb1Assumption allows.                                                  *)
(***************************************************************************)
EXTENDS Mcb1, TLAPS

USE DEF At, Goto, Step

-----------------------------------------------------------------------------
(* Type correctness                                                        *)

\* The pressures Pedal uses are natural numbers.
LEMMA DataType ==
  ASSUME TypeOK
  PROVE  data.accel \in Nat /\ data.brake \in Nat
BY Mcb1Assumption DEF TypeOK, NoPress, Message

\* The parts of TypeOK.
SchedType ==
  /\ st \in [Task -> TaskState]
  /\ pc \in [Task -> SisLabels \cup CanLabels \cup PedalLabels]
  /\ pc["sis"] \in SisLabels /\ pc["can"] \in CanLabels
  /\ pc["pedal"] \in PedalLabels

SpeedType ==
  /\ pedal_input_enabled \in BOOLEAN /\ raised \in 0 .. TwiceOrMore
  /\ accel_val \in Nat /\ brake_val \in Nat
  /\ current_speed \in Int /\ change \in Int /\ loaded \in Int
  /\ pc["pedal"] # "clamp" => current_speed \in Speeds \cup CruiseSpeeds

PedalType ==
  /\ pressed \in [Pedals -> BOOLEAN]
  /\ hold \in [Pedals -> 0 .. HoldTicks]
  /\ queue \in Seq(Pressures) /\ Len(queue) <= QueueLen
  /\ data \in Pressures \cup {NoPress}

CanType ==
  /\ Id100_Flag \in BOOLEAN
  /\ rx \in {0, 1}
  /\ can_send_flag \in BOOLEAN
  /\ outbox \in 0 .. Mailboxes
  /\ halted \in BOOLEAN

LEMMA TypeParts == TypeOK <=> SchedType /\ SpeedType /\ PedalType /\ CanType
BY DEF TypeOK, SchedType, SpeedType, PedalType, CanType

LEMMA TypePartsNext ==
  TypeOK' <=> SchedType' /\ SpeedType' /\ PedalType' /\ CanType'
BY DEF TypeOK, SchedType, SpeedType, PedalType, CanType

LEMMA SchedStep == TypeOK /\ [Next]_vars => SchedType'
<1> SUFFICES ASSUME TypeOK, [Next]_vars PROVE SchedType'
  OBVIOUS
<1> USE DEF TypeOK, SchedType, Task, TaskState, SisLabels, CanLabels, PedalLabels,
        Suspend, Resume, Delay, Rouse, schedVars
<1>1. CASE SisStep
  BY <1>1 DEF SisStep, SisBrake, SisFinish, SisSleep
<1>2. CASE CanStep
  BY <1>2 DEF CanStep, CanPoll, CanConscious, CanEngage, CanAck, CanEnable,
     CanSuspend, CanClear, CanIdle, CanRequested, CanStop
<1>3. CASE PedalStep
  BY <1>3 DEF PedalStep, PedalReceive, PedalWait, PedalTimeout, PedalGate,
     PedalAccel, PedalBrake, PedalFlags, PedalLoadFirst, PedalLoad, PedalStore,
     PedalClamp,
     PedalReset
<1>4. CASE World
  BY <1>4 DEF World, CanRxIsr, KeyIsr, TcpPost, BusTransmit
<1>5. ASSUME NEW t \in Task, Wake(t) PROVE SchedType'
  BY <1>5 DEF Wake
<1>6. CASE UNCHANGED vars
  BY <1>6 DEF vars
<1>7. CASE SccDrives
  BY <1>7 DEF SccDrives
<1>8. QED
  BY <1>1, <1>2, <1>3, <1>4, <1>5, <1>6, <1>7 DEF Next

LEMMA InitType == Init => TypeOK
<1> SUFFICES ASSUME Init PROVE TypeOK
  OBVIOUS
<1>1. SchedType
  BY DEF Init, SchedType, Task, TaskState, SisLabels, CanLabels, PedalLabels
<1>2. SpeedType
  BY Mcb1Assumption DEF Init, SpeedType, Speeds, TwiceOrMore
<1>3. PedalType
  BY Mcb1Assumption DEF Init, PedalType, Pedals
<1>4. CanType
  <2>1. rx \in {0, 1}
    BY DEF Init
  <2>2. outbox \in 0 .. Mailboxes
    BY Mcb1Assumption DEF Init
  <2>3. QED
    BY <2>1, <2>2 DEF Init, CanType
<1>5. QED
  BY <1>1, <1>2, <1>3, <1>4, TypeParts

LEMMA SpeedStep == TypeOK /\ [Next]_vars => SpeedType'
<1> SUFFICES ASSUME TypeOK, [Next]_vars PROVE SpeedType'
  OBVIOUS
<1> USE Mcb1Assumption
    DEF SpeedType, Speeds, gateVars, speedVars, pedalVars, regs, TwiceOrMore
<1>1. /\ SchedType /\ SpeedType
      /\ data.accel \in Nat /\ data.brake \in Nat
  BY TypeParts, DataType
<1>2. CASE SisStep
  <2>1. pc'["pedal"] = pc["pedal"] /\ UNCHANGED <<current_speed, change, loaded>>
    BY <1>1, <1>2 DEF SchedType, Task, SisStep, SisBrake, SisFinish, SisSleep
  <2>2. pedal_input_enabled' \in BOOLEAN
    BY <1>1, <1>2 DEF SisStep, SisBrake, SisFinish, SisSleep, GivePedals
  <2>3. raised' \in {0, raised}
    BY <1>2 DEF SisStep, SisBrake, SisFinish, SisSleep, GivePedals
  <2>4. accel_val' \in {0, accel_val} /\ brake_val' \in {McbBrake, brake_val}
    BY <1>2 DEF SisStep, SisBrake, SisFinish, SisSleep, RequestBrake
  <2>5. QED
    BY <1>1, <2>1, <2>2, <2>3, <2>4
<1>3. CASE CanStep
  <2>1. pc'["pedal"] = pc["pedal"] /\ UNCHANGED regs
    BY <1>1, <1>3 DEF SchedType, Task, CanStep, CanPoll, CanConscious, CanEngage,
       CanAck, CanEnable, CanSuspend, CanClear, CanIdle, CanRequested, CanStop
  <2>2. pedal_input_enabled' \in BOOLEAN /\ UNCHANGED speedVars
    BY <1>1, <1>3 DEF CanStep, CanPoll, CanConscious, CanEngage,
       CanAck, CanEnable, CanSuspend, CanClear, CanIdle, CanRequested, CanStop,
       GivePedals
  <2>3. raised' \in {0, raised}
    BY <1>3 DEF CanStep, CanPoll, CanConscious, CanEngage, CanAck, CanEnable,
       CanSuspend, CanClear, CanIdle, CanRequested, CanStop, GivePedals
  <2>4. QED
    BY <1>1, <2>1, <2>2, <2>3
<1>4. CASE PedalStep
  <2>1. CASE PedalStore
    BY <1>1, <2>1 DEF PedalStore, RisesWhileHeld, SchedType, Task
  <2>2. CASE PedalClamp
    BY <1>1, <2>2 DEF PedalClamp, SchedType
  <2>3. CASE PedalLoadFirst \/ PedalLoad
    BY <1>1, <2>3 DEF PedalLoadFirst, PedalLoad, SchedType, Task
  <2>4. CASE ~PedalStore /\ ~PedalClamp /\ ~PedalLoadFirst /\ ~PedalLoad
    BY <1>1, <1>4, <2>4 DEF SchedType, PedalStep, PedalReceive, PedalWait,
       PedalTimeout, PedalGate, PedalAccel, PedalBrake, PedalFlags, PedalReset
  <2>5. QED
    BY <2>1, <2>2, <2>3, <2>4
<1>5. CASE World
  BY <1>1, <1>5 DEF World, CanRxIsr, KeyIsr, TcpPost, BusTransmit, schedVars
<1>6. ASSUME NEW t \in Task, Wake(t) PROVE SpeedType'
  BY <1>1, <1>6 DEF Wake
<1>7. CASE UNCHANGED vars
  BY <1>1, <1>7 DEF vars, schedVars
<1>8. CASE SccDrives
  BY <1>1, <1>8 DEF SccDrives, schedVars
<1>9. QED
  BY <1>2, <1>3, <1>4, <1>5, <1>6, <1>7, <1>8 DEF Next

LEMMA PedalTypeStep == TypeOK /\ [Next]_vars => PedalType'
<1> SUFFICES ASSUME TypeOK, [Next]_vars PROVE PedalType'
  OBVIOUS
<1> USE Mcb1Assumption DEF PedalType, pedalVars
<1>1. /\ PedalType
      /\ data.accel \in Nat /\ data.brake \in Nat
  BY TypeParts, DataType
<1>2. CASE UNCHANGED pedalVars
  BY <1>1, <1>2
<1>3. CASE PedalReceive
  BY <1>1, <1>3 DEF PedalReceive
<1>4. CASE PedalTimeout
  BY <1>1, <1>4 DEF PedalTimeout
<1>5. CASE PedalFlags
  BY <1>1, <1>5 DEF PedalFlags, Restarted, Pressure, Pedals
<1>6. CASE PedalLoadFirst \/ PedalLoad \/ PedalStore
  BY <1>1, <1>6 DEF PedalLoadFirst, PedalLoadFirst, PedalLoad, PedalStore
<1>7. ASSUME NEW k \in Keys, KeyIsr(k) PROVE PedalType'
  BY <1>1, <1>7 DEF KeyIsr
<1>8. ASSUME NEW m \in Pressures, TcpPost(m) PROVE PedalType'
  BY <1>1, <1>8 DEF TcpPost
<1>9. QED
  BY <1>2, <1>3, <1>4, <1>5, <1>6, <1>7, <1>8 DEF Next, SisStep, SisBrake,
     SisFinish, SisSleep, CanStep, CanPoll, CanConscious, CanEngage, CanAck,
     CanEnable, CanSuspend, CanClear, CanIdle, CanRequested, CanStop, PedalStep,
     PedalWait, PedalGate, PedalAccel, PedalBrake, PedalClamp, PedalReset,
     SccDrives, World,
     CanRxIsr, BusTransmit, Wake, vars

LEMMA CanTypeStep == TypeOK /\ [Next]_vars => CanType'
<1> SUFFICES ASSUME TypeOK, [Next]_vars PROVE CanType'
  OBVIOUS
<1> USE Mcb1Assumption DEF CanType, rxVars, txVars
<1>1. CanType
  BY TypeParts
<1>2. CASE UNCHANGED <<rxVars, txVars>>
  BY <1>1, <1>2
<1>3. CASE SisFinish
  BY <1>1, <1>3 DEF SisFinish
<1>4. CASE CanAck \/ CanStop
  <2>1. outbox' \in 0 .. Mailboxes /\ halted' \in BOOLEAN
    <3>1. CASE outbox < Mailboxes
      BY <1>1, <1>4, <3>1 DEF CanAck, CanStop, AddTxMessage, Error_Handler
    <3>2. CASE ~(outbox < Mailboxes)
      BY <1>1, <1>4, <3>2 DEF CanAck, CanStop, AddTxMessage, Error_Handler
    <3>3. QED
      BY <3>1, <3>2
  <2>2. QED
    BY <1>1, <1>4, <2>1 DEF CanAck, CanStop
<1>5. CASE CanClear
  BY <1>1, <1>5 DEF CanClear
<1>6. ASSUME NEW f \in Frames, CanRxIsr(f) PROVE CanType'
  BY <1>1, <1>6, Mcb1Assumption DEF CanRxIsr, Frame
<1>7. CASE BusTransmit
  BY <1>1, <1>7 DEF BusTransmit
<1>8. QED
  BY <1>2, <1>3, <1>4, <1>5, <1>6, <1>7 DEF Next, SisStep, SisBrake, SisSleep,
     CanStep, CanPoll, CanConscious, CanEngage, CanEnable, CanSuspend, CanIdle,
     CanRequested, PedalStep, PedalReceive, PedalWait, PedalTimeout, PedalGate,
     PedalAccel, PedalBrake, PedalFlags, PedalLoadFirst, PedalLoad, PedalStore,
     PedalClamp,
     PedalReset, SccDrives,
     World, KeyIsr, TcpPost, Wake, vars

LEMMA TypeStep == TypeOK /\ [Next]_vars => TypeOK'
  BY SchedStep, SpeedStep, PedalTypeStep, CanTypeStep, TypePartsNext

\* Every variable keeps its type; the speed leaves its range only between the
\* store and the clamp of Pedal.
THEOREM TypeCorrect == Spec => []TypeOK
  BY InitType, TypeStep, PTL DEF Spec

-----------------------------------------------------------------------------
(* The last rise of the speed                                              *)

\* Where a Pedal iteration may hold an acceleration that passed the check.
InFlight == {"brake", "flags", "load", "minus", "plus", "store", "clamp", "reset"}

\* An acceleration is pending only in an iteration that is under way; when the
\* pedals raised the speed while held, that was this iteration's store, or none
\* is pending any more and what is loaded does not raise it again.
RaiseInv ==
  /\ accel_val > 0 => pc["pedal"] \in InFlight
  /\ raised \in {0, 1}
  /\ raised = 1 =>
       /\ ~pedal_input_enabled
       /\ \/ pc["pedal"] \in {"clamp", "reset"}
          \/ /\ accel_val = 0
             /\ pc["pedal"] \notin {"accel", "brake"}
             /\ pc["pedal"] \in {"minus", "plus", "store"} => change <= 0

\* No task but Pedal changes its registers or its place; SIS alone takes the
\* pedals, and with them the pending acceleration.
LEMMA OthersLeavePedal ==
  ASSUME TypeOK, [Next]_vars, ~PedalStep
  PROVE  /\ UNCHANGED regs
         /\ pc'["pedal"] = pc["pedal"]
         /\ accel_val' = accel_val \/ accel_val' = 0
         /\ ~SccDrives => UNCHANGED current_speed
BY DEF TypeOK, Task, Next, SisStep, SisBrake, SisFinish, SisSleep, RequestBrake,
   CanStep, CanPoll, CanConscious, CanEngage, CanAck, CanEnable, CanSuspend,
   CanClear, CanIdle, CanRequested, CanStop, SccDrives, World, CanRxIsr, KeyIsr,
   TcpPost, BusTransmit, Wake, vars, schedVars, speedVars, pedalVars, regs

\* The count is 0 while the pedals act on the speed, only Pedal's store adds to
\* it, and every other step keeps it or, with the pedals given back, clears it.
LEMMA OthersLeaveCount ==
  ASSUME TypeOK, RaiseInv, [Next]_vars, ~PedalStore
  PROVE  \/ UNCHANGED gateVars
         \/ raised' = raised /\ ~pedal_input_enabled'
         \/ raised' = 0
BY DEF Next, SisStep, SisBrake, SisFinish, SisSleep, GivePedals, CanStep, CanPoll,
   CanConscious, CanEngage, CanAck, CanEnable, CanSuspend, CanClear, CanIdle,
   CanRequested, CanStop, PedalStep, PedalReceive, PedalWait, PedalTimeout,
   PedalGate, PedalAccel, PedalBrake, PedalFlags, PedalLoadFirst, PedalLoad,
   PedalClamp, PedalReset, SccDrives, World, CanRxIsr, KeyIsr, TcpPost,
   BusTransmit,
   Wake, vars, gateVars

LEMMA RaiseStep == TypeOK /\ TypeOK' /\ RaiseInv /\ [Next]_vars => RaiseInv'
<1> SUFFICES ASSUME TypeOK, TypeOK', RaiseInv, [Next]_vars PROVE RaiseInv'
  OBVIOUS
<1>1. /\ accel_val \in Nat /\ accel_val' \in Nat /\ brake_val \in Nat
      /\ change \in Int
      /\ pc["pedal"] \in PedalLabels
      /\ pedal_input_enabled \in BOOLEAN /\ pedal_input_enabled' \in BOOLEAN
  BY DEF TypeOK
<1>2. CASE ~PedalStep
  <2>1. /\ UNCHANGED regs /\ pc'["pedal"] = pc["pedal"]
        /\ accel_val' = accel_val \/ accel_val' = 0
    BY <1>2, OthersLeavePedal
  <2>2. \/ UNCHANGED gateVars
        \/ raised' = raised /\ ~pedal_input_enabled'
        \/ raised' = 0
    BY <1>2, OthersLeaveCount DEF PedalStep
  <2>3. QED
    BY <1>1, <2>1, <2>2 DEF RaiseInv, gateVars, regs
<1>3. CASE PedalStore
  <2>1. /\ pc["pedal"] = "store" /\ pc'["pedal"] = "clamp"
        /\ accel_val' = accel_val
        /\ pedal_input_enabled' = pedal_input_enabled
    BY <1>3 DEF PedalStore, TypeOK, Task
  <2>2. raised' = raised \/ (raised' = raised + 1 /\ ~pedal_input_enabled
                             /\ change > 0)
    BY <1>3, <2>1 DEF PedalStore, RisesWhileHeld
  <2>3. QED
    BY <1>1, <2>1, <2>2 DEF RaiseInv, InFlight
<1>4. CASE PedalStep /\ ~PedalStore
  <2>1. UNCHANGED gateVars
    BY <1>4 DEF PedalStep, PedalReceive, PedalWait, PedalTimeout, PedalGate,
       PedalAccel, PedalBrake, PedalFlags, PedalLoadFirst, PedalLoad, PedalClamp,
       PedalReset, gateVars
  <2>2. CASE PedalClamp
    BY <2>1, <2>2 DEF PedalClamp, RaiseInv, InFlight, TypeOK, Task, gateVars
  <2>3. CASE PedalReset
    BY <2>1, <2>3 DEF PedalReset, RaiseInv, InFlight, TypeOK, Task, gateVars
  <2>4. CASE PedalLoadFirst \/ PedalLoad
    BY <1>1, <2>1, <2>4 DEF PedalLoadFirst, PedalLoad, RaiseInv, InFlight,
       TypeOK, Task, speedVars,
       gateVars
  <2>5. CASE PedalAccel
    BY <2>1, <2>5 DEF PedalAccel, RaiseInv, InFlight, TypeOK, Task, gateVars
  <2>6. CASE PedalGate
    BY <2>1, <2>6 DEF PedalGate, RaiseInv, InFlight, TypeOK, Task, speedVars,
       gateVars
  <2>7. CASE PedalBrake \/ PedalFlags
    BY <2>1, <2>7 DEF PedalBrake, PedalFlags, RaiseInv, InFlight, TypeOK, Task,
       speedVars, gateVars
  <2>8. CASE PedalReceive \/ PedalWait \/ PedalTimeout
    BY <1>1, <2>1, <2>8 DEF PedalReceive, PedalWait, PedalTimeout, RaiseInv,
       InFlight, TypeOK, Task, speedVars, PedalLabels, gateVars
  <2>9. QED
    BY <1>4, <2>2, <2>3, <2>4, <2>5, <2>6, <2>7, <2>8 DEF PedalStep
<1>5. QED
  BY <1>2, <1>3, <1>4

\* While SIS holds the pedals, they raise the speed at most once more (pedal.c:28, :61).
THEOREM RaisesAtMostOnce == Spec => []RaisedAtMostOnce
<1>1. Init => TypeOK /\ RaiseInv
  BY InitType DEF Init, RaiseInv
<1>2. TypeOK /\ RaiseInv /\ [Next]_vars => (TypeOK /\ RaiseInv)'
  BY TypeStep, RaiseStep
<1>3. RaiseInv => RaisedAtMostOnce
  BY DEF RaiseInv, RaisedAtMostOnce
<1>4. QED
  BY <1>1, <1>2, <1>3, PTL DEF Spec

-----------------------------------------------------------------------------
(* The promise                                                             *)

\* Some node asks whether the driver reacts: a frame carries the byte 1.
SomeoneAsks == \E f \in Frames : f.byte = 1

\* CAN gives the pedals back and suspends SIS only if some node asks.
ReactInv == rx = 1 \/ pc["can"] \in {"ack", "enable", "suspend"} => SomeoneAsks

LEMMA ReactStep ==
  ASSUME TypeOK, [Next]_vars, ReactInv
  PROVE  ReactInv'
<1> SUFFICES ASSUME ~SomeoneAsks
             PROVE  rx' # 1 /\ pc'["can"] \notin {"ack", "enable", "suspend"}
  BY DEF ReactInv, SomeoneAsks
<1>1. rx # 1 /\ pc["can"] \notin {"ack", "enable", "suspend"}
  BY DEF ReactInv
<1>2. rx' # 1
  <2>1. ASSUME NEW f \in Frames, CanRxIsr(f) PROVE rx' # 1
    BY <2>1 DEF CanRxIsr, SomeoneAsks
  <2>2. CASE UNCHANGED rx
    BY <1>1, <2>2
  <2>3. CASE CanClear
    BY <2>3 DEF CanClear
  <2>4. QED
    BY <2>1, <2>2, <2>3 DEF Next, SisStep, SisBrake, SisFinish, SisSleep, CanStep,
       CanPoll, CanConscious, CanEngage, CanAck, CanEnable, CanSuspend,
       CanIdle, CanRequested, CanStop, PedalStep, PedalReceive, PedalWait,
       PedalTimeout, PedalGate, PedalAccel, PedalBrake, PedalFlags,
       PedalLoadFirst, PedalLoad,
       PedalStore, PedalClamp, PedalReset, SccDrives, World, KeyIsr, TcpPost,
       BusTransmit,
       Wake, vars, rxVars
<1>3. pc'["can"] \notin {"ack", "enable", "suspend"}
  <2>1. ~CanConscious /\ ~CanAck /\ ~CanEnable /\ ~CanSuspend
    BY <1>1 DEF CanConscious, DriverConscious, CanAck, CanEnable, CanSuspend
  <2>2. QED
    BY <1>1, <2>1 DEF TypeOK, Task, Next, SisStep, SisBrake, SisFinish, SisSleep,
       CanStep, CanPoll, CanEngage, CanClear, CanIdle, CanRequested, CanStop,
       PedalStep, PedalReceive, PedalWait, PedalTimeout, PedalGate, PedalAccel,
       PedalBrake, PedalFlags, PedalLoadFirst, PedalLoad, PedalStore, PedalClamp,
       PedalReset, SccDrives, World,
       CanRxIsr, KeyIsr, TcpPost, BusTransmit, Wake, vars, schedVars
<1>4. QED
  BY <1>2, <1>3

\* But for CAN's reaction to the driver, SIS alone parks SIS, and SIS alone moves
\* the gate.
LEMMA OnlySisParks ==
  ASSUME TypeOK, [Next]_vars, ~SisFinish, ~CanSuspend, ~CanEnable
  PROVE  /\ st["sis"] # "suspended" => st'["sis"] # "suspended"
         /\ ~SisBrake => UNCHANGED pedal_input_enabled
<1>1. st["sis"] # "suspended" => st'["sis"] # "suspended"
  BY DEF TypeOK, Task, Next, SisStep, SisBrake, SisSleep, CanStep, CanPoll,
     CanConscious, CanEngage, CanAck, CanClear, CanIdle, CanRequested, CanStop,
     PedalStep, PedalReceive, PedalWait, PedalTimeout, PedalGate, PedalAccel,
     PedalBrake, PedalFlags, PedalLoadFirst, PedalLoad, PedalStore, PedalClamp,
     PedalReset, SccDrives, World,
     CanRxIsr, KeyIsr, TcpPost, BusTransmit, Wake, vars, schedVars, Suspend,
     Resume, Delay, Rouse
<1>2. ~SisBrake => UNCHANGED pedal_input_enabled
  BY DEF Next, SisStep, SisSleep, CanStep, CanPoll, CanConscious, CanEngage,
     CanAck, CanClear, CanIdle, CanRequested, CanStop, PedalStep, PedalReceive,
     PedalWait, PedalTimeout, PedalGate, PedalAccel, PedalBrake, PedalFlags,
     PedalLoadFirst, PedalLoad, PedalStore, PedalClamp, PedalReset, SccDrives,
     World, CanRxIsr, KeyIsr,
     TcpPost, BusTransmit, Wake, vars, gateVars
<1>3. QED
  BY <1>1, <1>2

LEMMA ReactInvariance == Spec => [](TypeOK /\ ReactInv)
<1>1. Init => TypeOK /\ ReactInv
  BY InitType DEF Init, ReactInv
<1>2. TypeOK /\ ReactInv /\ [Next]_vars => (TypeOK /\ ReactInv)'
  BY TypeStep, ReactStep
<1>3. QED
  BY <1>1, <1>2, PTL DEF Spec

LEMMA ParkedStep ==
  ASSUME TypeOK, [Next]_vars, ReactInv, ~SomeoneAsks, ParkedGivesPedals
  PROVE  ParkedGivesPedals'
<1> SUFFICES ASSUME st'["sis"] = "suspended" PROVE pedal_input_enabled'
  BY DEF ParkedGivesPedals
<1>1. ~CanSuspend /\ ~CanEnable
  BY DEF ReactInv, CanSuspend, CanEnable
<1>2. CASE SisFinish
  BY <1>2 DEF SisFinish, GivePedals
<1>3. CASE ~SisFinish
  <2>1. st["sis"] = "suspended" /\ pedal_input_enabled
    BY <1>1, <1>3, OnlySisParks DEF ParkedGivesPedals
  <2>2. ~SisBrake
    BY <2>1 DEF SisBrake, Running
  <2>3. QED
    BY <1>1, <1>3, <2>1, <2>2, OnlySisParks
<1>4. QED
  BY <1>2, <1>3

\* When no node asks for the driver, a parked emergency stop leaves the pedals to
\* the driver (mcb.c:29-30).
THEOREM ParkedLeavesPedals ==
  ASSUME ~SomeoneAsks PROVE Spec => []ParkedGivesPedals
<1>1. Init => ParkedGivesPedals
  BY DEF Init, ParkedGivesPedals
<1>2. TypeOK /\ ReactInv /\ ParkedGivesPedals /\ [Next]_vars => ParkedGivesPedals'
  BY ParkedStep
<1>3. QED
  BY <1>1, <1>2, ReactInvariance, PTL DEF Spec

\* Every behaviour of the phase 1 emergency stop is one of the abstract one, for
\* any frames; when no node asks for the driver, of the one that is never abandoned.
THEOREM Implements == Spec => KeepsStopPromise
<1>1. Init => Stop!Init
  BY DEF Init, Stop!Init
<1>2. TypeOK /\ ReactInv /\ [Next]_vars => [Stop!Next]_Stop!vars
  <2> SUFFICES ASSUME TypeOK, ReactInv, [Next]_vars PROVE [Stop!Next]_Stop!vars
    OBVIOUS
  <2>1. CASE SisBrake
    BY <2>1 DEF SisBrake, Running, Delay, TypeOK, Task, Stop!Next, Stop!Hold
  <2>2. CASE SisFinish
    <3>1. st["sis"] # "suspended" /\ st'["sis"] = "suspended"
      BY <2>2 DEF SisFinish, Running, Suspend, TypeOK, Task
    <3>2. current_speed = 0 /\ current_speed' = 0 /\ pedal_input_enabled'
      BY <2>2 DEF SisFinish, Standing, GivePedals
    <3>3. QED
      BY <3>1, <3>2 DEF Stop!Next, Stop!Release
  <2>3. CASE CanEnable
    <3>1. SomeoneAsks
      BY <2>3 DEF CanEnable, ReactInv
    <3>2. pedal_input_enabled' /\ UNCHANGED <<st, current_speed>>
      BY <2>3 DEF CanEnable, GivePedals, speedVars
    <3>3. QED
      BY <3>1, <3>2 DEF SomeoneAsks, Stop!Next, Stop!React
  <2>4. CASE CanSuspend
    <3>1. SomeoneAsks
      BY <2>4 DEF CanSuspend, ReactInv
    <3>2. st'["sis"] = "suspended" /\ UNCHANGED <<pedal_input_enabled,
    current_speed>>
      BY <2>4 DEF CanSuspend, Suspend, TypeOK, Task, gateVars, speedVars
    <3>3. QED
      BY <3>1, <3>2 DEF SomeoneAsks, Stop!Next, Stop!Abandon
  <2>5. CASE ~SisBrake /\ ~SisFinish /\ ~CanEnable /\ ~CanSuspend
    <3>1. /\ UNCHANGED pedal_input_enabled
          /\ st["sis"] # "suspended" => st'["sis"] # "suspended"
      BY <2>5, OnlySisParks
    <3>2. CASE PedalStep
      <4>1. st'["sis"] = st["sis"]
        BY <3>2 DEF PedalStep, PedalReceive, PedalWait, PedalTimeout, PedalGate,
           PedalAccel, PedalBrake, PedalFlags, PedalLoadFirst, PedalLoad,
           PedalStore, PedalClamp,
           PedalReset, TypeOK, Task, Delay
      <4>2. QED
        BY <3>1, <4>1 DEF Stop!Next, Stop!Drive
    <3>3. CASE SccDrives
      BY <3>1, <3>3 DEF SccDrives, schedVars, Stop!Next, Stop!Drive
    <3>4. CASE ~PedalStep /\ ~SccDrives
      <4>1. current_speed' = current_speed
        BY <3>4, OthersLeavePedal
      <4>2. QED
        BY <3>1, <4>1 DEF Stop!Next, Stop!Engage, Stop!vars
    <3>5. QED
      BY <3>2, <3>3, <3>4
  <2>6. QED
    BY <2>1, <2>2, <2>3, <2>4, <2>5
<1>3. QED
  BY <1>1, <1>2, ReactInvariance, PTL DEF Spec, KeepsStopPromise, Stop!Spec
=============================================================================
