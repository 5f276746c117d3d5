-------------------------------- MODULE Mcb1 --------------------------------
(***************************************************************************)
(* The emergency stop ("MCB") of the phase 1 controller: the shock task    *)
(* SIS that brakes the car, the CAN task that starts and stops it, the     *)
(* Pedal task that turns pressures and brake requests into speed, and the  *)
(* interrupts that feed them.                                              *)
(*                                                                         *)
(*   SIS   (mcb.c)    Realtime      takes the pedals, brakes until speed 0 *)
(*   CAN   (can.c)    High          resumes SIS on a frame 0x111, or, if   *)
(*                                  the frame's byte is 1 and a pedal is   *)
(*                                  pressed, acknowledges and suspends it  *)
(*   Pedal (pedal.c)  AboveNormal   queue -> accel_val, brake_val -> speed *)
(*   SCC   (scc.c)    AboveNormal   writes the speed as well               *)
(*   RX ISR, UART ISR               above every task                       *)
(*   TCP server       Low           fills the pedal queue                  *)
(*                                                                         *)
(* Of SCC only its hold on the speed is here: it leaves any speed it can,  *)
(* whenever no more urgent task runs.  Its law is in Cruise, and when Main *)
(* resumes and suspends it in Modes1.                                      *)
(*                                                                         *)
(* A task's loop is cut where a more urgent task or an interrupt can see   *)
(* the difference.  Printing (which may block on the console mutex) is a   *)
(* place between two steps.  Pressures are small numbers, one unit of      *)
(* pressure changes the speed by one unit; pressures above Light stand for *)
(* those above 50, the threshold of a press.                               *)
(*                                                                         *)
(* Definitions named Mut... are plausible mistakes in the definition that  *)
(* follows; the project substitutes them to see the properties fail.       *)
(***************************************************************************)
EXTENDS Integers, Sequences

CONSTANTS MaxSpeed,    \* MAX_speed, in units of one unit of pressure
          McbBrake,    \* what SIS requests at each iteration
          Light,       \* the largest pressure that is not a press
          HoldTicks,   \* PEDAL_HOLD_DURATION_TICK
          QueueLen,    \* length of pedalQueueHandle (20 in task_create.c)
          Mailboxes,   \* transmit mailboxes of the CAN controller
          Pressures,   \* the pedal messages the Raspberry Pi may send
          Frames,      \* the CAN frames that may arrive: [id, byte]
          CruiseSpeeds, \* the speeds SCC may leave, those out of range as well:
                       \* a time slice between its load and its store, or
                       \* between two of its tests, keeps what Pedal had clamped
          Keys         \* the console keys that may be typed: "q", "w"

Message == [accel : Nat, brake : Nat]
\* The filter lets every identifier in (can.c:29-32); the interrupt looks at two.
Frame   == [id : {"0x111", "0x200"}, byte : {0, 1}]
Pedals  == {"accel", "brake"}

ASSUME Mcb1Assumption ==
  /\ MaxSpeed \in Nat \ {0}
  /\ McbBrake \in Nat \ {0}
  /\ Light \in Nat
  /\ HoldTicks \in Nat \ {0}
  /\ QueueLen \in Nat \ {0}
  /\ Mailboxes \in Nat \ {0}
  /\ Pressures \subseteq Message
  /\ Frames \subseteq Frame
  /\ CruiseSpeeds \subseteq Int
  /\ Keys \subseteq {"q", "w"}

Task == {"sis", "can", "pedal"}
Prio == [t \in Task |-> CASE t = "sis" -> 6 [] t = "can" -> 5 [] OTHER -> 4]
SccPrio == 4
TcpPrio == 1

INSTANCE Rtos

VARIABLES
  st,                    \* scheduling state of each task
  pc,                    \* where each task continues
  pedal_input_enabled,   \* the pedals act on the speed
  raised,                \* history: how often they raised it since SIS took them,
                         \* counted up to TwiceOrMore
  accel_val, brake_val,  \* the change of speed the next Pedal iteration makes
  current_speed,
  pressed,               \* accel_pedal_pressed, brake_pedal_pressed
  hold,                  \* the two hold counters
  queue,                 \* pedalQueueHandle
  data,                  \* Pedal's local message
  change, loaded,        \* Pedal's registers before the store of :61: what it adds
                         \* to the speed, and the speed it adds to
  Id100_Flag,            \* a frame 0x111 was received
  rx,                    \* lastRxData[0]; 0 while no frame 0x111 waits for CAN,
                         \* which alone looks at it
  can_send_flag,         \* SIS asks for the stop frame
  outbox,                \* mailboxes that wait for the bus
  halted                 \* Error_Handler: interrupts off, endless loop

schedVars == <<st, pc>>
gateVars  == <<pedal_input_enabled, raised>>
speedVars == <<accel_val, brake_val, current_speed>>
regs      == <<change, loaded>>
pedalVars == <<pressed, hold, queue, data, regs>>
rxVars    == <<Id100_Flag, rx>>
txVars    == <<can_send_flag, outbox, halted>>
vars == <<schedVars, gateVars, speedVars, pedalVars, rxVars, txVars>>

NoPress == [accel |-> 0, brake |-> 0]

PedalLabels == {"recv", "wait", "gate", "accel", "brake", "flags",
                "load", "minus", "plus", "store", "clamp", "reset"}
CanLabels   == {"poll", "decide", "ack", "enable", "suspend", "clear",
                "request", "stop"}
SisLabels   == {"loop", "sleep"}

Speeds == 0 .. MaxSpeed

Init ==
  /\ st = [sis |-> "suspended", can |-> "ready", pedal |-> "ready"]
  /\ pc = [sis |-> "loop", can |-> "poll", pedal |-> "recv"]
  /\ pedal_input_enabled = TRUE /\ raised = 0
  /\ accel_val = 0 /\ brake_val = 0 /\ current_speed = 0
  /\ pressed = [p \in Pedals |-> FALSE]
  /\ hold = [p \in Pedals |-> 0]
  /\ queue = <<>> /\ data = NoPress /\ change = 0 /\ loaded = 0
  /\ Id100_Flag = FALSE /\ rx = 0
  /\ can_send_flag = FALSE /\ outbox = 0 /\ halted = FALSE

\* Task t executes the instructions at label l, then continues at label m.
At(t, l) == pc[t] = l /\ ~halted /\ Running(st, t)
Goto(t, m) == pc' = [pc EXCEPT ![t] = m]
Step(t, l, m) == At(t, l) /\ Goto(t, m) /\ UNCHANGED st

-----------------------------------------------------------------------------
(* Interrupts and the world outside                                        *)

\* A sleep of task t runs out (osDelay, or the 50 ticks of xQueueReceive).
Wake(t) ==
  /\ ~halted /\ st[t] = "delayed"
  /\ st' = Rouse(st, t)
  /\ UNCHANGED <<pc, gateVars, speedVars, pedalVars, rxVars, txVars>>

\* HAL_CAN_RxFifo0MsgPendingCallback: one buffer for every identifier.
CanRxIsr(f) ==
  /\ ~halted
  /\ Id100_Flag' = (Id100_Flag \/ f.id = "0x111")
  /\ rx' = IF Id100_Flag' THEN f.byte ELSE 0
  /\ UNCHANGED <<schedVars, gateVars, speedVars, pedalVars, txVars>>

\* Keys q and w of the console invert a pressed flag and leave its counter.
KeyIsr(k) ==
  /\ ~halted
  /\ pressed' = [pressed EXCEPT ![IF k = "q" THEN "accel" ELSE "brake"] = ~@]
  /\ UNCHANGED <<schedVars, gateVars, speedVars, hold, queue, data,
                 regs, rxVars, txVars>>

\* tcp_server_thread parses a line "a:..b:.." and posts it without waiting:
\* a full queue drops it, a Pedal task that waits for the queue wakes.
TcpPost(m) ==
  /\ ~halted /\ Calm(st, TcpPrio)
  /\ Len(queue) < QueueLen
  /\ queue' = Append(queue, m)
  /\ st' = IF pc["pedal"] = "wait" THEN Rouse(st, "pedal") ELSE st
  /\ UNCHANGED <<pc, gateVars, speedVars, pressed, hold, data, regs,
                 rxVars, txVars>>

\* The controller puts a frame on the bus and another node takes it.
BusTransmit ==
  /\ outbox > 0
  /\ outbox' = outbox - 1
  /\ UNCHANGED <<schedVars, gateVars, speedVars, pedalVars, rxVars,
                 can_send_flag, halted>>

\* Interrupts off and an endless loop.
Error_Handler == halted' = TRUE

\* HAL_CAN_AddTxMessage: takes a mailbox; with none free CAN1_Send_Test_2
\* calls Error_Handler, which stops the whole controller.
AddTxMessage ==
  IF outbox < Mailboxes THEN outbox' = outbox + 1 /\ UNCHANGED halted
                        ELSE Error_Handler /\ UNCHANGED outbox

-----------------------------------------------------------------------------
(* StartSISTask.  Its loop body is one step: nothing but an interrupt can  *)
(* come between, and no interrupt touches what it reads or writes.  It     *)
(* also clears scc_flag and lka_flag, which are not part of this module.   *)

\* The test of mcb.c:26, and the mutant that asks for nearly standing still.
MutStanding == current_speed <= 1
Standing == current_speed = 0

\* mcb.c:24-25, and the mutant that confuses the two.
MutRequestBrake == accel_val' = McbBrake /\ brake_val' = 0
RequestBrake == brake_val' = McbBrake /\ accel_val' = 0

\* mcb.c:29
GivePedals == pedal_input_enabled' = TRUE /\ raised' = 0

\* mcb.c:21-26, the car still moves: hold the pedals, request the brake.
SisBrake ==
  /\ At("sis", "loop") /\ ~Standing
  /\ pedal_input_enabled' = FALSE /\ UNCHANGED raised
  /\ RequestBrake
  /\ st' = Delay(st, "sis")
  /\ UNCHANGED <<pc, current_speed, pedalVars, rxVars, txVars>>

\* mcb.c:26-31, the car stands: ask for the stop frame, give the pedals
\* back, park.  The request to brake made at :24 stays.
SisFinish ==
  /\ At("sis", "loop") /\ Standing
  /\ RequestBrake
  /\ can_send_flag' = TRUE
  /\ GivePedals
  /\ st' = Suspend(st, "sis")
  /\ Goto("sis", "sleep")
  /\ UNCHANGED <<current_speed, pedalVars, rxVars, outbox, halted>>

\* mcb.c:32, where a task that parked itself continues when it is resumed.
SisSleep ==
  /\ At("sis", "sleep")
  /\ st' = Delay(st, "sis")
  /\ Goto("sis", "loop")
  /\ UNCHANGED <<gateVars, speedVars, pedalVars, rxVars, txVars>>

-----------------------------------------------------------------------------
(* StartCANTask                                                            *)

\* can.c:90-103: look at the flag; the prints come before the decision.
CanPoll ==
  /\ Step("can", "poll", IF Id100_Flag THEN "decide" ELSE "request")
  /\ UNCHANGED <<gateVars, speedVars, pedalVars, rxVars, txVars>>

MutDriverConscious == pressed["accel"] \/ pressed["brake"]
DriverConscious == rx = 1 /\ (pressed["accel"] \/ pressed["brake"])

\* can.c:104, the driver reacts.
CanConscious ==
  /\ DriverConscious
  /\ Step("can", "decide", "ack")
  /\ UNCHANGED <<gateVars, speedVars, pedalVars, rxVars, txVars>>

\* can.c:111-113, the driver does not: start the emergency stop.
CanEngage ==
  /\ At("can", "decide") /\ ~DriverConscious
  /\ st' = Resume(st, "sis")
  /\ Goto("can", "clear")
  /\ UNCHANGED <<gateVars, speedVars, pedalVars, rxVars, txVars>>

\* can.c:105, the frame and 100 ms of busy waiting.
CanAck ==
  /\ At("can", "ack")
  /\ AddTxMessage
  /\ Goto("can", "enable")
  /\ UNCHANGED <<st, gateVars, speedVars, pedalVars, rxVars,
                 can_send_flag>>

\* can.c:108
CanEnable ==
  /\ Step("can", "enable", "suspend")
  /\ GivePedals
  /\ UNCHANGED <<speedVars, pedalVars, rxVars, txVars>>

\* can.c:109
CanSuspend ==
  /\ At("can", "suspend")
  /\ st' = Suspend(st, "sis")
  /\ Goto("can", "clear")
  /\ UNCHANGED <<gateVars, speedVars, pedalVars, rxVars, txVars>>

\* Mutant: it clears the request for the stop frame as well.
MutCanClear ==
  /\ Step("can", "clear", "request")
  /\ Id100_Flag' = FALSE /\ rx' = 0 /\ can_send_flag' = FALSE
  /\ UNCHANGED <<gateVars, speedVars, pedalVars, outbox, halted>>

\* can.c:115: a frame that came since the look at the flag is forgotten too.
CanClear ==
  /\ Step("can", "clear", "request")
  /\ Id100_Flag' = FALSE /\ rx' = 0
  /\ UNCHANGED <<gateVars, speedVars, pedalVars, txVars>>

\* can.c:118, no stop frame is wanted: sleep.
CanIdle ==
  /\ At("can", "request") /\ ~can_send_flag
  /\ st' = Delay(st, "can")
  /\ Goto("can", "poll")
  /\ UNCHANGED <<gateVars, speedVars, pedalVars, rxVars, txVars>>

\* can.c:118, a stop frame is wanted.
CanRequested ==
  /\ can_send_flag
  /\ Step("can", "request", "stop")
  /\ UNCHANGED <<gateVars, speedVars, pedalVars, rxVars, txVars>>

\* can.c:119-123
CanStop ==
  /\ At("can", "stop")
  /\ can_send_flag' = FALSE
  /\ AddTxMessage
  /\ st' = Delay(st, "can")
  /\ Goto("can", "poll")
  /\ UNCHANGED <<gateVars, speedVars, pedalVars, rxVars>>

-----------------------------------------------------------------------------
(* StartPedalTask                                                          *)

\* pedal.c:25, or the return from the wait: take a message if there is one.
PedalReceive ==
  /\ At("pedal", "recv") \/ At("pedal", "wait")
  /\ queue # <<>>
  /\ data' = Head(queue) /\ queue' = Tail(queue)
  /\ Goto("pedal", "gate")
  /\ UNCHANGED <<st, gateVars, speedVars, pressed, hold, regs, rxVars,
                 txVars>>

\* pedal.c:25, the queue is empty: wait up to 50 ticks.
PedalWait ==
  /\ At("pedal", "recv") /\ queue = <<>>
  /\ st' = Delay(st, "pedal")
  /\ Goto("pedal", "wait")
  /\ UNCHANGED <<gateVars, speedVars, pedalVars, rxVars, txVars>>

\* pedal.c:25, the wait ends without a message.
PedalTimeout ==
  /\ queue = <<>>
  /\ Step("pedal", "wait", "flags")
  /\ data' = NoPress
  /\ UNCHANGED <<gateVars, speedVars, pressed, hold, queue, regs,
                 rxVars, txVars>>

\* pedal.c:28, the check; SIS may run between it and the two assignments.
PedalGate ==
  /\ Step("pedal", "gate", IF pedal_input_enabled THEN "accel" ELSE "flags")
  /\ UNCHANGED <<gateVars, speedVars, pedalVars, rxVars, txVars>>

\* pedal.c:29
PedalAccel ==
  /\ Step("pedal", "accel", "brake")
  /\ accel_val' = data.accel
  /\ UNCHANGED <<gateVars, brake_val, current_speed, pedalVars,
                 rxVars, txVars>>

\* pedal.c:30
PedalBrake ==
  /\ Step("pedal", "brake", "flags")
  /\ brake_val' = data.brake
  /\ UNCHANGED <<gateVars, accel_val, current_speed, pedalVars,
                 rxVars, txVars>>

Pressure(p) == IF p = "accel" THEN data.accel ELSE data.brake
Restarted(p) == IF Pressure(p) > Light THEN HoldTicks ELSE hold[p]

\* pedal.c:33-55: a press is held for HoldTicks iterations; the counter is
\* restarted, then decremented, and the flag falls when it reaches 0.  The
\* message is of no more use.
PedalFlags ==
  /\ Step("pedal", "flags", "load")
  /\ hold' = [p \in Pedals |-> IF Restarted(p) > 0 THEN Restarted(p) - 1 ELSE 0]
  /\ pressed' = [p \in Pedals |->
                   /\ pressed[p] \/ Pressure(p) > Light
                   /\ Restarted(p) # 1]
  /\ data' = NoPress
  /\ UNCHANGED <<gateVars, speedVars, queue, regs, rxVars, txVars>>

\* pedal.c:61, the first of its two loads of what SIS writes; SIS may come
\* before the second.  C leaves their order open.
PedalLoadFirst ==
  /\ \/ Step("pedal", "load", "minus") /\ change' = accel_val
     \/ Step("pedal", "load", "plus") /\ change' = -brake_val
  /\ UNCHANGED <<gateVars, speedVars, pressed, hold, queue, data, loaded,
                 rxVars, txVars>>

\* pedal.c:61, the second, and the load of the speed, which SIS does not write.
PedalLoad ==
  /\ \/ Step("pedal", "minus", "store") /\ change' = change - brake_val
     \/ Step("pedal", "plus", "store") /\ change' = change + accel_val
  /\ loaded' = current_speed
  /\ UNCHANGED <<gateVars, speedVars, pressed, hold, queue, data,
                 rxVars, txVars>>

\* The pedals raise the speed while SIS holds them; the count stops at TwiceOrMore.
TwiceOrMore == 2
RisesWhileHeld == ~pedal_input_enabled /\ change > 0 /\ raised < TwiceOrMore

\* pedal.c:61, the store: until the next step the speed may be out of range, and
\* what SCC has stored since the load is lost.
PedalStore ==
  /\ Step("pedal", "store", "clamp")
  /\ current_speed' = loaded + change /\ change' = 0 /\ loaded' = 0
  /\ raised' = IF RisesWhileHeld THEN raised + 1 ELSE raised
  /\ UNCHANGED <<pedal_input_enabled, accel_val, brake_val, pressed, hold,
                 queue, data, rxVars, txVars>>

\* Mutant: no lower bound.
MutPedalClamp ==
  /\ Step("pedal", "clamp", "reset")
  /\ current_speed' = IF current_speed > MaxSpeed THEN MaxSpeed ELSE current_speed
  /\ UNCHANGED <<gateVars, accel_val, brake_val, pedalVars, rxVars,
                 txVars>>

\* pedal.c:62-63
PedalClamp ==
  /\ Step("pedal", "clamp", "reset")
  /\ current_speed' = IF current_speed > MaxSpeed THEN MaxSpeed
                      ELSE IF current_speed < 0 THEN 0 ELSE current_speed
  /\ UNCHANGED <<gateVars, accel_val, brake_val, pedalVars, rxVars,
                 txVars>>

\* Mutant: the acceleration is not reset.
MutPedalReset ==
  /\ At("pedal", "reset")
  /\ brake_val' = 0
  /\ st' = Delay(st, "pedal")
  /\ Goto("pedal", "recv")
  /\ UNCHANGED <<gateVars, accel_val, current_speed, pedalVars,
                 rxVars, txVars>>

\* pedal.c:67-69: a request SIS made after the load of :61 is lost here.
PedalReset ==
  /\ At("pedal", "reset")
  /\ accel_val' = 0 /\ brake_val' = 0
  /\ st' = Delay(st, "pedal")
  /\ Goto("pedal", "recv")
  /\ UNCHANGED <<gateVars, current_speed, pedalVars, rxVars, txVars>>

-----------------------------------------------------------------------------
(* StartSCCTask                                                            *)

\* scc.c:71-79.  SCC has Pedal's priority, so that its stores may fall between
\* any two steps of an iteration of Pedal.
SccDrives ==
  /\ ~halted /\ Calm(st, SccPrio)
  /\ current_speed' \in CruiseSpeeds
  /\ UNCHANGED <<schedVars, gateVars, accel_val, brake_val, pedalVars, rxVars,
                 txVars>>

-----------------------------------------------------------------------------
SisStep == SisBrake \/ SisFinish \/ SisSleep

CanStep ==
  \/ CanPoll \/ CanConscious \/ CanEngage \/ CanAck \/ CanEnable \/ CanSuspend
  \/ CanClear \/ CanIdle \/ CanRequested \/ CanStop

PedalStep ==
  \/ PedalReceive \/ PedalWait \/ PedalTimeout \/ PedalGate \/ PedalAccel
  \/ PedalBrake \/ PedalFlags \/ PedalLoadFirst \/ PedalLoad \/ PedalStore
  \/ PedalClamp \/ PedalReset

World ==
  \/ \E f \in Frames : CanRxIsr(f)
  \/ \E k \in Keys : KeyIsr(k)
  \/ \E m \in Pressures : TcpPost(m)
  \/ BusTransmit

Next ==
  \/ SisStep \/ CanStep \/ PedalStep \/ SccDrives \/ World
  \/ \E t \in Task : Wake(t)

\* Every task sleeps or waits in each iteration, so a task that is ready again
\* and again gets the processor again and again.  SIS sleeps 50 ms and Pedal
\* 100 ms (mcb.c:32, pedal.c:69): again and again SIS wakes while Pedal sleeps,
\* and the brake it requests then is not lost to pedal.c:67-68.
Fairness ==
  /\ \A t \in Task : WF_vars(Wake(t))
  /\ WF_vars(SisStep) /\ SF_vars(CanStep) /\ SF_vars(PedalStep)
  /\ SF_vars(Wake("sis") /\ st["pedal"] = "delayed" /\ pc["pedal"] = "recv")

Spec == Init /\ [][Next]_vars
FairSpec == Spec /\ Fairness

-----------------------------------------------------------------------------
\* The type of every variable; but between the store and the clamp of Pedal the
\* speed is in range, or one that SCC may leave (pedal.c:61-63, scc.c:71-79).
TypeOK ==
  /\ st \in [Task -> TaskState]
  /\ pc \in [Task -> SisLabels \cup CanLabels \cup PedalLabels]
  /\ pc["sis"] \in SisLabels /\ pc["can"] \in CanLabels
  /\ pc["pedal"] \in PedalLabels
  /\ pedal_input_enabled \in BOOLEAN /\ raised \in 0 .. TwiceOrMore
  /\ accel_val \in Nat /\ brake_val \in Nat
  /\ current_speed \in Int
  /\ pc["pedal"] # "clamp" => current_speed \in Speeds \cup CruiseSpeeds
  /\ pressed \in [Pedals -> BOOLEAN]
  /\ hold \in [Pedals -> 0 .. HoldTicks]
  /\ queue \in Seq(Pressures) /\ Len(queue) <= QueueLen
  /\ data \in Pressures \cup {NoPress}
  /\ change \in Int /\ loaded \in Int
  /\ Id100_Flag \in BOOLEAN
  /\ rx \in {0, 1}
  /\ can_send_flag \in BOOLEAN
  /\ outbox \in 0 .. Mailboxes
  /\ halted \in BOOLEAN

\* A parked emergency stop has given the pedals back (mcb.c:29-30); so it is when
\* no node asks for the driver.
ParkedGivesPedals == st["sis"] = "suspended" => pedal_input_enabled

\* Once SIS holds the pedals, they raise the speed at most once more: by the Pedal
\* iteration that had passed its check of pedal_input_enabled (pedal.c:28)
\* before SIS took them (mcb.c:21).  Cruise control, of which SIS clears the flag
\* only, is not counted: it may raise the speed until Main suspends it.
RaisedAtMostOnce == raised <= 1

\* SIS and CAN keep the promise of the abstract emergency stop, which may be
\* abandoned only if some node asks for the driver.
Stop == INSTANCE EmergencyStop WITH
          Reacts  <- \E f \in Frames : f.byte = 1,
          braking <- st["sis"] # "suspended",
          held    <- ~pedal_input_enabled,
          moving  <- current_speed # 0
KeepsStopPromise == Stop!Spec

\* When CAN has stopped the emergency stop because the driver reacts, the
\* pedals act again (can.c:107-109).
StopGivesPedals == [][CanSuspend => pedal_input_enabled]_vars

\* Every emergency stop ends: the car stands and SIS parks itself, or the
\* driver reacts and CAN suspends it, unless Error_Handler stops everything.  The
\* premise is that cruise control is suspended in the end: SIS clears its flag in
\* every iteration (mcb.c:23), but Main may miss that (main.c:562), and SCC may
\* then keep the speed up for good.
EngagementEnds ==
  <>[][~SccDrives]_vars =>
    (st["sis"] # "suspended" ~> st["sis"] = "suspended" \/ halted)

\* A shock frame CAN is not busy with another one for is not lost while the car
\* moves: it finds the emergency stop running, or starts it, unless a frame that
\* asks for the driver takes its place in the buffer (can.c:68-72, 90-115).  One
\* that comes while CAN acknowledges the driver may be lost (can.c:105-115).
CrashEngages ==
  Id100_Flag /\ rx = 0 /\ pc["can"] \in {"poll", "decide"} ~>
    st["sis"] # "suspended" \/ current_speed = 0 \/ rx = 1 \/ halted

\* The stop frame SIS asks for gets a mailbox (mcb.c:28, can.c:118-121).
StopFrameSent == can_send_flag ~> (~can_send_flag /\ outbox > 0) \/ halted
=============================================================================
