-------------------------------- MODULE Cruise --------------------------------
(***************************************************************************)
(* Cruise control and the pedals share current_speed.  Both tasks, SCC     *)
(* (scc.c) and PEDAL (pedal.c), have one priority: a time slice may end in *)
(* the middle of either one's current_speed += ..., and one update is      *)
(* lost.  Main, below both, turns cruise control on and off by scc_flag.   *)
(* The two controllers agree on all of this.  What a pedal does while the  *)
(* emergency stop has it is in Mcb1 and Modes2, Main's other work in       *)
(* Modes1 and Modes2.                                                      *)
(*                                                                         *)
(* Speeds and distances are small numbers: MAX_speed stands for the 200    *)
(* km/h, Low for the 30 of main.c, Power for power_accel / 10 and          *)
(* power_brake / 10.  Divisions, exact but for a float's precision in the  *)
(* code, round down.                                                       *)
(*                                                                         *)
(* Definitions named Mut... are plausible mistakes in the definition that  *)
(* follows; the project substitutes them to see the properties fail.       *)
(***************************************************************************)
EXTENDS Integers

CONSTANTS MAX_speed, Low,
          Power,        \* the most one iteration changes the speed by
          BRAKE_DISTANCE,
          Safes,        \* the values SAFE_DISTANCE may get, by speed and step
          Dists,        \* the distances the sensor publishes
          Presses,      \* how far a pedal may be pressed, 0 .. Power
          MaxSlices     \* bound: time slices that end within an iteration

ASSUME CruiseAssumption ==
  /\ {MAX_speed, Low, Power, BRAKE_DISTANCE} \subseteq Nat \ {0} /\ Low <= MAX_speed
  /\ Safes \subseteq Nat /\ Safes # {} /\ Dists \subseteq Nat /\ Dists # {}
  /\ Presses \subseteq 0 .. Power /\ 0 \in Presses /\ MaxSlices \in Nat

Task == {"scc", "pedal"}
HOLD == 2    \* PEDAL_HOLD_DURATION_TICK

VARIABLES
  st, pc,               \* of scc and pedal; Main's pc
  turn, slices,         \* which of the two the processor is with
  current_speed, shared_distance,
  accel_val, brake_val, \* what the pedals add
  hold,                 \* accel_pedal_hold_counter, brake_...
  scc_flag, prev_scc_flag,
  TARGET_SPEED, SAFE_DISTANCE,
  reg, dist,            \* what a += has read; the distance of this iteration;
                        \* both 0 once they are of no more use
  missed                \* history: scc_flag was written while Main handled it

schedVars == <<st, turn, slices>>
pedalVars == <<accel_val, brake_val, hold>>
flagVars == <<scc_flag, missed>>
mainVars == <<prev_scc_flag, TARGET_SPEED, SAFE_DISTANCE>>
vars == <<schedVars, pc, current_speed, shared_distance, pedalVars, flagVars, mainVars,
          reg, dist>>

Init ==
  /\ st = [scc |-> "suspended", pedal |-> "ready"]
  /\ pc = [scc |-> "check", pedal |-> "sample", main |-> "look"]
  /\ turn = "none" /\ slices = 0
  /\ current_speed = 0 /\ shared_distance = 0
  /\ accel_val = 0 /\ brake_val = 0 /\ hold = [accel |-> 0, brake |-> 0]
  /\ scc_flag = 0 /\ prev_scc_flag = 0
  /\ TARGET_SPEED = 0 /\ SAFE_DISTANCE = 0
  /\ reg = [scc |-> 0, pedal |-> 0] /\ dist = 0 /\ missed = FALSE

-----------------------------------------------------------------------------
(* Scheduling                                                              *)

\* A step of t from l to m: t goes on, begins, or gets a time slice.
Step(t, l, m) ==
  /\ st[t] = "ready" /\ pc[t] = l /\ pc' = [pc EXCEPT ![t] = m]
  /\ \/ turn \in {t, "none"} /\ UNCHANGED slices
     \/ turn \notin {t, "none"} /\ slices < MaxSlices /\ slices' = slices + 1

Goes(t, l, m) == Step(t, l, m) /\ turn' = t /\ UNCHANGED st
Sleeps(t, l, m) == Step(t, l, m) /\ turn' = "none" /\ st' = [st EXCEPT ![t] = "delayed"]

Wake(t) ==
  /\ st[t] = "delayed"
  /\ st' = [st EXCEPT ![t] = "ready"]
  /\ UNCHANGED <<turn, slices, pc, current_speed, shared_distance, pedalVars, flagVars,
                 mainVars, reg, dist>>

\* The flag is written, and it is noted if Main is handling a change of it.
FlagSet(f) ==
  /\ scc_flag' = f
  /\ missed' = (missed \/ (f # scc_flag /\ pc["main"] # "look"))

\* What is less urgent than both runs while neither is ready.
Idle == \A t \in Task : st[t] # "ready"

-----------------------------------------------------------------------------
(* PEDAL_Task, pedal.c:53-108 of phase 2                                   *)

\* A press counts for this iteration and makes the pedal pressed until the next
\* one, pedal.c:67-92.
Held(h, a) == IF a > 0 THEN HOLD - 1 ELSE IF h > 0 THEN h - 1 ELSE 0

PedalSamples ==
  /\ Goes("pedal", "sample", "load")
  /\ \E a, b \in Presses :
       /\ accel_val' = a /\ brake_val' = b
       /\ hold' = [accel |-> Held(hold.accel, a), brake |-> Held(hold.brake, b)]
  /\ UNCHANGED <<current_speed, shared_distance, flagVars, mainVars, reg, dist>>

\* The two halves of current_speed += ..., and of those of scc.
Loads(t, l, m) ==
  /\ Goes(t, l, m)
  /\ reg' = [reg EXCEPT ![t] = current_speed]
  /\ UNCHANGED <<current_speed, shared_distance, pedalVars, flagVars, mainVars, dist>>
Stores(t, l, m, s) ==
  /\ Goes(t, l, m)
  /\ current_speed' = s
  /\ reg' = [reg EXCEPT ![t] = 0]
  /\ UNCHANGED <<shared_distance, pedalVars, flagVars, mainVars, dist>>

\* pedal.c:96-97; the mutant clamps the speed at the top only.
MutClamped(s) == IF s > MAX_speed THEN MAX_speed ELSE s
Clamped(s) == IF s > MAX_speed THEN MAX_speed ELSE IF s < 0 THEN 0 ELSE s

PedalEnds ==
  /\ Sleeps("pedal", "clamp", "sample")
  /\ current_speed' = Clamped(current_speed)
  /\ accel_val' = 0 /\ brake_val' = 0
  /\ UNCHANGED <<shared_distance, hold, flagVars, mainVars, reg, dist>>

PedalStep ==
  \/ PedalSamples
  \/ Loads("pedal", "load", "store")
  \/ Stores("pedal", "store", "clamp", reg.pedal + accel_val - brake_val)
  \/ PedalEnds

-----------------------------------------------------------------------------
(* SCC_Task, scc.c:23-64 of phase 2                                        *)

\* scc.c:31-39: the ratio of the distance between the two limits, as a share of n.
Share(n, d) ==
  CASE d <= BRAKE_DISTANCE -> 0
    [] BRAKE_DISTANCE < d /\ d < SAFE_DISTANCE ->
         (n * (d - BRAKE_DISTANCE)) \div (SAFE_DISTANCE - BRAKE_DISTANCE)
    [] OTHER -> n
target_speed == Share(TARGET_SPEED, dist)

\* scc.c:41-42, and the mutants that swap the two shares.
MutAccel == Power - Share(Power, dist)
accel_step == Share(Power, dist)
MutDecel == Share(Power, dist)
decel_step == Power - Share(Power, dist)

\* scc.c:25, and the mutant that wants both pedals.
MutPressed == hold.accel > 0 /\ hold.brake > 0
Pressed == hold.accel > 0 \/ hold.brake > 0

\* scc.c:25-27
SccChecks ==
  /\ Goes("scc", "check", "read")
  /\ FlagSet(IF Pressed THEN 0 ELSE scc_flag)
  /\ UNCHANGED <<current_speed, shared_distance, pedalVars, mainVars, reg, dist>>

SccReads ==
  /\ Goes("scc", "read", "branch")
  /\ dist' = shared_distance
  /\ UNCHANGED <<current_speed, shared_distance, pedalVars, flagVars, mainVars, reg>>

\* scc.c:44 and 48
SccBranches ==
  /\ \/ current_speed < target_speed /\ Goes("scc", "branch", "upLoad")
     \/ current_speed > target_speed /\ Goes("scc", "branch", "downLoad")
     \/ current_speed = target_speed /\ Goes("scc", "branch", "print")
  /\ UNCHANGED <<current_speed, shared_distance, pedalVars, flagVars, mainVars, reg, dist>>

\* scc.c:46-47 and 50-51.
Limited(l) ==
  IF \/ l = "upClamp" /\ current_speed > target_speed
     \/ l = "downClamp" /\ current_speed < target_speed
  THEN target_speed ELSE current_speed

SccSleeps ==
  /\ Sleeps("scc", "print", "check")
  /\ dist' = 0
  /\ UNCHANGED <<current_speed, shared_distance, pedalVars, flagVars, mainVars, reg>>

SccStep ==
  \/ SccChecks \/ SccReads \/ SccBranches
  \/ Loads("scc", "upLoad", "upStore") \/ Loads("scc", "downLoad", "downStore")
  \/ Stores("scc", "upStore", "upClamp", reg.scc + accel_step)
  \/ Stores("scc", "downStore", "downClamp", reg.scc - decel_step)
  \/ \E l \in {"upClamp", "downClamp"} : Stores("scc", l, "print", Limited(l))
  \/ SccSleeps

-----------------------------------------------------------------------------
(* Main, main.c:179-206 of phase 2                                         *)

MainAt(l) == Idle /\ pc["main"] = l
MainGoto(m) == pc' = [pc EXCEPT !.main = m]
Resumed == [st EXCEPT !.scc = IF @ = "suspended" THEN "ready" ELSE @]

\* main.c:181-185: the flag has changed, on at a speed that is or is not high
\* enough, or off, and then the task is suspended, :203.
MainLooks ==
  /\ MainAt("look") /\ scc_flag # prev_scc_flag
  /\ \/ /\ scc_flag = 1 /\ UNCHANGED st
        /\ MainGoto(IF current_speed >= Low THEN "fast" ELSE "slow")
     \/ /\ scc_flag = 0 /\ st' = [st EXCEPT !.scc = "suspended"]
        /\ MainGoto("seen")
  /\ missed' = FALSE
  /\ UNCHANGED <<turn, slices, current_speed, shared_distance, pedalVars, scc_flag, mainVars,
                 reg, dist>>

\* main.c:186-191 and 193-198: from here on the resumed, more urgent task runs.
MainTurnsOn ==
  /\ MainAt("fast") \/ MainAt("slow")
  /\ MainGoto("seen")
  /\ TARGET_SPEED' = IF pc["main"] = "fast" THEN current_speed ELSE Low
  /\ SAFE_DISTANCE' \in Safes
  /\ st' = Resumed
  /\ UNCHANGED <<turn, slices, current_speed, shared_distance, pedalVars, flagVars,
                 prev_scc_flag, reg, dist>>

\* main.c:206, the flag is read again.
MainSees ==
  /\ MainAt("seen") /\ MainGoto("look")
  /\ prev_scc_flag' = scc_flag
  /\ UNCHANGED <<schedVars, current_speed, shared_distance, pedalVars, flagVars,
                 TARGET_SPEED, SAFE_DISTANCE, reg, dist>>

MainStep == MainLooks \/ MainTurnsOn \/ MainSees

-----------------------------------------------------------------------------
(* The driver's button and the sensor                                      *)

Button ==
  /\ FlagSet(1 - scc_flag)
  /\ UNCHANGED <<schedVars, pc, current_speed, shared_distance, pedalVars, mainVars, reg,
                 dist>>

Sensed ==
  /\ shared_distance' \in Dists
  /\ UNCHANGED <<schedVars, pc, current_speed, pedalVars, flagVars, mainVars, reg, dist>>

-----------------------------------------------------------------------------
Next ==
  \/ \E t \in Task : Wake(t)
  \/ PedalStep \/ SccStep \/ MainStep \/ Button \/ Sensed

Spec == Init /\ [][Next]_vars

\* Pedal and cruise control run on: who waits for the other's iteration to end
\* gets its turn, and so does Main when both sleep again and again.
FairSpec ==
  /\ Spec
  /\ SF_vars(PedalStep) /\ SF_vars(SccStep) /\ SF_vars(MainStep)
  /\ WF_vars(Wake("pedal")) /\ WF_vars(Wake("scc"))

-----------------------------------------------------------------------------
\* The type of every variable.  Lost updates may carry the speed, and with it the
\* target, anywhere.
SccLabels == {"check", "read", "branch", "upLoad", "upStore", "upClamp",
              "downLoad", "downStore", "downClamp", "print"}
PedalLabels == {"sample", "load", "store", "clamp"}
MainLabels == {"look", "fast", "slow", "seen"}
TypeOK ==
  /\ st \in [Task -> {"ready", "delayed", "suspended"}] /\ turn \in Task \cup {"none"}
  /\ slices \in 0 .. MaxSlices
  /\ pc \in [scc : SccLabels, pedal : PedalLabels, main : MainLabels]
  /\ current_speed \in Int /\ shared_distance \in Nat
  /\ accel_val \in 0 .. Power /\ brake_val \in 0 .. Power
  /\ hold \in [accel : 0 .. HOLD - 1, brake : 0 .. HOLD - 1]
  /\ scc_flag \in {0, 1} /\ prev_scc_flag \in {0, 1}
  /\ TARGET_SPEED \in Int /\ SAFE_DISTANCE \in Nat
  /\ missed \in BOOLEAN
  /\ reg \in [scc : Int, pedal : Int] /\ dist \in Nat

\* The less urgent tasks (Main, the motor, the servers) see a speed from 0 to
\* MAX_speed (pedal.c:95-97, scc.c:44-52), as long as no time slice has ended in
\* an update.
SeenInRange == Idle /\ slices = 0 => current_speed \in 0 .. MAX_speed

\* Cruise control is on, and Main knows it.
On == st["scc"] # "suspended" /\ scc_flag = 1 /\ prev_scc_flag = 1
NoPedal == hold.accel = 0 /\ hold.brake = 0

\* The distances a car ahead has to be followed at.
Behind == {d \in Dists : \E s \in Safes : d < s}

\* Behind a car that stays at distance d the speed becomes the share of the
\* target that d is, and exactly 0, which stops the motor (speed.c:75), when d is
\* within BRAKE_DISTANCE (scc.c:33-52), however many updates were lost before.
KeepsDistance ==
  \A d \in Behind :
    <>[](On /\ NoPedal /\ shared_distance = d /\ (d <= BRAKE_DISTANCE \/ d < SAFE_DISTANCE))
      => <>[](current_speed = Share(TARGET_SPEED, d))

\* On a free road the speed reaches the target.
ReachesTarget ==
  <>[](On /\ NoPedal /\ shared_distance > BRAKE_DISTANCE /\ shared_distance >= SAFE_DISTANCE)
    => <>[](current_speed >= TARGET_SPEED)

\* A pedal that stays pressed turns cruise control off (scc.c:25-27, main.c:203):
\* when the driver has pressed the button for the last time, and the two tasks leave
\* Main time, the task is suspended in the end; unless its flag went down, or up,
\* while Main was handling it (main.c:183-206), which leaves the task running.
\* A single press may end before cruise control looks (pedal.c:71-90).
HeldPedalEndsCruise ==
  \A p \in {"accel", "brake"} :
    <>[](hold[p] > 0) /\ <>[][~Button]_vars /\ []<>Idle =>
      <>[](st["scc"] = "suspended") \/ <>[]missed
=============================================================================
