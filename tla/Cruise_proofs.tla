--------------------------- MODULE Cruise_proofs ---------------------------
(***************************************************************************)
(* The speed the less urgent tasks see is in range, for every speed, step, *)
(* distance and press, as long as no time slice has ended in an update.    *)
(***************************************************************************)
EXTENDS Cruise, TLAPS

\* Cruise control's quotient, scc.c:36-37: a proper share of n is at most n.
LEMMA ProperShare ==
  ASSUME NEW n \in Nat, NEW x \in Nat, NEW y \in Nat, x < y
  PROVE  (n * x) \div y \in 0 .. n
<1> DEFINE q == (n * x) \div y
<1>1. n * x <= n * y OBVIOUS
<1>2. n * x >= 0 OBVIOUS
<1>3. q \in Int /\ y * q <= n * x /\ n * x < y * q + y OBVIOUS
<1>4. q >= 0 BY <1>2, <1>3, SMTT(30)
<1>5. q <= n
  <2>1. SUFFICES ASSUME q >= n + 1 PROVE FALSE BY <1>3
  <2>2. y * q >= y * (n + 1) BY <1>3, <2>1
  <2>3. y * (n + 1) = n * y + y OBVIOUS
  <2>4. QED BY <1>1, <1>3, <2>2, <2>3
<1>6. QED BY <1>3, <1>4, <1>5

LEMMA ShareRange ==
  ASSUME NEW n \in Nat, NEW d \in Nat, SAFE_DISTANCE \in Nat
  PROVE  Share(n, d) \in 0 .. n
<1>0. BRAKE_DISTANCE \in Nat BY CruiseAssumption
<1>1. CASE BRAKE_DISTANCE < d /\ d < SAFE_DISTANCE
  <2> DEFINE x == d - BRAKE_DISTANCE
             y == SAFE_DISTANCE - BRAKE_DISTANCE
  <2>1. x \in Nat /\ y \in Nat /\ x < y BY <1>0, <1>1
  <2>2. (n * x) \div y \in 0 .. n BY <2>1, ProperShare
  <2>3. ~(d <= BRAKE_DISTANCE) BY <1>0, <1>1
  <2>4. Share(n, d) = (n * x) \div y BY <1>1, <2>3 DEF Share
  <2>5. QED BY <2>2, <2>4
<1>2. CASE d <= BRAKE_DISTANCE
  BY <1>0, <1>2 DEF Share
<1>3. CASE ~(d <= BRAKE_DISTANCE) /\ ~(BRAKE_DISTANCE < d /\ d < SAFE_DISTANCE)
  BY <1>3 DEF Share
<1>4. QED BY <1>1, <1>2, <1>3

-----------------------------------------------------------------------------
(* Types, which also hold after updates were lost                          *)

Types ==
  /\ st \in [Task -> {"ready", "delayed", "suspended"}] /\ turn \in Task \cup {"none"}
  /\ slices \in Nat
  /\ pc \in [scc : SccLabels, pedal : PedalLabels, main : MainLabels]
  /\ current_speed \in Int /\ shared_distance \in Nat
  /\ accel_val \in 0 .. Power /\ brake_val \in 0 .. Power
  /\ TARGET_SPEED \in Int /\ SAFE_DISTANCE \in Nat
  /\ reg \in [scc : Int, pedal : Int] /\ dist \in Nat

LEMMA Constants ==
  /\ MAX_speed \in Nat /\ Low \in Nat /\ Power \in Nat /\ BRAKE_DISTANCE \in Nat
  /\ Low <= MAX_speed /\ Safes \subseteq Nat /\ Dists \subseteq Nat
  /\ Presses \subseteq 0 .. Power /\ MaxSlices \in Nat
  BY CruiseAssumption

LEMMA InitTypes == Init => Types
  BY Constants DEF Init, Types, Task, SccLabels, PedalLabels, MainLabels

\* The quotients are integers whatever the target has become.
LEMMA StepsAreInt ==
  ASSUME Types
  PROVE  /\ accel_step \in 0 .. Power /\ decel_step \in 0 .. Power /\ target_speed \in Int
         /\ TARGET_SPEED \in Nat => target_speed \in 0 .. TARGET_SPEED
<1>1. dist \in Nat /\ SAFE_DISTANCE \in Nat /\ TARGET_SPEED \in Int BY DEF Types
<1>2. Share(Power, dist) \in 0 .. Power BY <1>1, Constants, ShareRange
<1>3. accel_step \in 0 .. Power /\ decel_step \in 0 .. Power
  BY <1>2, Constants DEF accel_step, decel_step
<1>4. TARGET_SPEED \in Nat => target_speed \in 0 .. TARGET_SPEED
  BY <1>1, ShareRange DEF target_speed
<1>5. target_speed \in Int
  <2>1. CASE BRAKE_DISTANCE < dist /\ dist < SAFE_DISTANCE
    <3>1. SAFE_DISTANCE - BRAKE_DISTANCE > 0 /\ ~(dist <= BRAKE_DISTANCE)
      BY <1>1, <2>1, Constants
    <3>2. target_speed =
            (TARGET_SPEED * (dist - BRAKE_DISTANCE)) \div (SAFE_DISTANCE - BRAKE_DISTANCE)
      BY <2>1, <3>1 DEF target_speed, Share
    <3>3. QED BY <1>1, <3>1, <3>2, Constants
  <2>2. CASE ~(BRAKE_DISTANCE < dist /\ dist < SAFE_DISTANCE)
    BY <1>1, <2>2 DEF target_speed, Share
  <2>3. QED BY <2>1, <2>2
<1>6. QED BY <1>3, <1>4, <1>5

LEMMA TypesStep == Types /\ [Next]_vars => Types'
<1> SUFFICES ASSUME Types, [Next]_vars PROVE Types'
  OBVIOUS
<1> USE Constants DEF Types, Task, SccLabels, PedalLabels, MainLabels, schedVars, pedalVars,
                      mainVars, Step, Goes, Sleeps, Loads, Stores
<1>1. CASE PedalStep
  <2>1. CASE PedalSamples
    <3>1. accel_val' \in 0 .. Power /\ brake_val' \in 0 .. Power
      BY <2>1 DEF PedalSamples
    <3>2. Goes("pedal", "sample", "load")
          /\ UNCHANGED <<current_speed, shared_distance, mainVars, reg, dist>>
      BY <2>1 DEF PedalSamples
    <3>3. st' = st /\ turn' \in Task /\ slices' \in Nat BY <3>2
    <3>4. pc' \in [scc : SccLabels, pedal : PedalLabels, main : MainLabels]
      BY <3>2
    <3>5. QED BY <3>1, <3>2, <3>3, <3>4
  <2>2. CASE Loads("pedal", "load", "store") BY <2>2
  <2>3. CASE Stores("pedal", "store", "clamp", reg.pedal + accel_val - brake_val) BY <2>3
  <2>4. CASE PedalEnds BY <2>4 DEF PedalEnds, Clamped
  <2>5. QED BY <1>1, <2>1, <2>2, <2>3, <2>4 DEF PedalStep
<1>2. CASE SccStep
  <2>1. CASE SccChecks BY <2>1 DEF SccChecks
  <2>2. CASE SccReads BY <2>2 DEF SccReads
  <2>3. CASE SccBranches BY <2>3 DEF SccBranches
  <2>4. CASE Loads("scc", "upLoad", "upStore") \/ Loads("scc", "downLoad", "downStore")
    BY <2>4
  <2>5. CASE Stores("scc", "upStore", "upClamp", reg.scc + accel_step)
    <3>1. reg.scc + accel_step \in Int BY StepsAreInt
    <3>2. QED BY <2>5, <3>1
  <2>6. CASE Stores("scc", "downStore", "downClamp", reg.scc - decel_step)
    <3>1. reg.scc - decel_step \in Int BY StepsAreInt
    <3>2. QED BY <2>6, <3>1
  <2>7. ASSUME NEW l \in {"upClamp", "downClamp"}, Stores("scc", l, "print", Limited(l))
        PROVE  Types'
    <3>1. Limited(l) \in Int BY StepsAreInt DEF Limited
    <3>2. QED BY <2>7, <3>1
  <2>8. CASE SccSleeps BY <2>8 DEF SccSleeps
  <2>9. QED
    BY <1>2, <2>1, <2>2, <2>3, <2>4, <2>5, <2>6, <2>7, <2>8 DEF SccStep
<1>3. CASE MainLooks \/ MainSees
  BY <1>3 DEF MainLooks, MainSees, MainAt, MainGoto
<1>4. CASE MainTurnsOn BY <1>4 DEF MainTurnsOn, MainAt, MainGoto, Resumed
<1>5. CASE Button BY <1>5 DEF Button
<1>6. CASE Sensed BY <1>6 DEF Sensed
<1>7. ASSUME NEW t \in Task, Wake(t) PROVE Types' BY <1>7 DEF Wake
<1>8. CASE UNCHANGED vars BY <1>8 DEF vars
<1>9. QED
  BY <1>1, <1>2, <1>3, <1>4, <1>5, <1>6, <1>7, <1>8 DEF Next, MainStep

\* The rest of the types.
Bounds ==
  /\ slices \in 0 .. MaxSlices
  /\ hold \in [accel : 0 .. HOLD - 1, brake : 0 .. HOLD - 1]
  /\ scc_flag \in {0, 1} /\ prev_scc_flag \in {0, 1} /\ missed \in BOOLEAN

LEMMA BoundsStep == Types /\ Bounds /\ [Next]_vars => Bounds'
<1> SUFFICES ASSUME Types, Bounds, [Next]_vars PROVE Bounds'
  OBVIOUS
<1> USE Constants DEF Bounds, schedVars, pedalVars, flagVars, mainVars, Step, Goes,
                      Sleeps, Loads, Stores, FlagSet
<1>1. CASE PedalSamples
  <2>1. PICK a, b \in Presses :
          hold' = [accel |-> Held(hold.accel, a), brake |-> Held(hold.brake, b)]
    BY <1>1 DEF PedalSamples
  <2>2. Held(hold.accel, a) \in 0 .. HOLD - 1 /\ Held(hold.brake, b) \in 0 .. HOLD - 1
    BY DEF Held, HOLD
  <2>3. slices' \in 0 .. MaxSlices /\ UNCHANGED <<flagVars, mainVars>>
    BY <1>1 DEF PedalSamples, Types
  <2>4. QED BY <2>1, <2>2, <2>3
<1>2. CASE PedalStep /\ ~PedalSamples
  <2>1. slices' \in 0 .. MaxSlices /\ UNCHANGED <<hold, flagVars, mainVars>>
    BY <1>2 DEF PedalStep, PedalEnds, Types
  <2>2. QED BY <2>1
<1>3. CASE SccStep
  <2>1. slices' \in 0 .. MaxSlices /\ UNCHANGED <<hold, mainVars>> /\ scc_flag' \in {0, 1}
    BY <1>3 DEF SccStep, SccChecks, SccReads, SccBranches, SccSleeps, Types
  <2>2. missed' = missed \/ missed' = (missed \/ (scc_flag' # scc_flag /\ pc["main"] # "look"))
    BY <1>3 DEF SccStep, SccChecks, SccReads, SccBranches, SccSleeps
  <2>3. missed' \in BOOLEAN BY <2>2
  <2>4. QED BY <2>1, <2>3
<1>4. CASE MainStep BY <1>4 DEF MainStep, MainLooks, MainTurnsOn, MainSees
<1>5. CASE Button BY <1>5 DEF Button
<1>6. CASE Sensed BY <1>6 DEF Sensed
<1>7. ASSUME NEW t \in Task, Wake(t) PROVE Bounds' BY <1>7 DEF Wake
<1>8. CASE UNCHANGED vars BY <1>8 DEF vars
<1>9. QED
  BY <1>1, <1>2, <1>3, <1>4, <1>5, <1>6, <1>7, <1>8 DEF Next

\* The variables of cruise control and the pedals keep their types, whatever updates
\* of the speed are lost.
THEOREM TypeCorrect == Spec => []TypeOK
<1>1. Init => Bounds
  <2> SUFFICES ASSUME Init PROVE Bounds OBVIOUS
  <2>1. missed \in BOOLEAN BY DEF Init
  <2>2. QED BY <2>1, Constants DEF Init, Bounds, HOLD
<1>2. Types /\ Bounds => TypeOK BY DEF Types, Bounds, TypeOK
<1>3. QED BY <1>1, <1>2, InitTypes, TypesStep, BoundsStep, PTL DEF Spec

-----------------------------------------------------------------------------
(* The range                                                               *)

AtStart(t) == IF t = "scc" THEN pc.scc = "check" ELSE pc.pedal = "sample"

\* Who is within an iteration is ready and has the processor.
OneAtATime == \A t \in Task : ~AtStart(t) => st[t] = "ready" /\ turn = t

\* Where the speed is in range, and what a register or a clamp relies on where it is
\* not yet.
InRange ==
  /\ TARGET_SPEED \in 0 .. MAX_speed
  /\ pc.pedal # "clamp" /\ pc.scc \notin {"upClamp", "downClamp"} =>
       current_speed \in 0 .. MAX_speed
  /\ pc.scc \in {"upStore", "downStore"} => reg.scc = current_speed
  /\ pc.scc = "upClamp" => current_speed >= 0
  /\ pc.scc = "downClamp" => current_speed <= MAX_speed

RangeInv == slices = 0 => OneAtATime /\ InRange

LEMMA InitRange == Init => RangeInv
  BY Constants DEF Init, RangeInv, OneAtATime, InRange, AtStart, Task

\* A slice that has ended is not forgotten.
LEMMA SlicesGrow ==
  ASSUME Types, [Next]_vars, slices' = 0
  PROVE  slices = 0
<1> USE DEF Types
<1>1. CASE PedalStep
  BY <1>1 DEF PedalStep, PedalSamples, PedalEnds, Loads, Stores, Goes, Sleeps, Step
<1>2. CASE SccStep
  BY <1>2 DEF SccStep, SccChecks, SccReads, SccBranches, SccSleeps, Loads, Stores, Goes,
              Sleeps, Step
<1>3. CASE MainStep \/ Button \/ Sensed \/ UNCHANGED vars
  BY <1>3 DEF MainStep, MainLooks, MainTurnsOn, MainSees, Button, Sensed, vars, schedVars
<1>4. ASSUME NEW t \in Task, Wake(t) PROVE slices = 0
  BY <1>4 DEF Wake
<1>5. QED BY <1>1, <1>2, <1>3, <1>4 DEF Next

LEMMA PedalKeeps ==
  ASSUME Types, OneAtATime, InRange, PedalStep, slices = 0, slices' = 0
  PROVE  OneAtATime' /\ InRange'
<1>1. turn \in {"pedal", "none"} /\ st["pedal"] = "ready"
  BY DEF PedalStep, PedalSamples, PedalEnds, Loads, Stores, Goes, Sleeps, Step
<1>2. pc.scc = "check"
  BY <1>1 DEF OneAtATime, AtStart, Task
<1>3. pc'.scc = "check" /\ st'["scc"] = st["scc"]
  BY <1>2 DEF PedalStep, PedalSamples, PedalEnds, Loads, Stores, Goes, Sleeps, Step, Types, Task
<1>4. \/ turn' = "pedal" /\ st'["pedal"] = "ready"
      \/ pc'.pedal = "sample"
  BY <1>1 DEF PedalStep, PedalSamples, PedalEnds, Loads, Stores, Goes, Sleeps, Step, Types
<1>5. OneAtATime'
  BY <1>3, <1>4 DEF OneAtATime, AtStart, Task
<1>6. TARGET_SPEED' = TARGET_SPEED
  BY DEF PedalStep, PedalSamples, PedalEnds, Loads, Stores, mainVars
<1>7. pc'.pedal # "clamp" => current_speed' \in 0 .. MAX_speed
  <2> USE <1>2 DEF InRange, Types, Goes, Sleeps, Step
  <2>1. CASE PedalSamples BY <2>1 DEF PedalSamples
  <2>2. CASE Loads("pedal", "load", "store") BY <2>2 DEF Loads
  <2>3. CASE Stores("pedal", "store", "clamp", reg.pedal + accel_val - brake_val)
    BY <2>3 DEF Stores
  <2>4. CASE PedalEnds BY <2>4, Constants DEF PedalEnds, Clamped
  <2>5. QED BY <2>1, <2>2, <2>3, <2>4 DEF PedalStep
<1>8. QED BY <1>3, <1>5, <1>6, <1>7 DEF InRange

LEMMA SccKeeps ==
  ASSUME Types, OneAtATime, InRange, SccStep, slices = 0, slices' = 0
  PROVE  OneAtATime' /\ InRange'
<1>1. turn \in {"scc", "none"} /\ st["scc"] = "ready"
  BY DEF SccStep, SccChecks, SccReads, SccBranches, SccSleeps, Loads, Stores, Goes, Sleeps,
         Step
<1>2. pc.pedal = "sample"
  BY <1>1 DEF OneAtATime, AtStart, Task
<1>3. pc'.pedal = "sample" /\ st'["pedal"] = st["pedal"]
  BY <1>2 DEF SccStep, SccChecks, SccReads, SccBranches, SccSleeps, Loads, Stores, Goes,
              Sleeps, Step, Types, Task
<1>4. \/ turn' = "scc" /\ st'["scc"] = "ready"
      \/ pc'.scc = "check"
  BY <1>1 DEF SccStep, SccChecks, SccReads, SccBranches, SccSleeps, Loads, Stores, Goes,
              Sleeps, Step, Types
<1>5. OneAtATime'
  BY <1>3, <1>4 DEF OneAtATime, AtStart, Task
<1>6. TARGET_SPEED' = TARGET_SPEED
  BY DEF SccStep, SccChecks, SccReads, SccBranches, SccSleeps, Loads, Stores, mainVars
<1>7. /\ accel_step \in 0 .. Power /\ decel_step \in 0 .. Power
      /\ target_speed \in 0 .. TARGET_SPEED /\ MAX_speed \in Nat /\ Power \in Nat
  BY StepsAreInt, Constants DEF InRange
<1>8. InRange'
  <2> USE <1>2, <1>3, <1>6, <1>7 DEF InRange, Types, Goes, Sleeps, Step
  <2>1. CASE SccChecks BY <2>1 DEF SccChecks
  <2>2. CASE SccReads BY <2>2 DEF SccReads
  <2>3. CASE SccBranches BY <2>3 DEF SccBranches
  <2>4. CASE Loads("scc", "upLoad", "upStore") BY <2>4 DEF Loads
  <2>5. CASE Loads("scc", "downLoad", "downStore") BY <2>5 DEF Loads
  <2>6. CASE Stores("scc", "upStore", "upClamp", reg.scc + accel_step)
    BY <2>6 DEF Stores
  <2>7. CASE Stores("scc", "downStore", "downClamp", reg.scc - decel_step)
    BY <2>7 DEF Stores
  <2>8. CASE Stores("scc", "upClamp", "print", Limited("upClamp"))
    BY <2>8 DEF Stores, Limited
  <2>9. CASE Stores("scc", "downClamp", "print", Limited("downClamp"))
    BY <2>9 DEF Stores, Limited
  <2>10. CASE SccSleeps BY <2>10 DEF SccSleeps
  <2>11. QED
    BY <2>1, <2>2, <2>3, <2>4, <2>5, <2>6, <2>7, <2>8, <2>9, <2>10 DEF SccStep
<1>9. QED BY <1>5, <1>8

\* Main runs while neither is ready: both are at the start of an iteration, and
\* the speed Main takes for a target is in range.
LEMMA MainKeeps ==
  ASSUME Types, OneAtATime, InRange, MainStep
  PROVE  OneAtATime' /\ InRange'
<1>1. \A t \in Task : AtStart(t)
  BY DEF OneAtATime, MainStep, MainLooks, MainTurnsOn, MainSees, MainAt, Idle
<1>2. pc.scc = "check" /\ pc.pedal = "sample"
  BY <1>1 DEF AtStart, Task
<1>3. pc'.scc = pc.scc /\ pc'.pedal = pc.pedal /\ current_speed' = current_speed
  BY DEF MainStep, MainLooks, MainTurnsOn, MainSees, MainGoto, Types
<1>4. TARGET_SPEED' \in 0 .. MAX_speed
  BY <1>2, Constants DEF MainStep, MainLooks, MainTurnsOn, MainSees, mainVars, InRange
<1>5. QED BY <1>2, <1>3, <1>4 DEF OneAtATime, AtStart, InRange

LEMMA RangeStep == Types /\ RangeInv /\ [Next]_vars => RangeInv'
<1> SUFFICES ASSUME Types, RangeInv, [Next]_vars, slices' = 0
             PROVE  OneAtATime' /\ InRange'
  BY DEF RangeInv
<1>1. slices = 0 /\ OneAtATime /\ InRange
  BY SlicesGrow DEF RangeInv
<1>2. CASE PedalStep BY <1>1, <1>2, PedalKeeps
<1>3. CASE SccStep BY <1>1, <1>3, SccKeeps
<1>4. CASE MainStep BY <1>1, <1>4, MainKeeps
<1>5. ASSUME pc' = pc, turn' = turn, current_speed' = current_speed, reg' = reg,
             TARGET_SPEED' = TARGET_SPEED,
             \A t \in Task : st[t] = "ready" => st'[t] = "ready"
      PROVE  OneAtATime' /\ InRange'
  BY <1>1, <1>5 DEF OneAtATime, InRange, AtStart
<1>6. CASE Button \/ Sensed \/ UNCHANGED vars
  BY <1>5, <1>6 DEF Button, Sensed, vars, schedVars, mainVars
<1>7. ASSUME NEW t \in Task, Wake(t) PROVE OneAtATime' /\ InRange'
  BY <1>5, <1>7 DEF Wake, mainVars, Types
<1>8. QED BY <1>2, <1>3, <1>4, <1>6, <1>7 DEF Next

\* Without a time slice that ends in an update, whoever runs while cruise control and
\* the pedals sleep sees a speed from 0 to MAX_speed (pedal.c:95-97, scc.c:44-52).
THEOREM SeesInRange == Spec => []SeenInRange
<1>1. RangeInv => SeenInRange
  <2> SUFFICES ASSUME RangeInv, Idle, slices = 0 PROVE current_speed \in 0 .. MAX_speed
    BY DEF SeenInRange
  <2>1. pc.scc = "check" /\ pc.pedal = "sample"
    BY DEF RangeInv, OneAtATime, AtStart, Idle, Task
  <2>2. QED BY <2>1 DEF RangeInv, InRange
<1>2. QED
  BY <1>1, InitTypes, TypesStep, InitRange, RangeStep, PTL DEF Spec
=============================================================================
