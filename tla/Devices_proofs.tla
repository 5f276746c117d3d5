---------------------------- MODULE Devices_proofs ----------------------------
(***************************************************************************)
(* Overlapping calls of SG90_SetAngle leave the servo's channel on, and    *)
(* the motor of a standing car is driven at most once, for any offsets,    *)
(* any speeds and any number of rounds a call waits.                       *)
(*                                                                         *)
(* The ultrasonic sensor hides its faults, for any echoes and any number   *)
(* of samples and polls, on both controllers.                              *)
(***************************************************************************)
EXTENDS Pwm, Ranging, FiniteSetTheorems, FunctionTheorems, WellFoundedInduction, TLAPS

-----------------------------------------------------------------------------
(* What the steps are built from                                           *)

\* A step of a call moves one label.
LEMMA StepType ==
  ASSUME TypeOK, NEW c \in Caller, NEW l, NEW m \in Labels, Step(c, l, m)
  PROVE  pc' \in [Caller -> Labels]
  BY DEF TypeOK, Step

\* The count of stale drives keeps its range, and the duty its own.
LEMMA GivesType ==
  ASSUME TypeOK, NEW d \in 0 .. 180, Gives(d)
  PROVE  pulse' \in 0 .. 180 /\ stale' \in 0 .. TwiceOrMore
  BY DEF TypeOK, Gives, TwiceOrMore

LEMMA CallType ==
  ASSUME PwmAssumption, TypeOK, NEW c \in Caller, NEW l, NEW d \in 0 .. 180, Call(c, l, d)
  PROVE  /\ pc' \in [Caller -> Labels] /\ duty' \in [Caller -> 0 .. 180]
         /\ wait_cnt' \in [Caller -> 0 .. Waits]
<1>1. pc' \in [Caller -> Labels]
  BY StepType DEF Call, Labels
<1>2. duty' \in [Caller -> 0 .. 180] /\ wait_cnt' \in [Caller -> 0 .. Waits]
  BY DEF Call, TypeOK, PwmAssumption
<1>3. QED BY <1>1, <1>2

LEMMA ForwardType ==
  ASSUME PwmAssumption, TypeOK, NEW l, NEW d \in 0 .. 180, Forward(l, d)
  PROVE  /\ pc' \in [Caller -> Labels] /\ duty' \in [Caller -> 0 .. 180]
         /\ wait_cnt' \in [Caller -> 0 .. Waits]
         /\ pulse' \in 0 .. 180 /\ stale' \in 0 .. TwiceOrMore
<1>0. "speed" \in Caller /\ "out" \in Labels BY DEF Caller, Labels
<1>1. CASE ch = "motor" /\ Call("speed", l, d) /\ UNCHANGED <<pulse, stale>>
  BY <1>0, <1>1, CallType DEF TypeOK
<1>2. CASE Step("speed", l, "out") /\ Gives(d) /\ UNCHANGED <<duty, wait_cnt>>
  <2>1. pc' \in [Caller -> Labels] BY <1>0, <1>2, StepType
  <2>2. pulse' \in 0 .. 180 /\ stale' \in 0 .. TwiceOrMore BY <1>2, GivesType
  <2>3. QED BY <1>2, <2>1, <2>2 DEF TypeOK
<1>3. QED BY <1>1, <1>2 DEF Forward

\* A motor's drive is a percentage.
LEMMA Drives ==
  ASSUME TypeOK
  PROVE  Standing \in 0 .. 180 /\ Moving \in 0 .. 180 /\ Steered \in Deg
<1>1. Standing \in 0 .. 180 /\ Moving \in 0 .. 180 BY DEF TypeOK, Standing, Moving
<1>2. Steered \in Deg BY DEF TypeOK, Steered, Deg
<1>3. QED BY <1>1, <1>2

-----------------------------------------------------------------------------
(* Types                                                                   *)

LEMMA InitType == Init => TypeOK
<1> SUFFICES ASSUME Init PROVE TypeOK
  OBVIOUS
<1>1. on \in BOOLEAN /\ busy \in BOOLEAN /\ made \in BOOLEAN BY DEF Init
<1>2. /\ wait_cnt \in [Caller -> 0 .. Waits] /\ duty \in [Caller -> 0 .. 180]
      /\ pulse \in 0 .. 180 /\ stale \in 0 .. TwiceOrMore /\ current_speed \in 0 .. 200
  BY PwmAssumption DEF Init, PwmAssumption, TwiceOrMore
<1>3. QED BY <1>1, <1>2 DEF Init, TypeOK, Channel, Labels, Deg

LEMMA SetsType ==
  ASSUME PwmAssumption, TypeOK, NEW c \in Caller, Sets(c)
  PROVE  TypeOK'
<1>0. {"poll", "config", "enable", "out"} \subseteq Labels BY DEF Labels
<1>1. CASE Disable(c)
  <2>1. pc' \in [Caller -> Labels] BY <1>0, <1>1, StepType DEF Disable
  <2>2. on' \in BOOLEAN /\ busy' \in BOOLEAN BY <1>1 DEF Disable, TypeOK
  <2>3. QED BY <1>1, <2>1, <2>2 DEF Disable, TypeOK, lfaVars, carVars
<1>2. CASE Poll(c)
  <2>1. pc' \in [Caller -> Labels] BY <1>0, <1>2, StepType DEF Poll
  <2>2. wait_cnt' \in [Caller -> 0 .. Waits]
    BY <1>2 DEF Poll, TypeOK, PwmAssumption
  <2>3. st' \in {"ready", "delayed", "suspended"}
    BY <1>2 DEF Poll, TypeOK, lfaVars
  <2>4. UNCHANGED <<look, angle, offset_val, duty, chanVars, carVars, made, stale>>
    BY <1>2 DEF Poll, lfaVars
  <2>5. QED BY <2>1, <2>2, <2>3, <2>4 DEF TypeOK, chanVars, carVars
<1>3. CASE Config(c)
  <2>1. pc' \in [Caller -> Labels] BY <1>0, <1>3, StepType DEF Config
  <2>2. duty[c] \in 0 .. 180 BY DEF TypeOK
  <2>3. pulse' \in 0 .. 180 /\ stale' \in 0 .. TwiceOrMore
    BY <1>3, <2>2, GivesType DEF Config
  <2>4. QED BY <1>3, <2>1, <2>3 DEF Config, TypeOK, lfaVars, carVars
<1>4. CASE Enable(c)
  <2>1. pc' \in [Caller -> Labels] BY <1>0, <1>4, StepType DEF Enable
  <2>2. QED BY <1>4, <2>1 DEF Enable, TypeOK, lfaVars, carVars
<1>5. QED BY <1>1, <1>2, <1>3, <1>4 DEF Sets

LEMMA NextType == TypeOK /\ [Next]_vars => TypeOK'
<1> SUFFICES ASSUME TypeOK, [Next]_vars PROVE TypeOK'
  OBVIOUS
<1> USE PwmAssumption
<1>0. "lfa" \in Caller /\ "main" \in Caller /\ "speed" \in Caller BY DEF Caller
<1>1. ASSUME NEW c \in Caller, Sets(c) PROVE TypeOK'
  BY <1>1, SetsType
<1>2. CASE Idle
  BY <1>2 DEF Idle, TypeOK, lfaVars, callVars, carVars
<1>3. CASE LfaSteers
  <2>1. Steered \in Deg /\ Steered \in 0 .. 180 BY Drives DEF Deg
  <2>2. Call("lfa", "out", Steered) BY <1>3 DEF LfaSteers
  <2>3. /\ pc' \in [Caller -> Labels] /\ duty' \in [Caller -> 0 .. 180]
        /\ wait_cnt' \in [Caller -> 0 .. Waits]
    BY <1>0, <2>1, <2>2, CallType
  <2>4. QED BY <1>3, <2>1, <2>3 DEF LfaSteers, TypeOK, chanVars, carVars
<1>4. CASE LfaSleeps \/ LfaWakes \/ MainResumes \/ MainOffset \/ MainSuspends
  BY <1>4 DEF LfaSleeps, LfaWakes, MainResumes, MainOffset, MainSuspends, TypeOK,
              callVars, chanVars, carVars
<1>5. ASSUME NEW o \in Offsets, LaneReceived(o) PROVE TypeOK'
  BY <1>5 DEF LaneReceived, TypeOK, callVars, chanVars, carVars, PwmAssumption
<1>6. CASE MainCenters
  <2>1. PICK d \in 0 .. 180 : Call("main", "out", d) BY <1>6 DEF MainCenters
  <2>2. /\ pc' \in [Caller -> Labels] /\ duty' \in [Caller -> 0 .. 180]
        /\ wait_cnt' \in [Caller -> 0 .. Waits]
    BY <1>0, <2>1, CallType
  <2>3. QED BY <1>6, <2>2 DEF MainCenters, TypeOK, chanVars, carVars
<1>7. CASE SpeedStands
  <2>1. Forward("out", Standing) /\ Standing \in 0 .. 180 BY <1>7, Drives DEF SpeedStands
  <2>2. /\ pc' \in [Caller -> Labels] /\ duty' \in [Caller -> 0 .. 180]
        /\ wait_cnt' \in [Caller -> 0 .. Waits]
        /\ pulse' \in 0 .. 180 /\ stale' \in 0 .. TwiceOrMore
    BY <2>1, ForwardType
  <2>3. QED BY <1>7, <2>2 DEF SpeedStands, TypeOK, lfaVars, carVars
<1>8. CASE SpeedMoves
  <2>1. pc' \in [Caller -> Labels]
    BY <1>0, <1>8, StepType DEF SpeedMoves, Labels
  <2>2. QED BY <1>8, <2>1 DEF SpeedMoves, TypeOK, lfaVars, chanVars, carVars
<1>9. CASE SpeedComputes
  <2>1. Forward("compute", Moving) /\ Moving \in 0 .. 180 BY <1>9, Drives DEF SpeedComputes
  <2>2. /\ pc' \in [Caller -> Labels] /\ duty' \in [Caller -> 0 .. 180]
        /\ wait_cnt' \in [Caller -> 0 .. Waits]
        /\ pulse' \in 0 .. 180 /\ stale' \in 0 .. TwiceOrMore
    BY <2>1, ForwardType
  <2>3. QED BY <1>9, <2>2 DEF SpeedComputes, TypeOK, lfaVars, carVars
<1>10. ASSUME NEW s \in Speeds, CarSpeeds(s) PROVE TypeOK'
  BY <1>10 DEF CarSpeeds, TypeOK, TwiceOrMore, lfaVars, callVars, chanVars, PwmAssumption
<1>11. CASE UNCHANGED vars
  BY <1>11 DEF vars, TypeOK, lfaVars, callVars, chanVars, carVars
<1>12. QED
  BY <1>1, <1>2, <1>3, <1>4, <1>5, <1>6, <1>7, <1>8, <1>9, <1>10, <1>11 DEF Next

\* Every variable keeps its type: angles and percentages stay in their ranges
\* (speed.c:8, lfa.c:67-68) and waits end within Waits (lfa.c:43).
THEOREM TypeCorrect == Spec => []TypeOK
  BY InitType, NextType, PTL DEF Spec

-----------------------------------------------------------------------------
(* The pulses come back                                                    *)

\* The steps of a call in which the channel may be off.
Within == {"poll", "config", "enable"}

\* A channel that is off has a call that is going to enable it.
SomebodyEnables == made => on \/ \E c \in Caller : pc[c] \in Within

LEMMA InitEnables == Init => SomebodyEnables
  BY DEF Init, SomebodyEnables

\* Every step of a call keeps the channel on or somebody within.
LEMMA SetsEnables ==
  ASSUME TypeOK, SomebodyEnables, NEW c \in Caller, Sets(c)
  PROVE  SomebodyEnables'
<1>0. pc \in [Caller -> Labels] BY DEF TypeOK
<1> USE <1>0 DEF SomebodyEnables, Step, Within
<1>1. CASE Disable(c) BY <1>1 DEF Disable
<1>2. CASE Poll(c)
  <2>1. on' = on /\ made' = made /\ pc'[c] \in Within BY <1>2 DEF Poll, chanVars
  <2>2. \A d \in Caller \ {c} : pc'[d] = pc[d] BY <1>2 DEF Poll
  <2>3. QED BY <2>1, <2>2
<1>3. CASE Config(c)  BY <1>3 DEF Config
<1>4. CASE Enable(c)  BY <1>4 DEF Enable
<1>5. QED BY <1>1, <1>2, <1>3, <1>4 DEF Sets

\* A step of a caller that is not within leaves the others where they are.
LEMMA OutsideEnables ==
  ASSUME TypeOK, SomebodyEnables, NEW c \in Caller, NEW l \in {"out", "compute"}, NEW m,
         Step(c, l, m), on' = on, made' = made
  PROVE  SomebodyEnables'
  BY DEF TypeOK, SomebodyEnables, Step, Within

LEMMA NextEnables == TypeOK /\ SomebodyEnables /\ [Next]_vars => SomebodyEnables'
<1> SUFFICES ASSUME TypeOK, SomebodyEnables, [Next]_vars PROVE SomebodyEnables'
  OBVIOUS
<1>0. {"lfa", "main", "speed"} \subseteq Caller BY DEF Caller
<1>1. ASSUME NEW c \in Caller, Sets(c) PROVE SomebodyEnables'
  BY <1>1, SetsEnables
<1>2. CASE LfaSteers
  BY <1>0, <1>2, OutsideEnables DEF LfaSteers, Call, chanVars
<1>3. CASE MainCenters
  BY <1>0, <1>3, OutsideEnables DEF MainCenters, Call, chanVars
<1>4. CASE SpeedStands \/ SpeedComputes
  BY <1>0, <1>4, OutsideEnables DEF SpeedStands, SpeedComputes, Forward, Call
<1>5. CASE SpeedMoves
  BY <1>0, <1>5, OutsideEnables DEF SpeedMoves, chanVars
<1>6. ASSUME pc' = pc, on' = on, made' = made PROVE SomebodyEnables'
  BY <1>6 DEF SomebodyEnables
<1>7. CASE Idle BY <1>6, <1>7 DEF Idle, callVars
<1>8. CASE LfaSleeps \/ LfaWakes \/ MainResumes \/ MainOffset \/ MainSuspends
  BY <1>6, <1>8 DEF LfaSleeps, LfaWakes, MainResumes, MainOffset, MainSuspends,
                    callVars, chanVars
<1>9. ASSUME NEW o \in Offsets, LaneReceived(o) PROVE SomebodyEnables'
  BY <1>6, <1>9 DEF LaneReceived, callVars, chanVars
<1>10. ASSUME NEW s \in Speeds, CarSpeeds(s) PROVE SomebodyEnables'
  BY <1>6, <1>10 DEF CarSpeeds, callVars, chanVars
<1>11. CASE UNCHANGED vars BY <1>6, <1>11 DEF vars, callVars, chanVars
<1>12. QED
  BY <1>1, <1>2, <1>3, <1>4, <1>5, <1>7, <1>8, <1>9, <1>10, <1>11 DEF Next

\* The channel has pulses whenever no call is under way and one was made
\* (lfa.c:38-47), however Main's and LFA's calls overlap.
THEOREM PulsesComeBack == Spec => []PulsesWhenOut
<1>1. TypeOK /\ SomebodyEnables => PulsesWhenOut
  BY DEF SomebodyEnables, PulsesWhenOut, Out, Within
<1>2. QED
  BY <1>1, TypeCorrect, InitEnables, NextEnables, PTL DEF Spec

-----------------------------------------------------------------------------
(* The standing car is driven at most once                                 *)

\* Once a standing car was given a drive, the task's next call can only carry 0:
\* the drive was the last one computed from the old speed.
OldSpeedIsGone ==
  stale >= 1 => /\ stale = 1 /\ current_speed = 0
                /\ pc["speed"] # "compute"
                /\ pc["speed"] \in {"disable", "poll", "config"} => duty["speed"] = 0

LEMMA InitStale == Init => OldSpeedIsGone
  BY DEF Init, OldSpeedIsGone

\* Calls of the other two are the servo's, which counts nothing.
LEMMA ServoIsApart ==
  ASSUME TypeOK, OldSpeedIsGone, NEW c \in {"lfa", "main"}, NEW l, NEW m, Step(c, l, m),
         stale' = stale, current_speed' = current_speed, duty'["speed"] = duty["speed"]
  PROVE  OldSpeedIsGone'
<1>1. pc'["speed"] = pc["speed"] BY DEF Step, TypeOK, Caller
<1>2. QED BY <1>1 DEF OldSpeedIsGone

LEMMA SetsStale ==
  ASSUME TypeOK, OldSpeedIsGone, NEW c \in Caller, Sets(c)
  PROVE  OldSpeedIsGone'
<1>1. PICK l, m : Step(c, l, m) BY DEF Sets, Disable, Poll, Config, Enable
<1>2. current_speed' = current_speed /\ duty' = duty
  BY DEF Sets, Disable, Poll, Config, Enable, lfaVars, carVars
<1>3. CASE c # "speed"
  <2>1. c \in {"lfa", "main"} BY <1>3 DEF Caller
  <2>2. stale' = stale
    BY <1>1, <2>1 DEF Sets, Disable, Poll, Config, Enable, Gives, Step, Runs
  <2>3. QED BY <1>1, <1>2, <2>1, <2>2, ServoIsApart
<1>4. CASE c = "speed"
  <2> USE <1>4 DEF TypeOK, Caller, OldSpeedIsGone, Step
  <2>1. CASE Disable(c) BY <1>2, <2>1 DEF Disable
  <2>2. CASE Poll(c)    BY <1>2, <2>2 DEF Poll
  <2>3. CASE Config(c)  BY <1>2, <2>3 DEF Config, Gives, TwiceOrMore
  <2>4. CASE Enable(c)  BY <1>2, <2>4 DEF Enable
  <2>5. QED BY <2>1, <2>2, <2>3, <2>4 DEF Sets
<1>5. QED BY <1>3, <1>4

LEMMA SpeedStale ==
  ASSUME TypeOK, OldSpeedIsGone, SpeedStands \/ SpeedMoves \/ SpeedComputes
  PROVE  OldSpeedIsGone'
<1> USE DEF TypeOK, Caller, OldSpeedIsGone, Step, carVars
<1>1. CASE SpeedMoves BY <1>1 DEF SpeedMoves
<1>2. CASE SpeedStands
  BY <1>2 DEF SpeedStands, Standing, Forward, Call, Gives
<1>3. CASE SpeedComputes
  <2>1. stale = 0 /\ current_speed' = current_speed /\ Moving \in Nat
    BY <1>3 DEF SpeedComputes, Forward, Call, TwiceOrMore, Moving
  <2>2. CASE ch = "motor"
    BY <1>3, <2>1, <2>2 DEF SpeedComputes, Forward, Call
  <2>3. CASE ch # "motor"
    BY <1>3, <2>1, <2>3 DEF SpeedComputes, Forward, Gives, TwiceOrMore
  <2>4. QED BY <2>2, <2>3
<1>4. QED BY <1>1, <1>2, <1>3

LEMMA NextStale == TypeOK /\ OldSpeedIsGone /\ [Next]_vars => OldSpeedIsGone'
<1> SUFFICES ASSUME TypeOK, OldSpeedIsGone, [Next]_vars PROVE OldSpeedIsGone'
  OBVIOUS
<1>1. ASSUME NEW c \in Caller, Sets(c) PROVE OldSpeedIsGone'
  BY <1>1, SetsStale
<1>2. CASE LfaSteers
  BY <1>2, ServoIsApart DEF LfaSteers, Call, carVars, TypeOK, Caller
<1>3. CASE MainCenters
  BY <1>3, ServoIsApart DEF MainCenters, Call, carVars, TypeOK, Caller
<1>4. CASE SpeedStands \/ SpeedMoves \/ SpeedComputes
  BY <1>4, SpeedStale
<1>5. ASSUME pc' = pc, duty' = duty, current_speed' = current_speed, stale' = stale
      PROVE  OldSpeedIsGone'
  BY <1>5 DEF OldSpeedIsGone
<1>6. CASE Idle BY <1>5, <1>6 DEF Idle, callVars, carVars
<1>7. CASE LfaSleeps \/ LfaWakes \/ MainResumes \/ MainOffset \/ MainSuspends
  BY <1>5, <1>7 DEF LfaSleeps, LfaWakes, MainResumes, MainOffset, MainSuspends,
                    callVars, carVars
<1>8. ASSUME NEW o \in Offsets, LaneReceived(o) PROVE OldSpeedIsGone'
  BY <1>5, <1>8 DEF LaneReceived, callVars, carVars
<1>9. ASSUME NEW s \in Speeds, CarSpeeds(s) PROVE OldSpeedIsGone'
  BY <1>9 DEF CarSpeeds, OldSpeedIsGone
<1>10. CASE UNCHANGED vars BY <1>5, <1>10 DEF vars, callVars, carVars
<1>11. QED
  BY <1>1, <1>2, <1>3, <1>4, <1>6, <1>7, <1>8, <1>9, <1>10 DEF Next

\* The motor of a standing car is given a drive at most once (speed.c:75-82),
\* whenever the car stops.
THEOREM OldDriveAtMostOnce == Spec => []StaleDriveAtMostOnce
<1>1. TypeOK /\ OldSpeedIsGone => StaleDriveAtMostOnce
  BY DEF TypeOK, OldSpeedIsGone, StaleDriveAtMostOnce, TwiceOrMore
<1>2. QED
  BY <1>1, TypeCorrect, InitStale, NextStale, PTL DEF Spec
-----------------------------------------------------------------------------
(* The middle of the sorted window                                         *)

LEMMA Range1 ==
  ASSUME NEW n \in Nat
  PROVE  IsFiniteSet(1 .. n) /\ Cardinality(1 .. n) = n
<1>1. n \in Int /\ 1 \in Int
  OBVIOUS
<1>2. QED BY <1>1, FS_Interval

LEMMA AheadIs ==
  ASSUME NEW s \in Seq(Nat), NEW i \in 1 .. Len(s)
  PROVE  /\ Ahead(s, i) \in SUBSET (1 .. Len(s)) /\ i \in Ahead(s, i)
         /\ IsFiniteSet(Ahead(s, i)) /\ Place(s, i) \in 1 .. Len(s)
<1>1. Ahead(s, i) \in SUBSET (1 .. Len(s)) /\ i \in Ahead(s, i)
  BY DEF Ahead
<1>2. IsFiniteSet(Ahead(s, i)) /\ Cardinality(Ahead(s, i)) <= Len(s)
  BY <1>1, Range1, FS_Subset
<1>3. Cardinality(Ahead(s, i)) \in Nat
  BY <1>2, FS_CardinalityType
<1>4. Cardinality(Ahead(s, i)) # 0
  BY <1>1, <1>2, FS_EmptySet
<1>5. QED BY <1>1, <1>2, <1>3, <1>4 DEF Place

\* No two samples have the same place ...
LEMMA PlacesDiffer ==
  ASSUME NEW s \in Seq(Nat), NEW i \in 1 .. Len(s), NEW j \in 1 .. Len(s),
         s[i] < s[j] \/ (s[i] = s[j] /\ i < j)
  PROVE  Place(s, i) # Place(s, j)
<1>1. /\ Ahead(s, i) \in SUBSET (1 .. Len(s)) /\ IsFiniteSet(Ahead(s, i))
      /\ Ahead(s, j) \in SUBSET (1 .. Len(s)) /\ IsFiniteSet(Ahead(s, j))
      /\ j \in Ahead(s, j)
  BY AheadIs
<1>2. \A k \in 1 .. Len(s) : s[k] \in Nat
  OBVIOUS
<1>3. Ahead(s, i) \subseteq Ahead(s, j) /\ j \notin Ahead(s, i)
  BY <1>2 DEF Ahead
<1>4. Cardinality(Ahead(s, i)) # Cardinality(Ahead(s, j))
  BY <1>1, <1>3, FS_Subset
<1>5. QED BY <1>4 DEF Place

\* ... so that every place is taken.
LEMMA PlaceIsTaken ==
  ASSUME NEW s \in Seq(Nat), NEW m \in 1 .. Len(s)
  PROVE  \E i \in 1 .. Len(s) : Place(s, i) = m
<1> DEFINE N == 1 .. Len(s)
           f == [i \in N |-> Place(s, i)]
<1>1. f \in [N -> N]
  BY AheadIs
<1>2. \A i, j \in N : f[i] = f[j] => i = j
  <2> SUFFICES ASSUME NEW i \in N, NEW j \in N, i # j PROVE f[i] # f[j]
    OBVIOUS
  <2>1. s[i] \in Nat /\ s[j] \in Nat
    OBVIOUS
  <2>2. \/ s[i] < s[j] \/ (s[i] = s[j] /\ i < j)
        \/ s[j] < s[i] \/ (s[j] = s[i] /\ j < i)
    BY <2>1
  <2>3. Place(s, i) # Place(s, j)
    BY <2>2, PlacesDiffer
  <2>4. QED BY <2>3
<1>3. f \in Injection(N, N)
  BY <1>1, <1>2 DEF Injection, IsInjective
<1>4. IsFiniteSet(N)
  BY Range1
<1>5. f \in Surjection(N, N)
  BY <1>3, <1>4, FS_Injection
<1>6. QED BY <1>5 DEF Surjection

LEMMA MedianIs ==
  ASSUME NEW s \in Seq(Nat), Len(s) # 0
  PROVE  \E i \in 1 .. Len(s) : Place(s, i) = Middle(s) /\ Median(s) = s[i]
<1>1. Middle(s) \in 1 .. Len(s) /\ DOMAIN s = 1 .. Len(s)
  BY DEF Middle
<1>2. \E i \in DOMAIN s : Place(s, i) = Middle(s)
  BY <1>1, PlaceIsTaken
<1>3. QED BY <1>1, <1>2 DEF Median

\* Less than half of the samples are bad: the one in the middle lies between
\* good ones.
LEMMA MedianHides ==
  ASSUME NEW s \in Seq(Nat), Len(s) # 0, NEW lo \in Nat, NEW hi \in Nat,
         NEW B \in SUBSET (1 .. Len(s)), 2 * Cardinality(B) < Len(s),
         \A k \in (1 .. Len(s)) \ B : s[k] \in lo .. hi
  PROVE  Median(s) \in lo .. hi
<1> DEFINE N == 1 .. Len(s)
           m == Middle(s)
<1>1. PICK i \in N : Place(s, i) = m /\ Median(s) = s[i]
  BY MedianIs
<1>2. /\ Ahead(s, i) \in SUBSET N /\ i \in Ahead(s, i) /\ IsFiniteSet(Ahead(s, i))
      /\ Cardinality(Ahead(s, i)) = m /\ m \in Nat
  BY <1>1, AheadIs DEF Place
<1>3. Len(s) \in Nat /\ 2 * m >= Len(s) /\ 2 * m <= Len(s) + 1
  BY DEF Middle
<1>4. IsFiniteSet(N) /\ Cardinality(N) = Len(s)
  BY Range1
<1>5. IsFiniteSet(B) /\ Cardinality(B) \in Nat
  BY <1>4, FS_Subset, FS_CardinalityType
<1>6. \A k \in N : s[k] \in Nat
  OBVIOUS
<1>7. ASSUME s[i] < lo PROVE FALSE
  <2>1. \A k \in Ahead(s, i) : s[k] <= s[i]
    BY <1>6 DEF Ahead
  <2>2. Ahead(s, i) \in SUBSET B
    BY <1>2, <1>6, <1>7, <2>1
  <2>3. m <= Cardinality(B)
    BY <1>2, <1>5, <2>2, FS_Subset
  <2>4. QED BY <1>2, <1>3, <1>5, <2>3
<1>8. ASSUME s[i] > hi PROVE FALSE
  <2> DEFINE Rest == N \ (Ahead(s, i) \ {i})
  <2>1. IsFiniteSet(Ahead(s, i) \ {i}) /\ Cardinality(Ahead(s, i) \ {i}) = m - 1
    BY <1>2, FS_RemoveElement
  <2>2. N \cap (Ahead(s, i) \ {i}) = Ahead(s, i) \ {i}
    BY <1>2
  <2>3. IsFiniteSet(Rest) /\ Cardinality(Rest) = Len(s) - (m - 1)
    <3>1. \A T : /\ IsFiniteSet(N \ T)
                /\ Cardinality(N \ T) = Cardinality(N) - Cardinality(N \cap T)
      BY <1>4, FS_Difference
    <3>2. /\ IsFiniteSet(Rest)
          /\ Cardinality(Rest) = Cardinality(N) - Cardinality(Ahead(s, i) \ {i})
      BY <2>2, <3>1
    <3>3. QED BY <1>4, <2>1, <3>2
  <2>4. \A k \in Rest : k = i \/ s[k] >= s[i]
    BY <1>6 DEF Ahead
  <2>5. Rest \in SUBSET B
    <3> SUFFICES ASSUME NEW k \in Rest, k \notin B PROVE FALSE
      OBVIOUS
    <3>1. s[k] \in Nat /\ s[k] <= hi /\ s[i] \in Nat
      BY <1>6
    <3>2. QED BY <1>8, <2>4, <3>1
  <2>6. Cardinality(Rest) <= Cardinality(B)
    BY <1>5, <2>5, FS_Subset
  <2>7. QED BY <1>2, <1>3, <1>5, <2>3, <2>6
<1>9. s[i] \in Nat
  BY <1>6
<1>10. QED BY <1>1, <1>7, <1>8, <1>9
LEMMA Elements ==
  ASSUME NEW D, NEW s \in Seq(D)
  PROVE  \A k \in 1 .. Len(s) : s[k] \in D
  OBVIOUS

-----------------------------------------------------------------------------
(* The types of the sensor's task                                          *)

LEMMA UssConstants ==
  /\ Patience \in Nat /\ 2 < Patience /\ Wrap \in Nat /\ 2 * Patience < Wrap
  /\ Samples \in Nat \ {0} /\ MaxLate \in Nat
  /\ Echoes # {} /\ \A e \in Echoes : e \in Nat /\ 0 < e /\ e < Patience
<1>1. PICK e \in Echoes : e < Patience /\ 2 * Patience < Wrap
  BY RangingAssumption
<1>2. Patience \in Nat /\ Samples \in Nat \ {0}
  BY RangingAssumption
<1>3. \A f \in Echoes : f \in Nat /\ 0 < f /\ f < Patience
  BY RangingAssumption
<1>4. QED BY <1>1, <1>2, <1>3, RangingAssumption

LEMMA Modulo ==
  /\ \A x \in Int : (x % Wrap) \in 0 .. Wrap - 1
  /\ \A x \in 0 .. Wrap - 1 : (x % Wrap) = x
<1>1. Wrap \in Nat \ {0}
  BY UssConstants
<1>2. QED BY <1>1

\* While a sample is awaited there is room for it.
HasRoom == uss_pc # "sleep" => Len(samples) < Samples

\* The types but that of faulty, which needs more.
UssTypes ==
  /\ phase \in Phases
  /\ uss_pc \in {"trigger", "rise", "rose", "fall", "sleep"}
  /\ echo \in {0, 1} /\ left \in Nat
  /\ timer \in 0 .. Wrap - 1 /\ timeout \in 0 .. Wrap - 1 /\ start \in 0 .. Wrap - 1
  /\ samples \in Seq(0 .. Wrap - 1) /\ Len(samples) <= Samples
  /\ shared_distance \in 0 .. Wrap - 1
  /\ late \in 0 .. MaxLate /\ stuck \in BOOLEAN
UssTypeInv == UssTypes /\ HasRoom

LEMMA UssInitType == UssInit => UssTypeInv
<1>1. <<>> \in Seq(0 .. Wrap - 1) /\ Len(<<>>) = 0
  OBVIOUS
<1>2. 0 \in 0 .. Wrap - 1 /\ 0 \in 0 .. MaxLate /\ 0 < Samples /\ 0 <= Samples
  BY UssConstants
<1>3. ASSUME UssInit PROVE samples \in Seq(0 .. Wrap - 1) /\ Len(samples) = 0
  BY <1>1, <1>3 DEF UssInit
<1>4. UssInit => UssTypes
  <2> SUFFICES ASSUME UssInit PROVE UssTypes
    OBVIOUS
  <2>1. phase \in Phases /\ uss_pc = "trigger" /\ echo \in {0, 1} /\ left \in Nat
    BY DEF UssInit, Never
  <2>2. timer = 0 /\ timeout = 0 /\ start = 0 /\ shared_distance = 0 /\ late = 0
    BY DEF UssInit
  <2>3. stuck \in BOOLEAN
    BY DEF UssInit
  <2>4. QED BY <1>2, <1>3, <2>1, <2>2, <2>3 DEF UssTypes
<1>5. QED BY <1>2, <1>3, <1>4 DEF UssTypeInv, HasRoom

LEMMA TickType ==
  ASSUME UssTypes, Tick
  PROVE  timer' \in 0 .. Wrap - 1 /\ echo' \in {0, 1} /\ left' \in Nat
<1>1. timer' \in 0 .. Wrap - 1
  <2>1. timer + 1 \in Int
    BY DEF UssTypes
  <2>2. QED BY <2>1, Modulo DEF Tick
<1>2. QED BY <1>1, UssConstants DEF Tick, UssTypes, Never

LEMMA CountType == ASSUME UssTypes PROVE Count \in 0 .. Wrap - 1
<1>1. timeout - 1 \in Int /\ timeout + 1 \in Int
  BY DEF UssTypes
<1>2. QED BY <1>1, Modulo DEF Count

LEMMA DurationType == ASSUME UssTypes PROVE Duration \in 0 .. Wrap - 1
<1>1. timer - start \in Int
  BY DEF UssTypes
<1>2. 0 \in 0 .. Wrap - 1
  BY UssConstants
<1>3. QED BY <1>1, <1>2, Modulo DEF Duration

LEMMA MeasuredType ==
  ASSUME UssTypeInv, uss_pc # "sleep", NEW d \in 0 .. Wrap - 1, Measured(d)
  PROVE  samples' \in Seq(0 .. Wrap - 1) /\ Len(samples') <= Samples /\ uss_pc' = "sleep"
<1>1. samples \in Seq(0 .. Wrap - 1) /\ Len(samples) < Samples
  BY DEF UssTypeInv, UssTypes, HasRoom
<1>2. /\ Append(samples, d) \in Seq(0 .. Wrap - 1)
      /\ Len(Append(samples, d)) = Len(samples) + 1 /\ Len(samples) \in Nat
  BY <1>1
<1>3. QED BY <1>1, <1>2, UssConstants DEF Measured

LEMMA CurrentIs ==
  ASSUME UssTypeInv, uss_pc # "sleep"
  PROVE  Current \in 1 .. Samples
<1>1. Len(samples) \in Nat /\ Len(samples) < Samples
  BY DEF UssTypeInv, UssTypes, HasRoom
<1>2. QED BY <1>1, UssConstants DEF Current

LEMMA UssNextType == UssTypeInv /\ [UssNext]_ussVars => UssTypeInv'
<1> SUFFICES ASSUME UssTypeInv, [UssNext]_ussVars PROVE UssTypeInv'
  OBVIOUS
<1> USE DEF UssTypeInv, HasRoom
<1>1. CASE Late
  <2>1. late' \in 0 .. MaxLate
    BY <1>1, UssConstants DEF Late, UssTypes
  <2>2. QED BY <1>1, <2>1, TickType DEF Late, UssTypes
<1>2. CASE Stick
  BY <1>2 DEF Stick, UssTypes, Never
<1>3. CASE Trigger
  <2>1. timeout' \in 0 .. Wrap - 1 /\ timer' \in 0 .. Wrap - 1
    BY <1>3, UssConstants DEF Trigger, Timeout0, UssTypes
  <2>2. QED BY <1>3, <2>1 DEF Trigger, UssTypes
<1>4. CASE PollLow
  <2>1. timeout' \in 0 .. Wrap - 1
    BY <1>4, CountType DEF PollLow
  <2>2. CASE Tick /\ UNCHANGED <<uss_pc, samples>>
    BY <1>4, <2>1, <2>2, TickType DEF PollLow, UssTypes
  <2>3. CASE uss_pc' = "rose" /\ UNCHANGED <<lineVars, samples>>
    BY <1>4, <2>1, <2>3 DEF PollLow, UssTypes, lineVars
  <2>4. CASE Measured(0) /\ UNCHANGED lineVars
    <3>1. 0 \in 0 .. Wrap - 1
      BY UssConstants
    <3>2. QED BY <1>4, <2>1, <2>4, <3>1, MeasuredType DEF PollLow, UssTypes, lineVars
  <2>5. QED BY <1>4, <2>2, <2>3, <2>4 DEF PollLow
<1>5. CASE PollHigh
  <2>1. CASE Measured(0)
    <3>1. 0 \in 0 .. Wrap - 1
      BY UssConstants
    <3>2. QED BY <1>5, <2>1, <3>1, MeasuredType DEF PollHigh, UssTypes, lineVars
  <2>2. CASE uss_pc' = "rose" /\ UNCHANGED samples
    BY <1>5, <2>2 DEF PollHigh, UssTypes, lineVars
  <2>3. QED BY <1>5, <2>1, <2>2 DEF PollHigh
<1>6. CASE Rose
  BY <1>6, UssConstants DEF Rose, Timeout0, UssTypes, lineVars, windowVars
<1>7. CASE PollFall
  <2>1. CASE timeout' = Count /\ Tick /\ UNCHANGED <<uss_pc, samples>>
    BY <1>7, <2>1, TickType, CountType DEF PollFall, UssTypes
  <2>2. CASE Measured(Duration) /\ UNCHANGED <<lineVars, timeout>>
    BY <1>7, <2>2, MeasuredType, DurationType DEF PollFall, UssTypes, lineVars
  <2>3. QED BY <1>7, <2>1, <2>2 DEF PollFall
<1>8. CASE Sleep
  <2>1. CASE Len(samples) < Samples
    BY <1>8, <2>1 DEF Sleep, UssTypes, windowVars, Never
  <2>2. CASE ~(Len(samples) < Samples)
    <3>1. samples \in Seq(Nat) /\ Len(samples) # 0 /\ samples \in Seq(0 .. Wrap - 1)
      BY <2>2, UssConstants DEF UssTypes
    <3>2. Median(samples) \in 0 .. Wrap - 1
      <4>1. PICK i \in 1 .. Len(samples) : Median(samples) = samples[i]
        BY <3>1, MedianIs
      <4>2. \A k \in 1 .. Len(samples) : samples[k] \in 0 .. Wrap - 1
        BY ONLY <3>1, Elements
      <4>3. QED BY ONLY <4>1, <4>2
    <3>3. samples' \in Seq(0 .. Wrap - 1) /\ Len(samples') = 0
      BY <1>8, <2>2 DEF Sleep
    <3>4. late' \in 0 .. MaxLate /\ stuck' \in BOOLEAN
      BY <1>8, <2>2, UssConstants DEF Sleep
    <3>5. QED BY <1>8, <2>2, <3>2, <3>3, <3>4, UssConstants DEF Sleep, UssTypes, Never
  <2>3. QED BY <2>1, <2>2
<1>9. CASE UNCHANGED ussVars
  BY <1>9 DEF ussVars, UssTypes, lineVars, windowVars
<1>10. QED BY <1>1, <1>2, <1>3, <1>4, <1>5, <1>6, <1>7, <1>8, <1>9 DEF UssNext, TaskStep

LEMMA UssTypeInvariance == UssSpec => []UssTypeInv
  BY UssInitType, UssNextType, PTL DEF UssSpec
-----------------------------------------------------------------------------
(* A wait knows how long the line will stay as it is                       *)

\* The rounds of the wait so far, and the time since the line rose.
Polls == IF phase = 1 THEN Patience - timeout ELSE timeout
Elapsed == (timer - start) % Wrap

\* Nothing has held this sample up.
OnTime == Current \notin faulty \/ late = 0

\* What is left of n ticks is an echo's, all of it if nothing is late.
Lasts(n) == \E e \in Echoes : n <= e /\ (OnTime => n = e)

RiseInv ==
  /\ timeout \in 0 .. Patience
  /\ left # Never /\ echo = 0 => left + Polls <= 2
  /\ left # Never /\ echo = 1 => Polls <= 2 /\ Lasts(left)
  /\ left = Never => Current \in faulty
RoseInv ==
  /\ left # Never => echo = 1 /\ Lasts(left)
  /\ left = Never => Current \in faulty
FallInv ==
  /\ timeout \in 0 .. Patience
  /\ left # Never => echo = 1 /\ Lasts(left + Polls) /\ (OnTime => Elapsed = Polls)
  /\ left = Never =>
       /\ Current \in faulty \/ (echo = 0 /\ Polls \in Echoes /\ Elapsed \in Echoes)
       /\ late = 0 /\ ~stuck => Elapsed \in {0} \cup Echoes

WaitInv ==
  /\ uss_pc \in {"trigger", "sleep"} => left = Never
  /\ uss_pc = "rise" => RiseInv
  /\ uss_pc = "rose" => RoseInv
  /\ uss_pc = "fall" => FallInv
  /\ echo = 1 /\ left = Never => stuck

LEMMA ElapsesOne ==
  ASSUME NEW W \in Nat \ {0}, NEW t \in 0 .. W - 1, NEW s \in 0 .. W - 1, NEW d \in Nat,
         d = (t - s) % W, d + 1 < W
  PROVE  (((t + 1) % W) - s) % W = d + 1
<1>1. \A z \in Int : (0 <= z /\ z < W => z % W = z) /\ (-W <= z /\ z < 0 => z % W = z + W)
  OBVIOUS
<1>2. t - s \in Int /\ t + 1 \in Int /\ -W <= t - s /\ t - s < W
  OBVIOUS
<1>3. d = IF t >= s THEN t - s ELSE (t - s) + W
  BY <1>1, <1>2
<1>4. CASE t + 1 < W
  <2>1. (t + 1) % W = t + 1
    BY <1>1, <1>4
  <2>2. (t + 1) - s \in Int /\ -W <= (t + 1) - s /\ (t + 1) - s < W
    BY <1>4
  <2>3. ((t + 1) - s) % W = IF t + 1 >= s THEN (t + 1) - s ELSE ((t + 1) - s) + W
    BY <1>1, <2>2
  <2>4. QED BY <1>3, <2>1, <2>3
<1>5. CASE t + 1 = W
  <2>1. (t + 1) % W = 0
    BY <1>5
  <2>2. s > 0
    BY <1>3, <1>5
  <2>3. 0 - s \in Int /\ -W <= 0 - s /\ 0 - s < 0
    BY <2>2
  <2>4. (0 - s) % W = (0 - s) + W
    BY <1>1, <2>3
  <2>5. QED BY <1>3, <1>5, <2>1, <2>4
<1>6. QED BY <1>4, <1>5

LEMMA TimeGoesOn ==
  ASSUME UssTypes, Tick, start' = start
  PROVE  /\ Elapsed \in Nat
         /\ Elapsed + 1 < Wrap => Elapsed' = Elapsed + 1
<1>1. Wrap \in Nat \ {0} /\ timer \in 0 .. Wrap - 1 /\ start \in 0 .. Wrap - 1
  BY UssConstants DEF UssTypes
<1>2. timer - start \in Int
  BY <1>1
<1>3. Elapsed \in Nat
  BY <1>1, <1>2, Modulo DEF Elapsed
<1>4. PICK d \in Nat : d = Elapsed
  BY <1>3
<1>5. d + 1 < Wrap => (((timer + 1) % Wrap) - start) % Wrap = d + 1
  BY <1>1, <1>4, ElapsesOne DEF Elapsed
<1>6. Elapsed' = (((timer + 1) % Wrap) - start) % Wrap
  BY DEF Elapsed, Tick
<1>7. QED BY <1>3, <1>4, <1>5, <1>6

LEMMA PollsIs ==
  ASSUME UssTypes, timeout \in 0 .. Patience
  PROVE  /\ Polls \in 0 .. Patience /\ (Exhausted <=> Polls = Patience)
         /\ ~Exhausted /\ timeout' = Count /\ phase' = phase =>
              timeout' \in 0 .. Patience /\ Polls' = Polls + 1
<1>1. phase \in {1, 2} /\ timeout \in Nat
  BY RangingAssumption, UssConstants DEF UssTypes
<1>2. Polls \in 0 .. Patience /\ (Exhausted <=> Polls = Patience)
  BY <1>1, UssConstants DEF Polls, Exhausted
<1>3. ASSUME ~Exhausted, timeout' = Count, phase' = phase
      PROVE  timeout' \in 0 .. Patience /\ Polls' = Polls + 1
  <2>1. CASE phase = 1
    <3>1. timeout - 1 \in 0 .. Wrap - 1
      BY <1>1, <1>3, <2>1, UssConstants DEF Exhausted
    <3>2. timeout' = timeout - 1
      BY <1>3, <2>1, <3>1, Modulo DEF Count
    <3>3. QED BY <1>1, <1>3, <2>1, <3>1, <3>2, UssConstants DEF Polls
  <2>2. CASE phase = 2
    <3>1. timeout + 1 \in 0 .. Wrap - 1 /\ timeout < Patience
      BY <1>1, <1>3, <2>2, UssConstants DEF Exhausted
    <3>2. timeout' = timeout + 1
      BY <1>3, <2>2, <3>1, Modulo DEF Count
    <3>3. QED BY <1>1, <1>3, <2>2, <3>1, <3>2, UssConstants DEF Polls
  <2>3. QED BY <1>1, <2>1, <2>2
<1>4. QED BY <1>2, <1>3

LEMMA SameSample ==
  ASSUME UNCHANGED samples PROVE Current' = Current
  BY DEF Current

LEMMA LateWaits == ASSUME UssTypeInv, WaitInv, Late PROVE WaitInv'
<1> USE DEF UssTypeInv
<1>1. Current' = Current /\ Current' \in faulty' /\ late' # 0 /\ ~OnTime'
  BY SameSample DEF Late, UssTypes, OnTime
<1>2. /\ uss_pc' = uss_pc /\ timeout' = timeout /\ phase' = phase /\ Polls' = Polls
      /\ uss_pc \in {"rise", "rose", "fall"} /\ start' = start /\ stuck' = stuck
  BY DEF Late, Polls
<1>3. left \in Nat /\ echo \in {0, 1}
  BY DEF UssTypes
<1>4. \/ left = Never /\ UNCHANGED <<echo, left>>
      \/ left > 1 /\ left' = left - 1 /\ UNCHANGED echo
      \/ left = 1 /\ echo = 0 /\ echo' = 1 /\ left' \in Echoes
      \/ left = 1 /\ echo = 1 /\ echo' = 0 /\ left' = Never
  BY DEF Late, Tick
<1>5. \A e \in Echoes : e \in Nat /\ 0 < e /\ e < Patience
  BY UssConstants
<1>6. CASE uss_pc = "rise"
  <2>1. RiseInv /\ Polls \in 0 .. Patience
    BY <1>6, PollsIs DEF WaitInv, RiseInv
  <2>2. ASSUME left' # Never, echo' = 0 PROVE left' + Polls' <= 2
    BY <1>2, <1>3, <1>4, <2>1, <2>2, UssConstants DEF RiseInv, Never
  <2>3. ASSUME left' # Never, echo' = 1 PROVE Polls' <= 2 /\ \E e \in Echoes : left' <= e
    <3>1. CASE left > 1 /\ left' = left - 1 /\ UNCHANGED echo
      <4>1. Polls <= 2 /\ \E e \in Echoes : left <= e
        BY <2>1, <2>3, <3>1 DEF RiseInv, Lasts, Never
      <4>2. QED BY <1>2, <1>3, <1>5, <3>1, <4>1
    <3>2. CASE left = 1 /\ echo = 0 /\ echo' = 1 /\ left' \in Echoes
      <4>1. left + Polls <= 2
        BY <2>1, <3>2 DEF RiseInv, Never
      <4>2. left' \in Nat
        BY <1>5, <3>2
      <4>3. QED BY <1>2, <2>1, <3>2, <4>1, <4>2, UssConstants
    <3>3. QED BY <1>4, <2>3, <3>1, <3>2
  <2>4. Lasts(left)' <=> \E e \in Echoes : left' <= e
    BY <1>1 DEF Lasts
  <2>5. echo' = 1 /\ left' = Never => stuck'
    BY <1>2, <1>4, <1>5 DEF WaitInv, Never
  <2>6. RiseInv'
    BY <1>1, <1>2, <2>1, <2>2, <2>3, <2>4 DEF RiseInv
  <2>7. QED BY <1>2, <1>6, <2>5, <2>6 DEF WaitInv
<1>7. CASE uss_pc = "rose"
  <2>1. RoseInv
    BY <1>7 DEF WaitInv
  <2>2. left' # Never => echo' = 1 /\ \E e \in Echoes : left' <= e
    BY <1>3, <1>4, <1>5, <2>1 DEF RoseInv, Lasts, Never
  <2>3. echo' = 1 /\ left' = Never => stuck'
    BY <1>2, <1>4, <1>5 DEF WaitInv, Never
  <2>4. RoseInv'
    BY <1>1, <2>2 DEF RoseInv, Lasts
  <2>5. QED BY <1>2, <1>7, <2>3, <2>4 DEF WaitInv
<1>8. CASE uss_pc = "fall"
  <2>1. FallInv /\ Polls \in 0 .. Patience
    BY <1>8, PollsIs DEF WaitInv, FallInv
  <2>2. left' # Never => echo' = 1 /\ \E e \in Echoes : left' + Polls' <= e
    <3> SUFFICES ASSUME left' # Never
                 PROVE  echo' = 1 /\ \E e \in Echoes : left' + Polls' <= e
      OBVIOUS
    <3>1. left > 1 /\ left' = left - 1 /\ UNCHANGED echo
      BY <1>4, <2>1 DEF FallInv, Never
    <3>2. echo = 1 /\ \E e \in Echoes : left + Polls <= e
      BY <2>1, <3>1 DEF FallInv, Lasts, Never
    <3>3. left' + Polls' = (left + Polls) - 1 /\ left + Polls \in Int
      BY <1>2, <1>3, <2>1, <3>1, UssConstants
    <3>4. QED BY <1>5, <3>1, <3>2, <3>3
  <2>3. echo' = 1 /\ left' = Never => stuck'
    BY <1>2, <1>4, <1>5 DEF WaitInv, Never
  <2>4. FallInv'
    BY <1>1, <1>2, <2>1, <2>2 DEF FallInv, Lasts
  <2>5. QED BY <1>2, <1>8, <2>3, <2>4 DEF WaitInv
<1>9. QED BY <1>2, <1>6, <1>7, <1>8

LEMMA StickWaits == ASSUME UssTypeInv, WaitInv, Stick PROVE WaitInv'
<1>1. Current' = Current /\ Current' \in faulty' /\ stuck' /\ left' = Never
  BY SameSample DEF Stick
<1>2. uss_pc' = uss_pc /\ timeout' = timeout /\ uss_pc \notin {"trigger", "sleep"}
  BY DEF Stick, WaitInv
<1>3. uss_pc \in {"rise", "fall"} => timeout \in 0 .. Patience
  BY DEF WaitInv, RiseInv, FallInv
<1>4. QED BY <1>1, <1>2, <1>3 DEF WaitInv, RiseInv, RoseInv, FallInv

LEMMA TriggerWaits == ASSUME UssTypeInv, WaitInv, Trigger PROVE WaitInv'
<1>1. Current' = Current /\ phase \in {1, 2}
  BY SameSample, RangingAssumption DEF Trigger, UssTypeInv, UssTypes
<1>2. timeout' \in 0 .. Patience /\ Polls' = 0
  BY <1>1, UssConstants DEF Trigger, Timeout0, Polls
<1>3. left = Never /\ (echo = 1 => stuck)
  BY DEF Trigger, WaitInv
<1>4. CASE echo = 0 /\ left' \in {1, 2} /\ UNCHANGED faulty
  <2>1. left' # Never /\ echo' = 0 /\ uss_pc' = "rise"
    BY <1>4 DEF Trigger, Never
  <2>2. left' + Polls' <= 2
    <3>1. left' = 1 \/ left' = 2
      BY <1>4
    <3>2. Polls' = 0
      BY <1>2
    <3>3. QED BY ONLY <3>1, <3>2
  <2>3. QED BY <1>2, <2>1, <2>2 DEF WaitInv, RiseInv
<1>5. CASE UNCHANGED left /\ faulty' = faulty \cup {Current}
  BY <1>1, <1>2, <1>3, <1>5 DEF Trigger, WaitInv, RiseInv
<1>6. QED BY <1>4, <1>5 DEF Trigger

LEMMA PollLowWaits == ASSUME UssTypeInv, WaitInv, PollLow PROVE WaitInv'
<1> USE DEF UssTypeInv
<1>1. /\ RiseInv /\ Polls \in 0 .. Patience /\ uss_pc = "rise" /\ echo = 0
      /\ phase' = phase /\ timeout' = Count /\ UNCHANGED <<late, faulty, stuck>>
  BY PollsIs DEF PollLow, WaitInv, RiseInv
<1>2. left \in Nat /\ \A e \in Echoes : e \in Nat /\ 0 < e /\ e < Patience
  BY UssConstants DEF UssTypes
<1>3. CASE ~Exhausted /\ Tick /\ UNCHANGED <<uss_pc, samples>>
  <2>1. /\ timeout' \in 0 .. Patience /\ Polls' = Polls + 1
        /\ OnTime' = OnTime /\ Current' = Current
    BY <1>1, <1>3, PollsIs, SameSample DEF RiseInv, OnTime
  <2>2. CASE left = Never /\ UNCHANGED <<echo, left>>
    BY <1>1, <1>3, <2>1, <2>2 DEF WaitInv, RiseInv
  <2>3. CASE left > 1 /\ left' = left - 1 /\ UNCHANGED echo
    <3>1. left' + Polls' = left + Polls /\ left + Polls <= 2
      BY <1>1, <1>2, <2>1, <2>3, UssConstants DEF RiseInv, Never
    <3>2. left' # Never
      BY <1>2, <2>3 DEF Never
    <3>3. QED BY <1>1, <1>3, <2>1, <2>3, <3>1, <3>2 DEF WaitInv, RiseInv
  <2>4. CASE left = 1 /\ echo = 0 /\ echo' = 1 /\ left' \in Echoes
    <3>1. 1 + Polls <= 2
      BY <1>1, <2>4 DEF RiseInv, Never
    <3>2. Polls' <= 2
      BY <1>1, <2>1, <3>1, UssConstants
    <3>3. left' # Never /\ left' <= left'
      BY <1>2, <2>4 DEF Never
    <3>4. Lasts(left)'
      BY <2>4, <3>3 DEF Lasts
    <3>5. QED BY <1>1, <1>3, <2>1, <2>4, <3>2, <3>3, <3>4 DEF WaitInv, RiseInv
  <2>5. QED BY <1>1, <1>3, <2>2, <2>3, <2>4 DEF Tick
<1>4. CASE Exhausted
  <2>1. Polls = Patience
    BY <1>1, <1>4, PollsIs DEF RiseInv
  <2>2. left = Never
    <3>1. ASSUME left # Never PROVE FALSE
      <4>1. left + Polls <= 2
        BY <1>1, <3>1 DEF RiseInv
      <4>2. QED BY <1>2, <2>1, <4>1, UssConstants
    <3>2. QED BY <3>1
  <2>3. UNCHANGED <<echo, left>>
    BY <1>4 DEF PollLow, lineVars
  <2>4. CASE uss_pc' = "rose" /\ UNCHANGED samples
    <3>1. Current' = Current
      BY <2>4, SameSample
    <3>2. QED BY <1>1, <2>2, <2>3, <2>4, <3>1 DEF WaitInv, RiseInv, RoseInv
  <2>5. CASE uss_pc' = "sleep"
    BY <1>1, <2>2, <2>3, <2>5 DEF WaitInv
  <2>6. QED BY <1>4, <2>4, <2>5 DEF PollLow, Measured
<1>5. QED BY <1>3, <1>4 DEF PollLow

\* A wait that has just counted to its end has waited longer than the sensor takes.
LEMMA PollHighWaits == ASSUME UssTypeInv, WaitInv, PollHigh PROVE WaitInv'
<1> USE DEF UssTypeInv
<1>1. /\ RiseInv /\ Polls \in 0 .. Patience /\ uss_pc = "rise" /\ echo = 1
      /\ UNCHANGED <<echo, left, late, faulty, stuck>>
  BY PollsIs DEF PollHigh, WaitInv, RiseInv, lineVars
<1>2. CASE Exhausted /\ uss_pc' = "sleep"
  <2>1. Polls = Patience
    BY <1>1, <1>2, PollsIs DEF RiseInv
  <2>2. ~(Polls <= 2)
    BY <2>1, UssConstants
  <2>3. left = Never
    BY <1>1, <2>2 DEF RiseInv
  <2>4. QED BY <1>1, <1>2, <2>3 DEF WaitInv
<1>3. CASE uss_pc' = "rose" /\ UNCHANGED samples
  <2>1. Current' = Current /\ OnTime' = OnTime
    BY <1>1, <1>3, SameSample DEF OnTime
  <2>2. QED BY <1>1, <1>3, <2>1 DEF WaitInv, RiseInv, RoseInv, Lasts
<1>4. QED BY <1>2, <1>3 DEF PollHigh, Measured

LEMMA RoseWaits == ASSUME UssTypeInv, WaitInv, Rose PROVE WaitInv'
<1> USE DEF UssTypeInv
<1>1. /\ RoseInv /\ phase \in {1, 2} /\ uss_pc' = "fall" /\ phase' = phase
      /\ UNCHANGED <<echo, left, samples, late, faulty, stuck>>
      /\ start' = timer /\ timer' = timer
  BY RangingAssumption DEF Rose, WaitInv, lineVars, windowVars, UssTypes
<1>2. timeout' \in 0 .. Patience /\ Polls' = 0
  BY <1>1, UssConstants DEF Rose, Timeout0, Polls
<1>3. Elapsed' = 0
  <2>1. timer - timer = 0 /\ 0 \in 0 .. Wrap - 1
    BY UssConstants DEF UssTypes
  <2>2. QED BY <1>1, <2>1, Modulo DEF Elapsed
<1>4. Current' = Current /\ OnTime' = OnTime /\ left \in Nat
  BY <1>1, SameSample DEF OnTime, UssTypes
<1>5. left' + Polls' = left
  BY <1>1, <1>2, <1>4
<1>6. (left # Never => echo' = 1 /\ Lasts(left + Polls)')
  BY <1>1, <1>4, <1>5 DEF RoseInv, Lasts
<1>7. QED BY <1>1, <1>2, <1>3, <1>4, <1>6 DEF WaitInv, RoseInv, FallInv

LEMMA PollFallWaits == ASSUME UssTypeInv, WaitInv, PollFall PROVE WaitInv'
<1> USE DEF UssTypeInv
<1>1. /\ FallInv /\ Polls \in 0 .. Patience /\ uss_pc = "fall" /\ left \in Nat
      /\ phase' = phase /\ start' = start /\ UNCHANGED <<late, faulty, stuck>>
  BY PollsIs DEF PollFall, WaitInv, FallInv, UssTypes
<1>2. Patience \in Nat /\ \A e \in Echoes : e \in Nat /\ 0 < e /\ e < Patience
  BY UssConstants
<1>3. CASE /\ echo = 1 /\ ~Exhausted /\ timeout' = Count /\ Tick
           /\ UNCHANGED <<uss_pc, samples>>
  <2>1. /\ timeout' \in 0 .. Patience /\ Polls' = Polls + 1
        /\ OnTime' = OnTime /\ Current' = Current
    BY <1>1, <1>3, PollsIs, SameSample DEF FallInv, OnTime
  <2>2. CASE left = Never /\ UNCHANGED <<echo, left>>
    <3>1. Current \in faulty /\ stuck
      BY <1>1, <1>3, <2>2 DEF WaitInv, FallInv
    <3>2. QED BY <1>1, <1>3, <2>1, <2>2, <3>1 DEF WaitInv, FallInv
  <2>3. ASSUME left # Never, OnTime PROVE Elapsed' = Polls + 1 /\ left + Polls \in Echoes
    <3>1. PICK e \in Echoes : left + Polls = e
      BY <1>1, <2>3 DEF FallInv, Lasts
    <3>2. Elapsed = Polls
      BY <1>1, <2>3 DEF FallInv
    <3>3. left > 0
      BY <1>1, <2>3 DEF Never
    <3>4. Polls + 1 <= e /\ e < Patience
      BY <1>1, <1>2, <3>1, <3>3
    <3>5. Elapsed + 1 < Wrap
      BY <1>1, <1>2, <3>2, <3>4, UssConstants
    <3>6. QED BY <1>1, <1>3, <3>1, <3>2, <3>5, TimeGoesOn
  <2>4. CASE left > 1 /\ left' = left - 1 /\ UNCHANGED echo
    <3>1. left' + Polls' = left + Polls
      BY <1>1, <1>2, <2>1, <2>4
    <3>2. left' # Never /\ left # Never
      BY <1>1, <2>4 DEF Never
    <3>3. Lasts(left + Polls)
      BY <1>1, <3>2 DEF FallInv
    <3>4. Lasts(left + Polls)'
      BY <2>1, <3>1, <3>3 DEF Lasts
    <3>5. OnTime' => Elapsed' = Polls'
      BY <2>1, <2>3, <3>2
    <3>6. QED BY <1>1, <1>3, <2>1, <2>4, <3>2, <3>4, <3>5 DEF WaitInv, FallInv
  <2>5. CASE left = 1 /\ echo' = 0 /\ left' = Never
    <3>1. left # Never
      BY <2>5 DEF Never
    <3>2. OnTime => Polls' \in Echoes /\ Elapsed' \in Echoes
      <4>1. left + Polls = Polls + 1
        BY <1>1, <1>2, <2>5
      <4>2. QED BY <2>1, <2>3, <3>1, <4>1
    <3>3. Current' \in faulty' \/ (echo' = 0 /\ Polls' \in Echoes /\ Elapsed' \in Echoes)
      BY <1>1, <2>1, <2>5, <3>2 DEF OnTime
    <3>4. late' = 0 /\ ~stuck' => Elapsed' \in {0} \cup Echoes
      BY <1>1, <3>2 DEF OnTime
    <3>5. QED BY <1>1, <1>3, <2>1, <2>5, <3>3, <3>4 DEF WaitInv, FallInv
  <2>6. QED BY <1>3, <2>2, <2>4, <2>5 DEF Tick
<1>4. CASE ~(echo = 1 /\ ~Exhausted)
  <2>1. uss_pc' = "sleep" /\ UNCHANGED <<echo, left>>
    BY <1>4 DEF PollFall, Measured, lineVars
  <2>2. ASSUME left # Never PROVE FALSE
    <3>1. echo = 1 /\ Exhausted
      BY <1>1, <1>4, <2>2 DEF FallInv
    <3>2. Polls = Patience
      BY <1>1, <3>1, PollsIs DEF FallInv
    <3>3. PICK e \in Echoes : left + Polls <= e
      BY <1>1, <2>2 DEF FallInv, Lasts
    <3>4. QED BY <1>1, <1>2, <3>2, <3>3
  <2>3. left = Never
    BY <2>2
  <2>4. QED BY <1>1, <2>1, <2>3 DEF WaitInv
<1>5. QED BY <1>3, <1>4 DEF PollFall

LEMMA SleepWaits == ASSUME UssTypeInv, WaitInv, Sleep PROVE WaitInv'
<1>1. left' = Never /\ uss_pc' = "trigger"
  BY DEF Sleep
<1>2. ASSUME echo' = 1 PROVE stuck'
  <2>1. CASE Len(samples) < Samples
    <3>1. stuck' = stuck
      BY <2>1 DEF Sleep, windowVars
    <3>2. QED BY <1>2, <3>1 DEF Sleep
  <2>2. CASE ~(Len(samples) < Samples)
    <3>1. stuck' = (echo' = 1)
      BY <2>2 DEF Sleep
    <3>2. QED BY <1>2, <3>1
  <2>3. QED BY <2>1, <2>2
<1>3. QED BY <1>1, <1>2 DEF WaitInv

LEMMA UssNextWaits == UssTypeInv /\ WaitInv /\ [UssNext]_ussVars => WaitInv'
<1> SUFFICES ASSUME UssTypeInv, WaitInv, [UssNext]_ussVars PROVE WaitInv'
  OBVIOUS
<1>1. CASE UNCHANGED ussVars
  BY <1>1 DEF ussVars, lineVars, windowVars, WaitInv, RiseInv, RoseInv, FallInv, Lasts,
     OnTime, Current, Polls, Elapsed
<1>2. QED
  BY <1>1, LateWaits, StickWaits, TriggerWaits, PollLowWaits, PollHighWaits, RoseWaits,
     PollFallWaits, SleepWaits DEF UssNext, TaskStep

LEMMA WaitInvariance == UssSpec => []WaitInv
<1>1. UssInit => WaitInv
  BY DEF UssInit, WaitInv, Never
<1>2. QED BY <1>1, UssNextWaits, UssTypeInvariance, PTL DEF UssSpec

-----------------------------------------------------------------------------
(* The samples                                                             *)

\* A sample that is not faulty is a good echo's; if nothing was late or stuck,
\* none is longer than one.
GoodOrFaulty == \A k \in 1 .. Len(samples) : k \in faulty \/ samples[k] \in Echoes
ShortIfMute ==
  late = 0 /\ ~stuck => \A k \in 1 .. Len(samples) : samples[k] \in {0} \cup Echoes
SampleInv == faulty \subseteq 1 .. Samples /\ GoodOrFaulty /\ ShortIfMute

\* What a measurement adds.
LEMMA MeasuredAdds ==
  ASSUME UssTypeInv, SampleInv, NEW d \in 0 .. Wrap - 1, Measured(d),
         UNCHANGED <<late, faulty, stuck>>,
         Current \in faulty \/ d \in Echoes,
         late = 0 /\ ~stuck => d \in {0} \cup Echoes
  PROVE  SampleInv'
<1>1. samples \in Seq(0 .. Wrap - 1) /\ samples' = Append(samples, d)
  BY DEF UssTypeInv, UssTypes, Measured
<1>2. /\ Len(samples') = Current /\ Len(samples) \in Nat /\ samples'[Current] = d
      /\ \A k \in 1 .. Len(samples) : samples'[k] = samples[k]
  BY <1>1 DEF Current
<1>3. \A k \in 1 .. Len(samples') : k = Current \/ k \in 1 .. Len(samples)
  BY <1>2 DEF Current
<1>4. GoodOrFaulty'
  BY <1>2, <1>3 DEF GoodOrFaulty, SampleInv
<1>5. ShortIfMute'
  BY <1>2, <1>3 DEF ShortIfMute, SampleInv
<1>6. QED BY <1>4, <1>5 DEF SampleInv

LEMMA FallSamples == ASSUME UssTypeInv, WaitInv, SampleInv, PollFall PROVE SampleInv'
<1>1. FallInv /\ UNCHANGED <<late, faulty, stuck>> /\ Polls \in 0 .. Patience
  BY PollsIs DEF PollFall, WaitInv, FallInv, UssTypeInv
<1>2. CASE UNCHANGED samples
  BY <1>1, <1>2 DEF SampleInv, GoodOrFaulty, ShortIfMute
<1>3. CASE Measured(Duration) /\ ~(echo = 1 /\ ~Exhausted)
  <2>1. left = Never
    <3>1. ASSUME left # Never PROVE FALSE
      <4>1. echo = 1 /\ Exhausted
        BY <1>1, <1>3, <3>1 DEF FallInv
      <4>2. Polls = Patience
        BY <1>1, <4>1, PollsIs DEF FallInv, UssTypeInv
      <4>3. PICK e \in Echoes : left + Polls <= e
        BY <1>1, <3>1 DEF FallInv, Lasts
      <4>4. left \in Nat /\ e \in Nat /\ e < Patience
        BY UssConstants DEF UssTypeInv, UssTypes
      <4>5. QED BY <4>2, <4>3, <4>4, UssConstants
    <3>2. QED BY <3>1
  <2>2. Current \in faulty \/ Duration \in Echoes
    <3>1. ASSUME Current \notin faulty PROVE Duration \in Echoes
      <4>1. echo = 0 /\ Polls \in Echoes /\ Elapsed \in Echoes
        BY <1>1, <2>1, <3>1 DEF FallInv
      <4>2. Polls # Patience
        BY <4>1, UssConstants
      <4>3. ~Exhausted
        BY <1>1, <4>2, PollsIs DEF FallInv, UssTypeInv
      <4>4. QED BY <4>1, <4>3 DEF Duration, Elapsed
    <3>2. QED BY <3>1
  <2>3. late = 0 /\ ~stuck => Duration \in {0} \cup Echoes
    BY <1>1, <2>1 DEF FallInv, Duration, Elapsed
  <2>4. Duration \in 0 .. Wrap - 1
    BY DurationType DEF UssTypeInv
  <2>5. PICK d \in 0 .. Wrap - 1 : d = Duration
    BY <2>4
  <2>6. QED BY <1>1, <1>3, <2>2, <2>3, <2>5, MeasuredAdds
<1>4. QED BY <1>2, <1>3 DEF PollFall

LEMMA RiseSamples ==
  ASSUME UssTypeInv, WaitInv, SampleInv, PollLow \/ PollHigh PROVE SampleInv'
<1>1. RiseInv /\ UNCHANGED <<late, faulty, stuck>> /\ Polls \in 0 .. Patience
  BY PollsIs DEF PollLow, PollHigh, WaitInv, RiseInv, UssTypeInv
<1>2. CASE UNCHANGED samples
  BY <1>1, <1>2 DEF SampleInv, GoodOrFaulty, ShortIfMute
<1>3. CASE Measured(0) /\ Exhausted
  <2>1. Polls = Patience
    BY <1>1, <1>3, PollsIs DEF RiseInv, UssTypeInv
  <2>2. left \in Nat /\ echo \in {0, 1}
    BY DEF UssTypeInv, UssTypes
  <2>3. ASSUME left # Never PROVE FALSE
    <3>1. CASE echo = 0
      <4>1. left + Polls <= 2
        BY <1>1, <2>3, <3>1 DEF RiseInv
      <4>2. QED BY <2>1, <2>2, <4>1, UssConstants
    <3>2. CASE echo = 1
      <4>1. Polls <= 2
        BY <1>1, <2>3, <3>2 DEF RiseInv
      <4>2. QED BY <2>1, <4>1, UssConstants
    <3>3. QED BY <2>2, <3>1, <3>2
  <2>4. Current \in faulty
    BY <1>1, <2>3 DEF RiseInv
  <2>5. 0 \in 0 .. Wrap - 1 /\ 0 \in {0} \cup Echoes
    BY UssConstants
  <2>6. QED BY <1>1, <1>3, <2>4, <2>5, MeasuredAdds
<1>4. QED BY <1>2, <1>3 DEF PollLow, PollHigh

LEMMA UssNextSamples ==
  UssTypeInv /\ WaitInv /\ SampleInv /\ [UssNext]_ussVars => SampleInv'
<1> SUFFICES ASSUME UssTypeInv, WaitInv, SampleInv, [UssNext]_ussVars PROVE SampleInv'
  OBVIOUS
<1> USE DEF SampleInv, GoodOrFaulty, ShortIfMute
<1>1. CASE Late
  <2>1. Current \in 1 .. Samples /\ late' # 0
    BY <1>1, CurrentIs DEF Late, UssTypeInv, UssTypes
  <2>2. QED BY <1>1, <2>1 DEF Late
<1>2. CASE Stick
  <2>1. Current \in 1 .. Samples
    BY <1>2, CurrentIs DEF Stick, WaitInv
  <2>2. QED BY <1>2, <2>1 DEF Stick
<1>3. CASE Trigger
  <2>1. Current \in 1 .. Samples
    BY <1>3, CurrentIs DEF Trigger
  <2>2. faulty' \in {faulty, faulty \cup {Current}} /\ UNCHANGED <<samples, late, stuck>>
    BY <1>3 DEF Trigger
  <2>3. QED BY <2>1, <2>2
<1>4. CASE Rose
  BY <1>4 DEF Rose, windowVars
<1>5. CASE Sleep
  <2>1. CASE UNCHANGED windowVars
    BY <2>1 DEF windowVars
  <2>2. CASE samples' = <<>> /\ faulty' = {}
    <3>1. Len(samples') = 0
      BY <2>2
    <3>2. QED BY <2>2, <3>1
  <2>3. QED BY <1>5, <2>1, <2>2 DEF Sleep
<1>6. CASE UNCHANGED ussVars
  BY <1>6 DEF ussVars, windowVars
<1>7. QED BY <1>1, <1>2, <1>3, <1>4, <1>5, <1>6, RiseSamples, FallSamples DEF UssNext, TaskStep

LEMMA SampleInvariance == UssSpec => []SampleInv
<1>1. UssInit => SampleInv
  BY DEF UssInit, SampleInv, GoodOrFaulty, ShortIfMute
<1>2. QED BY <1>1, UssNextSamples, UssTypeInvariance, WaitInvariance, PTL DEF UssSpec

\* Every variable keeps its type; a wait that is given up leaves phase 1's
\* counter wrapped around, within its width (uss.c:32-33 of phase 1).
THEOREM UssTypeCorrect == UssSpec => []UssTypeOK
<1>1. UssTypeInv /\ SampleInv => UssTypeOK
  BY DEF UssTypeInv, UssTypes, SampleInv, UssTypeOK
<1>2. QED BY <1>1, UssTypeInvariance, SampleInvariance, PTL

-----------------------------------------------------------------------------
(* What is published                                                       *)

NatLess == {p \in Nat \X Nat : p[1] < p[2]}

LEMMA NatLessWF == IsWellFoundedOn(NatLess, Nat)
  BY NatLessThanWellFounded DEF OpToRel, NatLess

LEMMA Least ==
  ASSUME NEW S, S \subseteq Nat, S # {}
  PROVE  \E x \in S : \A y \in S : x <= y
<1>1. PICK x \in S : \A y \in S : ~(<<y, x>> \in NatLess)
  BY NatLessWF, WFMin
<1>2. ASSUME NEW y \in S PROVE x <= y
  <2>1. ~(<<y, x>> \in NatLess)
    BY <1>1
  <2>2. x \in Nat /\ y \in Nat /\ <<y, x>> \in Nat \X Nat
    OBVIOUS
  <2>3. QED BY <2>1, <2>2 DEF NatLess
<1>3. QED BY <1>2

\* There are a longest and a shortest echo.
LEMMA Extremes ==
  /\ Nearest \in Echoes /\ \A e \in Echoes : Nearest <= e
  /\ Farthest \in Echoes /\ \A e \in Echoes : e <= Farthest
<1>1. \A e \in Echoes : e \in Nat /\ e < Patience
  BY UssConstants
<1>2. PICK x \in Echoes : \A e \in Echoes : x <= e
  BY <1>1, UssConstants, Least
<1>3. PICK y \in Echoes : \A e \in Echoes : e <= y
  <2> DEFINE Short == {n \in Nat : \E e \in Echoes : n = Patience - e}
  <2>1. \A e \in Echoes : Patience - e \in Short
    BY <1>1, UssConstants
  <2>2. Short \subseteq Nat /\ Short # {}
    BY <2>1, UssConstants
  <2>3. PICK n \in Short : \A m \in Short : n <= m
    BY <2>2, Least
  <2>4. PICK e \in Echoes : n = Patience - e
    BY <2>3
  <2>5. ASSUME NEW f \in Echoes PROVE f <= e
    <3>1. n <= Patience - f
      BY <2>1, <2>3
    <3>2. QED BY <1>1, <2>4, <3>1, UssConstants
  <2>6. QED BY <2>5
<1>4. QED BY <1>2, <1>3 DEF Nearest, Farthest

LEMMA PublishesMedian ==
  ASSUME UssTypeInv, WaitInv, UssNext, Publishes
  PROVE  /\ shared_distance' = Median(samples)
         /\ samples \in Seq(Nat) /\ Len(samples) = Samples /\ Samples \in Nat \ {0}
<1>1. Len(samples) = Samples /\ Samples \in Nat \ {0} /\ uss_pc = "sleep"
  BY UssConstants DEF Publishes
<1>2. Sleep
  <2>1. left = Never
    BY <1>1 DEF WaitInv
  <2>2. ~Late /\ ~Stick /\ ~Trigger /\ ~Rose
    BY <1>1, <2>1 DEF Late, Stick, Trigger, Rose
  <2>3. ~PollLow /\ ~PollHigh /\ ~PollFall
    BY <1>1 DEF PollLow, PollHigh, PollFall
  <2>4. QED BY <2>2, <2>3 DEF UssNext, TaskStep
<1>3. samples \in Seq(Nat)
  <2>1. samples \in Seq(0 .. Wrap - 1)
    BY DEF UssTypeInv, UssTypes
  <2>2. \A k \in 1 .. Len(samples) : samples[k] \in 0 .. Wrap - 1
    BY ONLY <2>1, Elements
  <2>3. \A k \in 1 .. Len(samples) : samples[k] \in Nat
    BY <2>2
  <2>4. QED BY <2>1, <2>3
<1>4. QED BY <1>1, <1>2, <1>3 DEF Sleep

\* The middle of the sorted window hides faults (uss.c:74-75 of phase 1,
\* :135-136 of phase 2): while less than half of the samples are held up, lost
\* or stuck, the distance published lies between those of good echoes, for any
\* number of samples, echoes and polls.
THEOREM FewFaultsAreHidden == UssSpec => FaultsAreHidden
<1>1. UssTypeInv /\ WaitInv /\ SampleInv /\ [UssNext]_ussVars =>
        [Publishes /\ 2 * Cardinality(faulty) < Samples =>
           shared_distance' \in Nearest .. Farthest]_ussVars
  <2> SUFFICES ASSUME UssTypeInv, WaitInv, SampleInv, UssNext, Publishes,
                      2 * Cardinality(faulty) < Samples
               PROVE  shared_distance' \in Nearest .. Farthest
    OBVIOUS
  <2>1. /\ shared_distance' = Median(samples) /\ samples \in Seq(Nat)
        /\ Len(samples) = Samples /\ Samples \in Nat \ {0}
    BY PublishesMedian
  <2>2. \A e \in Echoes : e \in Nat
    BY UssConstants
  <2>3. Nearest \in Nat /\ Farthest \in Nat
    BY <2>2, Extremes
  <2>4. \A k \in (1 .. Len(samples)) \ faulty : samples[k] \in Nearest .. Farthest
    <3>1. \A e \in Echoes : e \in Nearest .. Farthest
      BY <2>2, <2>3, Extremes
    <3>2. QED BY <3>1 DEF SampleInv, GoodOrFaulty
  <2>5. faulty \in SUBSET (1 .. Len(samples))
    BY <2>1 DEF SampleInv
  <2>6. QED BY <2>1, <2>3, <2>4, <2>5, MedianHides
<1>2. QED
  BY <1>1, UssTypeInvariance, WaitInvariance, SampleInvariance, PTL DEF UssSpec, FaultsAreHidden

\* A sensor that does not answer never makes the road look freer than it is
\* (uss.c:31-33 of phase 1, :76-85 of phase 2), whatever the counter of the
\* wait is left at.
THEOREM MuteNeverLooksFree == UssSpec => MuteIsNeverFar
<1>1. UssTypeInv /\ WaitInv /\ SampleInv /\ [UssNext]_ussVars =>
        [Publishes /\ late = 0 /\ ~stuck => shared_distance' <= Farthest]_ussVars
  <2> SUFFICES ASSUME UssTypeInv, WaitInv, SampleInv, UssNext, Publishes, late = 0, ~stuck
               PROVE  shared_distance' <= Farthest
    OBVIOUS
  <2>1. /\ shared_distance' = Median(samples) /\ samples \in Seq(Nat)
        /\ Len(samples) = Samples /\ Samples \in Nat \ {0}
    BY PublishesMedian
  <2>2. PICK i \in 1 .. Len(samples) : Median(samples) = samples[i]
    BY <2>1, MedianIs
  <2>3. samples[i] \in {0} \cup Echoes
    BY DEF SampleInv, ShortIfMute
  <2>4. 0 <= Farthest
    BY Extremes, UssConstants
  <2>5. QED BY <2>1, <2>2, <2>3, <2>4, Extremes
<1>2. QED
  BY <1>1, UssTypeInvariance, WaitInvariance, SampleInvariance, PTL DEF UssSpec, MuteIsNeverFar
=============================================================================
