--------------------------------- MODULE Pwm ---------------------------------
(***************************************************************************)
(* The pulses that steer and drive the car.                                *)
(*                                                                         *)
(*   servo   phase 2: SG90_SetAngle (lfa.c) disables the channel, waits    *)
(*           until it is idle, gives it a new pulse and enables it.  LFA   *)
(*           calls it every 100 ms; Main, of the same priority, calls it   *)
(*           to center the wheel and then suspends LFA.  Nothing keeps the *)
(*           two calls apart, and both sleep in them.                      *)
(*   motor   phase 2: SPEED calls Motor_SetPWM (speed.c), the same steps   *)
(*           with a wait that has no end of its own                        *)
(*   timer   phase 1: SPD writes the compare register of a running timer   *)
(*                                                                         *)
(* They share nothing, so a behaviour is about one of them, ch.  The tasks *)
(* that change current_speed are more urgent than SPEED and SPD: it may    *)
(* change between any two of their steps.  The servo's calls see it stand  *)
(* still: LFA's angles are 0, 90 and 180 degrees.                          *)
(*                                                                         *)
(* Main's choice between resuming and suspending LFA is in Modes2; here it *)
(* may choose either.  Waits is the 101 rounds after which SG90_SetAngle   *)
(* waits no longer.  History: made, some call has disabled the channel;    *)
(* stale, how often the motor was given a drive since the car stopped.     *)
(*                                                                         *)
(* Definitions named Mut... are plausible mistakes in the definition that  *)
(* follows; the project substitutes them to see the properties fail.       *)
(***************************************************************************)
EXTENDS Naturals

CONSTANTS Offsets,  \* the offsets the lane detection sends
          Waits,    \* the rounds a call of SG90_SetAngle waits for the channel
          Speeds    \* the speeds of the car; MAX_speed is 200

ASSUME PwmAssumption ==
  /\ Offsets \subseteq {0, 50, 100, 150, 200} /\ Waits \in Nat \ {0}
  /\ Speeds \subseteq 0 .. 200

Channel == {"servo", "motor", "timer"}
Caller == {"lfa", "main", "speed"}
Deg == {0, 90, 180}
Labels == {"out", "compute", "disable", "poll", "config", "enable"}

VARIABLES
  ch,                       \* the channel the behaviour is about
  st,                       \* of lfa: "ready", "delayed" or "suspended"
  look,                     \* where Main is: "look", "offset", "suspend"
  pc, duty, wait_cnt,       \* each caller's call; duty is the servo's angle
                            \* or the motor's percentage
  on, busy, pulse,          \* the channel: enabled, not yet idle, its duty
  angle, offset_val,
  current_speed, made, stale

lfaVars == <<st, look, angle, offset_val>>
callVars == <<pc, duty, wait_cnt>>
chanVars == <<on, busy, pulse>>
carVars == <<ch, current_speed>>
vars == <<lfaVars, callVars, chanVars, carVars, made, stale>>

\* Off: the channel was never enabled.  Phase 1's timer runs from the start.
Init ==
  /\ ch \in Channel
  /\ st = "suspended" /\ look = "look" /\ angle = 0 /\ offset_val = 50
  /\ pc = [c \in Caller |-> "out"]
  /\ duty = [c \in Caller |-> 0] /\ wait_cnt = [c \in Caller |-> 0]
  /\ on = (ch = "timer") /\ busy = FALSE /\ pulse = 0
  /\ current_speed = 0 /\ made = FALSE /\ stale = 0

\* Main is always ready to run, LFA unless it sleeps or is suspended; SPEED and
\* SPD run when their sleeps end.
Runs(c) == CASE c = "lfa"  -> ch = "servo" /\ st = "ready"
             [] c = "main" -> ch = "servo"
             [] OTHER      -> ch # "servo"
Step(c, l, m) == Runs(c) /\ pc[c] = l /\ pc' = [pc EXCEPT ![c] = m]

\* The channel's duty becomes d.  A drive for a standing car is counted, up to
\* TwiceOrMore.
TwiceOrMore == 2
Gives(d) ==
  /\ pulse' = d
  /\ stale' = IF ch # "servo" /\ d > 0 /\ current_speed = 0 /\ stale < TwiceOrMore
              THEN stale + 1 ELSE stale

-----------------------------------------------------------------------------
(* SG90_SetAngle, lfa.c:15-48, and Motor_SetPWM, speed.c:6-29              *)

\* A call of c, which is at l, with the duty d.
Call(c, l, d) ==
  /\ Step(c, l, "disable")
  /\ duty' = [duty EXCEPT ![c] = d]
  /\ wait_cnt' = [wait_cnt EXCEPT ![c] = 0]

\* PDM_Disable stops the pulses; the channel may need some time to be idle.
Disable(c) ==
  /\ Step(c, "disable", "poll")
  /\ on' = FALSE /\ busy' = (on \/ busy) /\ made' = TRUE
  /\ UNCHANGED <<lfaVars, duty, wait_cnt, pulse, carVars, stale>>

\* The wait: Waits rounds at most for the servo, without an end for the motor;
\* and the mutant that waits without an end for both.
MutEnough(c) == ~busy
Enough(c) == ~busy \/ (ch = "servo" /\ wait_cnt[c] = Waits)

\* The loop of lfa.c:40-44 and speed.c:25: sleep 1 ms while the channel is busy.
\* Main's sleep lets LFA run; LFA's sleep is one of its own.
Poll(c) ==
  \/ /\ Enough(c) /\ Step(c, "poll", "config")
     /\ UNCHANGED <<lfaVars, duty, wait_cnt, chanVars, carVars, made, stale>>
  \/ /\ ~Enough(c) /\ Step(c, "poll", "poll")
     /\ wait_cnt' = [wait_cnt EXCEPT ![c] = IF @ < Waits THEN @ + 1 ELSE @]
     /\ st' = IF c = "lfa" THEN "delayed" ELSE st
     /\ UNCHANGED <<look, angle, offset_val, duty, chanVars, carVars, made, stale>>

\* PDM_SetConfig
Config(c) ==
  /\ Step(c, "config", "enable")
  /\ Gives(duty[c])
  /\ UNCHANGED <<lfaVars, duty, wait_cnt, on, busy, carVars, made>>

\* PDM_Enable, and the mutant that leaves the channel off if it was busy to
\* the end.
MutEnable(c) ==
  /\ Step(c, "enable", "out")
  /\ on' = ~busy /\ busy' = FALSE
  /\ UNCHANGED <<lfaVars, duty, wait_cnt, pulse, carVars, made, stale>>
Enable(c) ==
  /\ Step(c, "enable", "out")
  /\ on' = TRUE /\ busy' = FALSE
  /\ UNCHANGED <<lfaVars, duty, wait_cnt, pulse, carVars, made, stale>>

Sets(c) == Disable(c) \/ Poll(c) \/ Config(c) \/ Enable(c)

\* The channel becomes idle, or never does.
Idle ==
  /\ busy /\ busy' = FALSE
  /\ UNCHANGED <<lfaVars, callVars, on, pulse, carVars, made, stale>>

-----------------------------------------------------------------------------
(* LFA_Task, lfa.c:50-76                                                   *)

\* lfa.c:66-70: the offset is turned into an angle, clamped to 0 .. 180.
Steered ==
  CASE offset_val = 0 -> 0 [] offset_val = 50 -> 90 [] offset_val = 100 -> 180
    [] OTHER -> angle

LfaSteers ==
  /\ Call("lfa", "out", Steered)
  /\ angle' = Steered
  /\ UNCHANGED <<st, look, offset_val, chanVars, carVars, made, stale>>

\* The end of an iteration and of a sleep.
LfaSleeps ==
  /\ st = "ready" /\ pc["lfa"] = "out"
  /\ st' = "delayed"
  /\ UNCHANGED <<look, angle, offset_val, callVars, chanVars, carVars, made, stale>>
LfaWakes ==
  /\ st = "delayed"
  /\ st' = "ready"
  /\ UNCHANGED <<look, angle, offset_val, callVars, chanVars, carVars, made, stale>>

\* The lane detection's message, w5500_port.c:558.
LaneReceived(o) ==
  /\ ch = "servo"
  /\ offset_val' = o
  /\ UNCHANGED <<st, look, angle, callVars, chanVars, carVars, made, stale>>

-----------------------------------------------------------------------------
(* Main_StartTask, main.c:229-237                                          *)

MainResumes ==
  /\ ch = "servo" /\ look = "look" /\ pc["main"] = "out"
  /\ st' = IF st = "suspended" THEN "ready" ELSE st
  /\ UNCHANGED <<look, angle, offset_val, callVars, chanVars, carVars, made, stale>>

MainCenters ==
  /\ look = "look" /\ Call("main", "out", 90)
  /\ look' = "offset"
  /\ UNCHANGED <<st, angle, offset_val, chanVars, carVars, made, stale>>

MainOffset ==
  /\ look = "offset" /\ pc["main"] = "out"
  /\ offset_val' = 50 /\ look' = "suspend"
  /\ UNCHANGED <<st, angle, callVars, chanVars, carVars, made, stale>>

MainSuspends ==
  /\ look = "suspend"
  /\ st' = "suspended" /\ look' = "look"
  /\ UNCHANGED <<angle, offset_val, callVars, chanVars, carVars, made, stale>>

-----------------------------------------------------------------------------
(* SPEED_Task of phase 2, speed.c:65-86, and StartSPDTask of phase 1       *)

\* The drive of a standing car, and the mutant without the test of speed.c:75.
MutStanding == 20
Standing == 0

\* The drive of a moving car, and the mutant with the quotient in
\* parentheses of its own.  It is at most 100: the limit of speed.c:8 is never
\* reached.
MutMoving == 20 + current_speed * (80 \div 200)
Moving == 20 + (current_speed * 80) \div 200

\* Motor_Forward: phase 2 begins the call, phase 1 is done at once.
Forward(l, d) ==
  \/ /\ ch = "motor" /\ Call("speed", l, d)
     /\ UNCHANGED <<pulse, stale>>
  \/ /\ ch = "timer" /\ Step("speed", l, "out")
     /\ Gives(d)
     /\ UNCHANGED <<duty, wait_cnt>>

\* The speed is looked at and, when the car moves, read again.
SpeedStands ==
  /\ current_speed = 0 /\ Forward("out", Standing)
  /\ UNCHANGED <<lfaVars, on, busy, carVars, made>>
SpeedMoves ==
  /\ current_speed # 0 /\ Step("speed", "out", "compute")
  /\ UNCHANGED <<lfaVars, duty, wait_cnt, chanVars, carVars, made, stale>>
SpeedComputes ==
  /\ Forward("compute", Moving)
  /\ UNCHANGED <<lfaVars, on, busy, carVars, made>>

SpeedStep == Sets("speed") \/ SpeedStands \/ SpeedMoves \/ SpeedComputes

\* Pedals, cruise control and emergency stop change the car's speed.
CarSpeeds(s) ==
  /\ ch # "servo" /\ s # current_speed
  /\ current_speed' = s /\ stale' = 0
  /\ UNCHANGED <<lfaVars, callVars, chanVars, ch, made>>

-----------------------------------------------------------------------------
Next ==
  \/ \E c \in Caller : Sets(c)
  \/ Idle \/ LfaSteers \/ LfaSleeps \/ LfaWakes
  \/ \E o \in Offsets : LaneReceived(o)
  \/ MainResumes \/ MainCenters \/ MainOffset \/ MainSuspends
  \/ SpeedStands \/ SpeedMoves \/ SpeedComputes
  \/ \E s \in Speeds : CarSpeeds(s)

Spec == Init /\ [][Next]_vars

\* Main and the motors' tasks run on: their sleeps end and nothing suspends
\* them.  The channel need not become idle.
FairSpec ==
  /\ Spec
  /\ WF_vars(Sets("main") \/ MainOffset \/ MainSuspends)
  /\ WF_vars(SpeedStep)

-----------------------------------------------------------------------------
\* The type of every variable.
TypeOK ==
  /\ ch \in Channel
  /\ st \in {"ready", "delayed", "suspended"} /\ look \in {"look", "offset", "suspend"}
  /\ pc \in [Caller -> Labels] /\ duty \in [Caller -> 0 .. 180]
  /\ wait_cnt \in [Caller -> 0 .. Waits]
  /\ on \in BOOLEAN /\ busy \in BOOLEAN /\ pulse \in 0 .. 180
  /\ angle \in Deg /\ offset_val \in {0, 50, 100, 150, 200}
  /\ current_speed \in 0 .. 200 /\ made \in BOOLEAN /\ stale \in 0 .. TwiceOrMore

\* However Main's and LFA's calls overlap, and whichever of them LFA is
\* suspended in (lfa.c:38-47, main.c:234-236), the channel has pulses again
\* once both have ended.
Out == \A c \in Caller : pc[c] = "out"
PulsesWhenOut == Out /\ made => on

\* A channel that never becomes idle does not hold Main (lfa.c:40-44): when it
\* has begun to center the wheel it goes on to suspend LFA.
MainGoesOn == look = "offset" ~> look = "look"

\* The car may stop between the two reads of its speed (speed.c:75, 79), or while
\* the channel is waited for (speed.c:25): the motor of a standing car is then
\* given a drive, but only once.
StaleDriveAtMostOnce == stale <= 1

\* A motor whose channel becomes idle again and again ends with the drive of the
\* speed that stays, 0 for a standing car, and gets its pulses.
DriveOf(s) == IF s = 0 THEN 0 ELSE 20 + (2 * s) \div 5
MotorFollows ==
  \A s \in Speeds :
    ch # "servo" /\ []<>~busy /\ <>[](current_speed = s)
      => <>[](pulse = DriveOf(s)) /\ []<>on
=============================================================================
