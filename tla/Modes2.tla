------------------------------- MODULE Modes2 -------------------------------
(***************************************************************************)
(* How the phase 2 controller turns its functions on and off.  Console     *)
(* keys, the cruise task and the emergency stop write flags; Main, every   *)
(* 100 ms, compares each flag with the value it saw before and resumes or  *)
(* suspends the task the flag stands for.                                  *)
(*                                                                         *)
(*   mcb   (mcb.c)   most urgent   clears the flags, holds the pedals,     *)
(*                                 brakes until the car stands             *)
(*   scc   (scc.c)   next          cruise control; a pressed pedal makes   *)
(*                                 it clear its own flag                   *)
(*   pedal (pedal.c) same as scc   abstract here: it moves or stops the    *)
(*                                 car, only stops it when the pedals are  *)
(*                                 held, and sets the pressed flags        *)
(*   lfa   (lfa.c)   least urgent  lane following; its steps touch none of *)
(*                                 this state, only whether it is          *)
(*                                 suspended matters                       *)
(*   main  (main.c)  least urgent  this module's subject                   *)
(*                                                                         *)
(* Every read of a volatile flag is a step of its own, so that a key or a  *)
(* more urgent task may change the flag between two reads.  The Ethernet   *)
(* tasks are never created in this build, so lfa_1st_flag, lfa_2nd_flag    *)
(* and offset_val keep their initial values and never forbid anything.     *)
(*                                                                         *)
(* Definitions named Mut... are plausible mistakes in the definition that  *)
(* follows; the project substitutes them to see the properties fail.       *)
(***************************************************************************)
EXTENDS Integers

CONSTANTS Keys,        \* the console keys that may be typed
          Presses,     \* the values the pedals' pressed flags may take
          Anytime,     \* the keys typed at any moment; the others are typed
                       \* only while Main sleeps
          MaxKeys      \* bound on the keys typed in a behaviour

ASSUME Modes2Assumption ==
  /\ Keys \subseteq {"1", "2", "3", "5", "q"}
  /\ Presses \subseteq BOOLEAN
  /\ Anytime \subseteq Keys
  /\ MaxKeys \in Nat

Task == {"mcb", "scc", "main", "lfa"}
Prio == [t \in Task |-> CASE t = "mcb" -> 4 [] t = "scc" -> 2 [] OTHER -> 1]
PedalPrio == 2

INSTANCE Rtos

VARIABLES
  st, pc,
  scc_flag, lfa_flag, dir_flag, mcb_flag,
  lfa_on_flag,             \* lane following was on when the indicator came on
  prev_scc_flag, prev_lfa_flag, prev_dir_flag,   \* Main's locals
  reg,                     \* Main's register in lfa_flag = !lfa_flag
  typed,                   \* how many keys were typed
  wdt,                     \* gWdtStatus: "idle" (INITIALIZED, STOPPED), "running"
  pedal_input_enabled,
  admitted,                \* what the Pedal iteration under way applies
  keyed,                   \* accel_val is key q's
  pressed,                 \* accel_pedal_pressed || brake_pedal_pressed
  moving                   \* current_speed # 0

schedVars == <<st, pc>>
flagVars  == <<scc_flag, lfa_flag, dir_flag, mcb_flag>>
mainVars  == <<lfa_on_flag, prev_scc_flag, prev_lfa_flag, prev_dir_flag, reg>>
carVars   == <<typed, wdt, pedal_input_enabled, admitted, keyed, pressed, moving>>
vars == <<schedVars, flagVars, mainVars, carVars>>

Bit == {0, 1}
Not(b) == 1 - b

\* An uninitialised byte: equal to one of the flag's two values, or to neither.
Junk == 0 .. 2

BootLabels == {"bootMcb", "bootMcbOff", "bootScc", "bootSccOff", "bootLfa",
               "bootLfaOff"}
MainLabels == BootLabels \cup
  {"scc", "sccIf", "sccOn", "sccOff", "sccPrev",
   "dir", "dirIf", "dirOn", "dirOff", "dirSave", "dirBack", "dirStore", "dirPrev",
   "lfa", "lfaIf", "lfaDir", "lfaOn", "lfaCenter", "lfaOff", "lfaPrev",
   "mcb", "wdt", "wdtStart", "resume", "sleep"}
McbLabels == {"loop", "test", "finish", "sleep"}
SccLabels == {"check", "cruise"}

\* Main runs alone; a task that is not created yet counts as suspended.  The
\* three locals of Main_StartTask are declared without an initial value.
Init ==
  /\ st = [t \in Task |-> IF t = "main" THEN "ready" ELSE "suspended"]
  /\ pc = [main |-> "bootMcb", mcb |-> "loop", scc |-> "check"]
  /\ scc_flag = 0 /\ lfa_flag = 0 /\ dir_flag = 0 /\ mcb_flag = 0
  /\ lfa_on_flag = 0
  /\ prev_scc_flag \in Junk /\ prev_lfa_flag \in Junk /\ prev_dir_flag \in Junk
  /\ reg = 0 /\ typed = 0
  /\ wdt = "idle" /\ pedal_input_enabled = TRUE
  /\ admitted = "none" /\ keyed = FALSE /\ pressed = FALSE /\ moving = FALSE

At(t, l) == pc[t] = l /\ Running(st, t)
Goto(t, m) == pc' = [pc EXCEPT ![t] = m]

\* A step of Main from l to m that calls no kernel function, and one that
\* only looks at a flag.
MainStep(l, m) == At("main", l) /\ Goto("main", m) /\ UNCHANGED st
MainLooks(l, m) == MainStep(l, m) /\ UNCHANGED <<flagVars, mainVars, carVars>>

\* A step of Main from l to m that calls the kernel and touches nothing else.
MainCalls(l, m, newst) ==
  /\ At("main", l) /\ Goto("main", m)
  /\ st' = newst
  /\ UNCHANGED <<flagVars, mainVars, carVars>>

-----------------------------------------------------------------------------
(* Interrupts, the pedals, time                                            *)

Asleep == st["main"] = "delayed" /\ pc["main"] = "scc"

\* UART_UserISR and ProcessInput.  Key q writes accel_val whatever the gate says;
\* key w, not modelled, brakes, which the pedals may do at any time.
KeyIsr(k) ==
  /\ k \in Anytime \/ Asleep
  /\ typed < MaxKeys /\ typed' = typed + 1
  /\ scc_flag' = IF k = "1" THEN Not(scc_flag) ELSE scc_flag
  /\ lfa_flag' = IF k = "2" THEN Not(lfa_flag) ELSE lfa_flag
  /\ dir_flag' = IF k = "3" THEN Not(dir_flag) ELSE dir_flag
  /\ mcb_flag' = IF k = "5" THEN 1 ELSE mcb_flag
  /\ keyed' = (keyed \/ k = "q")
  /\ UNCHANGED <<schedVars, mainVars, wdt, pedal_input_enabled, admitted, pressed,
                 moving>>

\* PEDAL_Task, pedal.c:57-93: it reads the pedals and looks whether they act.
PedalReads ==
  /\ Calm(st, PedalPrio) /\ admitted = "none"
  /\ pc["main"] \notin {"bootMcb", "bootMcbOff"}
  /\ admitted' = IF pedal_input_enabled THEN "pedals" ELSE "brake"
  /\ pressed' \in Presses
  /\ UNCHANGED <<schedVars, flagVars, mainVars, typed, wdt, pedal_input_enabled, keyed,
                 moving>>

\* pedal.c:95-110: the speed moves as the pedals want, or, when they were
\* held and key q was not pressed, only down.
PedalMoves ==
  /\ Calm(st, PedalPrio) /\ admitted # "none"
  /\ admitted' = "none" /\ keyed' = FALSE
  /\ moving' \in {m \in BOOLEAN : admitted = "brake" /\ ~keyed /\ m => moving}
  /\ UNCHANGED <<schedVars, flagVars, mainVars, typed, wdt, pedal_input_enabled, pressed>>

Wake(t) ==
  /\ st[t] = "delayed"
  /\ st' = Rouse(st, t)
  /\ UNCHANGED <<pc, flagVars, mainVars, carVars>>

-----------------------------------------------------------------------------
(* MCB_Task                                                                *)

\* Mutant: the pedals are not taken.
MutMcbBrakesOnly ==
  /\ At("mcb", "loop") /\ Goto("mcb", "test")
  /\ scc_flag' = 0 /\ lfa_flag' = 0 /\ dir_flag' = 0
  /\ UNCHANGED <<st, mcb_flag, mainVars, carVars>>

\* mcb.c:16-24
McbBrakes ==
  /\ At("mcb", "loop") /\ Goto("mcb", "test")
  /\ pedal_input_enabled' = FALSE
  /\ scc_flag' = 0 /\ lfa_flag' = 0 /\ dir_flag' = 0
  /\ keyed' = FALSE
  /\ UNCHANGED <<st, mcb_flag, mainVars, typed, wdt, admitted, pressed, moving>>

\* Mutant: the test of the speed is the wrong way round.
MutMcbTestsMoving ==
  /\ At("mcb", "test")
  /\ IF ~moving THEN st' = Delay(st, "mcb") /\ Goto("mcb", "loop")
                ELSE UNCHANGED st /\ Goto("mcb", "finish")
  /\ UNCHANGED <<flagVars, mainVars, carVars>>

\* mcb.c:25, then the sleep of :35 when the car still moves
McbTests ==
  /\ At("mcb", "test")
  /\ IF moving THEN st' = Delay(st, "mcb") /\ Goto("mcb", "loop")
               ELSE UNCHANGED st /\ Goto("mcb", "finish")
  /\ UNCHANGED <<flagVars, mainVars, carVars>>

\* mcb.c:30, and 31 with the mutant without it.
GivePedals == pedal_input_enabled' = TRUE
MutWDT_Stop == UNCHANGED wdt
WDT_Stop == wdt' = "idle"

\* mcb.c:26-32, the stop frame, then the task parks itself
McbFinishes ==
  /\ At("mcb", "finish") /\ Goto("mcb", "sleep")
  /\ mcb_flag' = 0
  /\ GivePedals
  /\ WDT_Stop
  /\ st' = Suspend(st, "mcb")
  /\ UNCHANGED <<scc_flag, lfa_flag, dir_flag, mainVars, typed, admitted, keyed, pressed,
                 moving>>

\* mcb.c:35, where the parked task continues
McbSleeps ==
  /\ At("mcb", "sleep") /\ Goto("mcb", "loop")
  /\ st' = Delay(st, "mcb")
  /\ UNCHANGED <<flagVars, mainVars, carVars>>

-----------------------------------------------------------------------------
(* SCC_Task                                                                *)

\* scc.c:25-27
SccChecks ==
  /\ At("scc", "check") /\ Goto("scc", "cruise")
  /\ scc_flag' = IF pressed THEN 0 ELSE scc_flag
  /\ UNCHANGED <<st, lfa_flag, dir_flag, mcb_flag, mainVars, carVars>>

\* scc.c:29-63, the speed moves towards its target, which may be 0
SccCruises ==
  /\ At("scc", "cruise") /\ Goto("scc", "check")
  /\ moving' \in BOOLEAN
  /\ st' = Delay(st, "scc")
  /\ UNCHANGED <<flagVars, mainVars, typed, wdt, pedal_input_enabled, admitted, keyed,
                 pressed>>

-----------------------------------------------------------------------------
(* AppTaskCreate, called by Main while the scheduler runs: a created task  *)
(* that is more urgent runs until it sleeps, before Main suspends it.      *)

Created(t) == Resume(st, t)

MainBoots ==
  \/ MainCalls("bootMcb", "bootMcbOff", Created("mcb"))
  \/ MainCalls("bootMcbOff", "bootScc", Suspend(st, "mcb"))
  \/ MainCalls("bootScc", "bootSccOff", Created("scc"))
  \/ MainCalls("bootSccOff", "bootLfa", Suspend(st, "scc"))
  \/ MainCalls("bootLfa", "bootLfaOff", Created("lfa"))
  \/ MainCalls("bootLfaOff", "scc", Suspend(st, "lfa"))

-----------------------------------------------------------------------------
(* Main_StartTask, the loop                                                *)

\* main.c:206
SccPrev ==
  /\ MainStep("sccPrev", "dir")
  /\ prev_scc_flag' = scc_flag
  /\ UNCHANGED <<flagVars, lfa_on_flag, prev_lfa_flag, prev_dir_flag, reg, carVars>>

\* main.c:181-207
MainScc ==
  \/ MainLooks("scc", IF scc_flag # prev_scc_flag THEN "sccIf" ELSE "dir")
  \/ MainLooks("sccIf", IF scc_flag = 1 THEN "sccOn" ELSE "sccOff")
  \/ MainCalls("sccOn", "sccPrev", Resume(st, "scc"))
  \/ MainCalls("sccOff", "sccPrev", Suspend(st, "scc"))
  \/ SccPrev

\* main.c:213, the indicator is on: remember lane following and invert it
DirSave ==
  /\ MainStep("dirSave", "dirStore")
  /\ lfa_on_flag' = 1 /\ reg' = Not(lfa_flag)
  /\ UNCHANGED <<flagVars, prev_scc_flag, prev_lfa_flag, prev_dir_flag, carVars>>

\* main.c:219-221, the indicator is off: forget it and invert it back
DirBack ==
  /\ MainStep("dirBack", "dirStore")
  /\ lfa_on_flag' = 0 /\ reg' = Not(lfa_flag)
  /\ UNCHANGED <<flagVars, prev_scc_flag, prev_lfa_flag, prev_dir_flag, carVars>>

\* The store of lfa_flag = !lfa_flag; the register is dead after it.
DirStore ==
  /\ MainStep("dirStore", "dirPrev")
  /\ lfa_flag' = reg /\ reg' = 0
  /\ UNCHANGED <<scc_flag, dir_flag, mcb_flag, lfa_on_flag, prev_scc_flag,
                 prev_lfa_flag, prev_dir_flag, carVars>>

\* main.c:209-225
MainDir ==
  \/ MainLooks("dir", IF dir_flag # prev_dir_flag THEN "dirIf" ELSE "lfa")
  \/ MainLooks("dirIf", IF dir_flag = 1 THEN "dirOn" ELSE "dirOff")
  \/ MainLooks("dirOn", IF lfa_flag = 1 THEN "dirSave" ELSE "dirPrev")
  \/ MainLooks("dirOff", IF lfa_on_flag = 1 THEN "dirBack" ELSE "dirPrev")
  \/ DirSave \/ DirBack \/ DirStore
  \/ /\ MainStep("dirPrev", "lfa")
     /\ prev_dir_flag' = dir_flag
     /\ UNCHANGED <<flagVars, lfa_on_flag, prev_scc_flag, prev_lfa_flag, reg,
                    carVars>>

\* The indicator allows lane following (main.c:229).
DirAllows == dir_flag = 0

\* main.c:227-239; SG90_SetAngle(90) sleeps while the PWM channel is busy
MainLfa ==
  \/ MainLooks("lfa", IF lfa_flag # prev_lfa_flag THEN "lfaIf" ELSE "mcb")
  \/ MainLooks("lfaIf", IF lfa_flag = 1 THEN "lfaDir" ELSE "lfaCenter")
  \/ MainLooks("lfaDir", IF DirAllows THEN "lfaOn" ELSE "lfaCenter")
  \/ MainCalls("lfaOn", "lfaPrev", Resume(st, "lfa"))
  \/ \E busy \in BOOLEAN :
       MainCalls("lfaCenter", "lfaOff", IF busy THEN Delay(st, "main") ELSE st)
  \/ MainCalls("lfaOff", "lfaPrev", Suspend(st, "lfa"))
  \/ /\ MainStep("lfaPrev", "mcb")
     /\ prev_lfa_flag' = lfa_flag
     /\ UNCHANGED <<flagVars, lfa_on_flag, prev_scc_flag, prev_dir_flag, reg,
                    carVars>>

\* main.c:245, and the mutant that resumes nothing.
MutMainResumes == MainLooks("resume", "sleep")
MainResumes == MainCalls("resume", "sleep", Resume(st, "mcb"))

\* main.c:241-248
MainMcb ==
  \/ MainLooks("mcb", IF mcb_flag = 1 THEN "wdt" ELSE "sleep")
  \/ MainLooks("wdt", IF wdt = "idle" THEN "wdtStart" ELSE "resume")
  \/ /\ MainStep("wdtStart", "resume")
     /\ wdt' = "running"
     /\ UNCHANGED <<flagVars, mainVars, typed, pedal_input_enabled, admitted, keyed,
                    pressed, moving>>
  \/ MainResumes
  \/ MainCalls("sleep", "scc", Delay(st, "main"))

-----------------------------------------------------------------------------
McbStep  == McbBrakes \/ McbTests \/ McbFinishes \/ McbSleeps
SccStep  == SccChecks \/ SccCruises
MainLoop == MainScc \/ MainDir \/ MainLfa \/ MainMcb

Next ==
  \/ McbStep \/ SccStep \/ MainBoots \/ MainLoop
  \/ PedalReads \/ PedalMoves
  \/ \E k \in Keys : KeyIsr(k)
  \/ \E t \in Task : Wake(t)

\* The processor is idle most of the time, so each task gets it again and
\* again; and the brake the emergency stop asks for ends up stopping the car.
Fairness ==
  /\ \A t \in Task : WF_vars(Wake(t))
  /\ WF_vars(McbStep)
  /\ SF_vars(SccStep)
  /\ SF_vars(MainBoots \/ MainLoop)
  /\ SF_vars(PedalReads)
  /\ SF_vars(PedalMoves /\ admitted = "pedals")
  /\ SF_vars(PedalMoves /\ admitted = "brake" /\ ~moving')

Spec == Init /\ [][Next]_vars
FairSpec == Spec /\ Fairness

-----------------------------------------------------------------------------
\* The type of every variable.
TypeOK ==
  /\ st \in [Task -> TaskState]
  /\ pc \in [main : MainLabels, mcb : McbLabels, scc : SccLabels]
  /\ scc_flag \in Bit /\ lfa_flag \in Bit /\ dir_flag \in Bit /\ mcb_flag \in Bit
  /\ lfa_on_flag \in Bit /\ reg \in Bit
  /\ prev_scc_flag \in Junk /\ prev_lfa_flag \in Junk /\ prev_dir_flag \in Junk
  /\ typed \in 0 .. MaxKeys
  /\ wdt \in {"idle", "running"}
  /\ pedal_input_enabled \in BOOLEAN
  /\ admitted \in {"none", "pedals", "brake"}
  /\ keyed \in BOOLEAN /\ pressed \in BOOLEAN /\ moving \in BOOLEAN

\* A running watchdog resets the controller unless MCB kicks it (WDT_KickPing):
\* it runs only while MCB is not parked, or Main is about to resume MCB
\* (main.c:242-245, mcb.c:31-32).
WdtGuarded ==
  wdt = "running" => st["mcb"] # "suspended" \/ pc["main"] = "resume"

\* While MCB sends the stop frame and gives the pedals back, the car still
\* stands as it did at the test (mcb.c:25-32): no other task moves it.
StopAtStandstill == pc["mcb"] = "finish" => ~moving

\* A parked MCB has given the pedals back (mcb.c:30-32), also after the
\* iteration it runs when it is created (main.c:282-284).
ParkedGivesPedals == st["mcb"] = "suspended" => pedal_input_enabled

\* MCB keeps the promise of the abstract emergency stop, which nothing ends but a
\* car that stands.
Stop == INSTANCE EmergencyStop WITH
          Reacts  <- FALSE,
          braking <- st["mcb"] # "suspended",
          held    <- ~pedal_input_enabled,
          moving  <- moving
KeepsStopPromise == Stop!Spec

\* A running watchdog is kicked again and again until it is stopped.
WdtKicked == wdt = "running" ~> pc["mcb"] = "test" \/ wdt = "idle"

\* A request for the emergency stop ends with the car stopped, the request
\* withdrawn and the pedals given back, unless cruise control goes on moving
\* the car against it.
McbRequestServed ==
  <>[](st["scc"] = "suspended") =>
    (mcb_flag = 1 ~> mcb_flag = 0 /\ pedal_input_enabled)
=============================================================================
