--------------------------- MODULE Modes2_proofs ---------------------------
(***************************************************************************)
(* Proofs about Modes2, for every set of keys and presses.                 *)
(***************************************************************************)
EXTENDS Modes2, TLAPS

\* The shape of every action is in these definitions.
USE DEF At, Goto, MainStep, MainLooks, MainCalls

\* While Main creates the tasks the car cannot move and MCB cannot sleep, so
\* the first iteration of MCB, which runs inside SAL_TaskCreate, parks it.
BootInv ==
  /\ pc["main"] \in BootLabels => wdt = "idle"
  /\ pc["main"] \in {"bootMcb", "bootMcbOff"} =>
       /\ ~moving /\ admitted = "none"
       /\ st["scc"] = "suspended" /\ st["mcb"] # "delayed"
       /\ st["mcb"] = "ready" => pc["mcb"] # "sleep"
  /\ pc["main"] = "bootMcb" => st["mcb"] = "suspended" /\ pc["mcb"] = "loop"

\* MCB stays ready from its test of the speed to the end of the iteration.
FinishInv == pc["mcb"] = "finish" => st["mcb"] = "ready"

IInv ==
  /\ TypeOK
  /\ BootInv /\ FinishInv
  /\ WdtGuarded /\ StopAtStandstill /\ ParkedGivesPedals

LEMMA InitIInv == Init => IInv
<1> SUFFICES ASSUME Init PROVE IInv
  OBVIOUS
<1>1. TypeOK
  <2>1. st \in [Task -> TaskState]
    BY DEF Init, Task, TaskState
  <2>2. pc \in [main : MainLabels, mcb : McbLabels, scc : SccLabels]
    BY DEF Init, MainLabels, BootLabels, McbLabels, SccLabels
  <2>3. typed \in 0 .. MaxKeys
    BY Modes2Assumption DEF Init
  <2>4. QED
    BY <2>1, <2>2, <2>3 DEF Init, TypeOK, Bit, Junk
<1>2. BootInv
  BY DEF Init, BootInv, BootLabels, Task
<1>3. FinishInv /\ WdtGuarded /\ StopAtStandstill /\ ParkedGivesPedals
  BY DEF Init, FinishInv, WdtGuarded, StopAtStandstill, ParkedGivesPedals, Task
<1>4. QED
  BY <1>1, <1>2, <1>3 DEF IInv

LEMMA TypeStep == TypeOK /\ [Next]_vars => TypeOK'
<1> SUFFICES ASSUME TypeOK, [Next]_vars PROVE TypeOK'
  OBVIOUS
<1> USE Modes2Assumption DEF TypeOK, Task, TaskState, Bit, Junk, Not, schedVars,
        flagVars, mainVars, carVars, MainLabels, BootLabels, McbLabels, SccLabels,
        Suspend, Resume, Delay, Rouse
<1>1. CASE McbBrakes
  BY <1>1 DEF McbBrakes
<1>2. CASE McbTests
  BY <1>2 DEF McbTests
<1>3. CASE McbFinishes
  BY <1>3 DEF McbFinishes, GivePedals, WDT_Stop
<1>4. CASE McbSleeps
  BY <1>4 DEF McbSleeps
<1>5. CASE SccChecks
  BY <1>5 DEF SccChecks
<1>6. CASE SccCruises
  BY <1>6 DEF SccCruises
<1>7. CASE MainBoots
  BY <1>7 DEF MainBoots, Created
<1>8. CASE MainScc
  BY <1>8 DEF MainScc, SccPrev
<1>9. CASE MainDir
  BY <1>9 DEF MainDir, DirSave, DirBack, DirStore
<1>10. CASE MainLfa
  BY <1>10 DEF MainLfa, DirAllows
<1>11. CASE MainMcb
  BY <1>11 DEF MainMcb, MainResumes
<1>12. CASE PedalReads
  BY <1>12 DEF PedalReads
<1>13. CASE PedalMoves
  <2>1. moving' \in BOOLEAN
    BY <1>13 DEF PedalMoves
  <2>2. /\ admitted' \in {"none", "pedals", "brake"} /\ keyed' \in BOOLEAN
        /\ UNCHANGED <<schedVars, flagVars, mainVars, typed, wdt, pedal_input_enabled,
                       pressed>>
    BY <1>13 DEF PedalMoves
  <2>3. QED
    BY <2>1, <2>2
<1>14. ASSUME NEW k \in Keys, KeyIsr(k) PROVE TypeOK'
  BY <1>14 DEF KeyIsr
<1>15. ASSUME NEW t \in Task, Wake(t) PROVE TypeOK'
  BY <1>15 DEF Wake
<1>16. CASE UNCHANGED vars
  BY <1>16 DEF vars
<1>17. QED
  BY <1>1, <1>2, <1>3, <1>4, <1>5, <1>6, <1>7, <1>8, <1>9, <1>10, <1>11, <1>12,
     <1>13, <1>14, <1>15, <1>16 DEF Next, McbStep, SccStep, MainLoop

\* What the priorities give: with MCB ready no other task runs.
LEMMA McbExcludes ==
  ASSUME TypeOK, st["mcb"] = "ready", NEW t \in Task, Running(st, t)
  PROVE  t = "mcb"
BY DEF TypeOK, Task, Running, Calm, Prio

LEMMA BootStep == IInv /\ [Next]_vars => BootInv'
<1> SUFFICES ASSUME IInv, [Next]_vars PROVE BootInv'
  OBVIOUS
<1> USE DEF IInv, TypeOK, BootInv, FinishInv, StopAtStandstill, Task, TaskState,
        schedVars, flagVars, mainVars, carVars, MainLabels, BootLabels, McbLabels,
        SccLabels, Suspend, Resume, Delay, Rouse
<1>1. CASE McbBrakes
  BY <1>1 DEF McbBrakes, Running
<1>2. CASE McbTests
  <2>1. CASE moving
    BY <1>2, <2>1 DEF McbTests
  <2>2. CASE ~moving
    BY <1>2, <2>2 DEF McbTests
  <2>3. QED
    BY <2>1, <2>2
<1>3. CASE McbFinishes
  BY <1>3 DEF McbFinishes, GivePedals, WDT_Stop
<1>4. CASE McbSleeps
  BY <1>4 DEF McbSleeps, Running
<1>5. CASE SccChecks
  BY <1>5 DEF SccChecks
<1>6. CASE SccCruises
  BY <1>6 DEF SccCruises, Running
<1>7. CASE MainBoots
  <2>1. CASE MainCalls("bootMcb", "bootMcbOff", Created("mcb"))
    BY <2>1 DEF Created
  <2>2. CASE MainCalls("bootMcbOff", "bootScc", Suspend(st, "mcb"))
    BY <2>2
  <2>3. CASE MainCalls("bootScc", "bootSccOff", Created("scc"))
    BY <2>3 DEF Created
  <2>4. CASE MainCalls("bootSccOff", "bootLfa", Suspend(st, "scc"))
    BY <2>4
  <2>5. CASE MainCalls("bootLfa", "bootLfaOff", Created("lfa"))
    BY <2>5 DEF Created
  <2>6. CASE MainCalls("bootLfaOff", "scc", Suspend(st, "lfa"))
    BY <2>6
  <2>7. QED
    BY <1>7, <2>1, <2>2, <2>3, <2>4, <2>5, <2>6 DEF MainBoots
<1>8. CASE MainScc
  BY <1>8 DEF MainScc, SccPrev
<1>9. CASE MainDir
  BY <1>9 DEF MainDir, DirSave, DirBack, DirStore
<1>10. CASE MainLfa
  BY <1>10 DEF MainLfa, DirAllows
<1>11. CASE MainMcb
  BY <1>11 DEF MainMcb, MainResumes
<1>12. CASE PedalReads
  BY <1>12 DEF PedalReads
<1>13. CASE PedalMoves
  BY <1>13 DEF PedalMoves
<1>14. ASSUME NEW k \in Keys, KeyIsr(k) PROVE BootInv'
  BY <1>14 DEF KeyIsr
<1>15. ASSUME NEW t \in Task, Wake(t) PROVE BootInv'
  BY <1>15 DEF Wake
<1>16. CASE UNCHANGED vars
  BY <1>16 DEF vars
<1>17. QED
  BY <1>1, <1>2, <1>3, <1>4, <1>5, <1>6, <1>7, <1>8, <1>9, <1>10, <1>11, <1>12,
     <1>13, <1>14, <1>15, <1>16 DEF Next, McbStep, SccStep, MainLoop

\* MCB stays ready and the car stays still from the test to the stop frame:
\* whatever could change either is less urgent than MCB, and Main suspends it
\* only while MCB is not ready.
LEMMA FinishStep == IInv /\ [Next]_vars => FinishInv' /\ StopAtStandstill'
<1> SUFFICES ASSUME IInv, [Next]_vars PROVE FinishInv' /\ StopAtStandstill'
  OBVIOUS
<1> USE DEF IInv, TypeOK, FinishInv, StopAtStandstill, schedVars, flagVars,
        mainVars, carVars
<1>1. CASE McbStep
  <2>1. CASE McbBrakes
    BY <2>1 DEF McbBrakes, McbLabels
  <2>2. CASE McbTests
    <3>1. CASE moving
      BY <2>2, <3>1 DEF McbTests, McbLabels
    <3>2. CASE ~moving
      BY <2>2, <3>2 DEF McbTests, Running
    <3>3. QED
      BY <3>1, <3>2
  <2>3. CASE McbFinishes
    BY <2>3 DEF McbFinishes, McbLabels
  <2>4. CASE McbSleeps
    BY <2>4 DEF McbSleeps, McbLabels
  <2>5. QED
    BY <1>1, <2>1, <2>2, <2>3, <2>4 DEF McbStep
<1>2. ASSUME pc["mcb"] = "finish", ~McbStep
      PROVE  pc'["mcb"] = "finish" /\ st'["mcb"] = "ready" /\ moving' = moving
  <2>1. st["mcb"] = "ready" /\ ~moving
    BY <1>2
  <2>2. \A t \in {"scc", "main", "lfa"} : ~Running(st, t)
    BY <2>1, McbExcludes DEF Task
  <2>3. ~SccStep /\ ~MainBoots /\ ~MainLoop
    BY <2>2 DEF SccStep, SccChecks, SccCruises, MainBoots, MainLoop, MainScc,
       SccPrev, MainDir, DirSave, DirBack, DirStore, MainLfa, MainMcb, MainResumes
  <2>4. ~PedalReads /\ ~PedalMoves
    BY <2>1 DEF PedalReads, PedalMoves, Calm, Prio, PedalPrio, Task
  <2>5. CASE \E k \in Keys : KeyIsr(k)
    BY <1>2, <2>1, <2>5 DEF KeyIsr
  <2>6. CASE \E t \in Task : Wake(t)
    BY <1>2, <2>1, <2>6 DEF Wake, Rouse, Task, TaskState
  <2>7. CASE UNCHANGED vars
    BY <1>2, <2>1, <2>7 DEF vars
  <2>8. QED
    BY <1>2, <2>3, <2>4, <2>5, <2>6, <2>7 DEF Next
<1>3. ASSUME pc["mcb"] # "finish", ~McbStep
      PROVE  pc'["mcb"] # "finish"
  BY <1>3 DEF Next, SccStep, SccChecks, SccCruises, MainBoots, MainLoop, MainScc,
     SccPrev, MainDir, DirSave, DirBack, DirStore, MainLfa, MainMcb, MainResumes,
     PedalReads, PedalMoves, KeyIsr, Wake, vars, Created
<1>4. QED
  BY <1>1, <1>2, <1>3

\* Only MCB itself parks MCB: when Main suspends it at boot it is parked
\* already.
LEMMA OnlyMcbParks ==
  ASSUME IInv, [Next]_vars, st'["mcb"] = "suspended", st["mcb"] # "suspended"
  PROVE  McbFinishes
<1> USE DEF IInv, TypeOK, Task, TaskState, Suspend, Resume, Delay, Rouse,
        schedVars
<1>1. ~McbBrakes /\ ~McbSleeps
  BY DEF McbBrakes, McbSleeps
<1>2. ~McbTests
  <2>1. CASE moving
    BY <2>1 DEF McbTests
  <2>2. CASE ~moving
    BY <2>2 DEF McbTests
  <2>3. QED
    BY <2>1, <2>2
<1>3. ~SccStep
  BY DEF SccStep, SccChecks, SccCruises
<1>4. ~MainBoots
  <2>1. ~MainCalls("bootMcbOff", "bootScc", Suspend(st, "mcb"))
    BY DEF BootInv, Running, Calm, Prio
  <2>2. QED
    BY <2>1 DEF MainBoots, Created
<1>5. ~MainLoop
  BY DEF MainLoop, MainScc, SccPrev, MainDir, DirSave, DirBack, DirStore, MainLfa,
     MainMcb, MainResumes
<1>6. ~PedalReads /\ ~PedalMoves /\ ~ \E k \in Keys : KeyIsr(k)
  BY DEF PedalReads, PedalMoves, KeyIsr
<1>7. ~ \E t \in Task : Wake(t)
  BY DEF Wake
<1>8. ~ UNCHANGED vars
  BY DEF vars
<1>9. QED
  BY <1>1, <1>2, <1>3, <1>4, <1>5, <1>6, <1>7, <1>8 DEF Next, McbStep

\* The pedals are taken by MCB alone.
LEMMA OnlyMcbTakesPedals ==
  ASSUME IInv, [Next]_vars, pedal_input_enabled' # pedal_input_enabled
  PROVE  McbBrakes \/ McbFinishes
BY DEF Next, McbStep, McbTests, McbSleeps, SccStep, SccChecks, SccCruises,
   MainBoots, MainLoop, MainScc, SccPrev, MainDir, DirSave, DirBack, DirStore,
   MainLfa, MainMcb, MainResumes, PedalReads, PedalMoves, KeyIsr, Wake, vars, carVars

LEMMA ParkedStep == IInv /\ [Next]_vars => ParkedGivesPedals'
<1> SUFFICES ASSUME IInv, [Next]_vars, st'["mcb"] = "suspended"
             PROVE  pedal_input_enabled'
  BY DEF ParkedGivesPedals
<1>1. CASE McbFinishes
  BY <1>1 DEF McbFinishes, GivePedals
<1>2. CASE ~McbFinishes
  <2>1. st["mcb"] = "suspended" /\ pedal_input_enabled
    BY <1>2, OnlyMcbParks DEF IInv, ParkedGivesPedals
  <2>2. ~McbBrakes
    BY <2>1 DEF McbBrakes, Running
  <2>3. QED
    BY <1>2, <2>1, <2>2, OnlyMcbTakesPedals
<1>3. QED
  BY <1>1, <1>2

\* Main starts the watchdog on its way to "resume" and leaves "resume" by
\* resuming MCB; MCB stops the watchdog in the step that parks it.
LEMMA WdtStep == IInv /\ [Next]_vars => WdtGuarded'
<1> SUFFICES ASSUME IInv, [Next]_vars, wdt' = "running"
             PROVE  st'["mcb"] # "suspended" \/ pc'["main"] = "resume"
  BY DEF WdtGuarded
<1> USE DEF IInv, TypeOK, Task, TaskState
<1>1. ~McbFinishes
  BY DEF McbFinishes, WDT_Stop
<1>2. CASE st["mcb"] # "suspended"
  BY <1>1, <1>2, OnlyMcbParks
<1>3. CASE st["mcb"] = "suspended" /\ wdt = "running"
  <2>1. pc["main"] = "resume"
    BY <1>3 DEF WdtGuarded
  <2>2. CASE MainResumes
    BY <1>3, <2>2 DEF MainResumes, Resume
  <2>3. CASE ~MainResumes
    BY <1>1, <1>3, <2>1, <2>3 DEF Next, McbStep, McbBrakes, McbTests, McbSleeps,
       SccStep, SccChecks, SccCruises, MainBoots, MainLoop, MainScc, SccPrev,
       MainDir, DirSave, DirBack, DirStore, MainLfa, MainMcb, PedalReads,
       PedalMoves, KeyIsr, Wake, vars, schedVars
  <2>4. QED
    BY <2>2, <2>3
<1>4. CASE wdt # "running"
  <2>1. MainMcb /\ pc'["main"] = "resume"
    BY <1>1, <1>4 DEF Next, McbStep, McbBrakes, McbTests, McbSleeps,
       SccStep, SccChecks, SccCruises, MainBoots, MainLoop, MainScc, SccPrev,
       MainDir, DirSave, DirBack, DirStore, MainLfa, MainMcb, MainResumes,
       PedalReads, PedalMoves, KeyIsr, Wake, vars, carVars
  <2>2. QED
    BY <2>1
<1>5. QED
  BY <1>2, <1>3, <1>4

\* The inductive invariant holds of every reachable state.
THEOREM Invariance == Spec => []IInv
<1>1. Init => IInv
  BY InitIInv
<1>2. IInv /\ [Next]_vars => IInv'
  BY TypeStep, BootStep, FinishStep, ParkedStep, WdtStep DEF IInv
<1>3. QED
  BY <1>1, <1>2, PTL DEF Spec

\* Every variable keeps its type.
THEOREM TypeCorrect == Spec => []TypeOK
<1>1. IInv => TypeOK
  BY DEF IInv
<1>2. QED
  BY <1>1, Invariance, PTL

\* The watchdog runs only while MCB is not parked or is about to be resumed.
THEOREM WatchdogIsGuarded == Spec => []WdtGuarded
<1>1. IInv => WdtGuarded
  BY DEF IInv
<1>2. QED
  BY <1>1, Invariance, PTL

\* The stop frame is sent and the pedals are given back while the car stands.
THEOREM StopsAtStandstill == Spec => []StopAtStandstill
<1>1. IInv => StopAtStandstill
  BY DEF IInv
<1>2. QED
  BY <1>1, Invariance, PTL

\* A parked MCB leaves the pedals to the driver.
THEOREM ParkedLeavesPedals == Spec => []ParkedGivesPedals
<1>1. IInv => ParkedGivesPedals
  BY DEF IInv
<1>2. QED
  BY <1>1, Invariance, PTL

\* Every behaviour of the phase 2 controller is one of the abstract emergency
\* stop: each step of it takes, holds, drives or releases, or changes none of
\* the three.
THEOREM Implements == Spec => KeepsStopPromise
<1>1. Init => Stop!Init
  BY DEF Init, Stop!Init, Task
<1>2. IInv /\ IInv' /\ [Next]_vars => [Stop!Next]_Stop!vars
  <2> SUFFICES ASSUME IInv, IInv', [Next]_vars PROVE [Stop!Next]_Stop!vars
    OBVIOUS
  <2>1. CASE McbBrakes
    BY <2>1 DEF McbBrakes, Running, Stop!Next, Stop!Hold, Stop!vars, carVars
  <2>2. CASE McbFinishes
    <3>1. st["mcb"] # "suspended" /\ ~moving
      BY <2>2 DEF McbFinishes, Running, IInv, StopAtStandstill
    <3>2. st'["mcb"] = "suspended" /\ pedal_input_enabled' /\ moving' = moving
      BY <2>2 DEF McbFinishes, Suspend, GivePedals, IInv, TypeOK, Task
    <3>3. QED
      BY <3>1, <3>2 DEF Stop!Next, Stop!Release
  <2>3. CASE ~McbBrakes /\ ~McbFinishes
    <3>1. pedal_input_enabled' = pedal_input_enabled
      BY <2>3, OnlyMcbTakesPedals
    <3>2. st["mcb"] # "suspended" => st'["mcb"] # "suspended"
      BY <2>3, OnlyMcbParks
    <3>3. moving' = moving \/ st'["mcb"] = st["mcb"]
      BY DEF Next, McbStep, McbBrakes, McbTests, McbFinishes, McbSleeps, SccStep,
         SccChecks, SccCruises, MainBoots, MainLoop, MainScc, SccPrev, MainDir,
         DirSave, DirBack, DirStore, MainLfa, MainMcb, MainResumes, PedalReads,
         PedalMoves, KeyIsr, Wake, vars, schedVars, carVars, Delay, IInv, TypeOK,
         Task
    <3>4. CASE moving' = moving
      BY <3>1, <3>2, <3>4 DEF Stop!Next, Stop!Engage, Stop!vars
    <3>5. CASE st'["mcb"] = st["mcb"]
      BY <3>1, <3>5 DEF Stop!Next, Stop!Drive, Stop!vars, IInv, TypeOK
    <3>6. QED
      BY <3>3, <3>4, <3>5
  <2>4. QED
    BY <2>1, <2>2, <2>3
<1>3. QED
  BY <1>1, <1>2, Invariance, PTL DEF Spec, KeepsStopPromise, Stop!Spec
=============================================================================
