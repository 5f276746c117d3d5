--------------------------- MODULE Modes1_proofs ---------------------------
(***************************************************************************)
(* Proofs about Modes1, for every set of controls and lane messages, every *)
(* pedal, and emergency stops, keys and presses that come at any time.     *)
(***************************************************************************)
EXTENDS Modes1, TLAPS

\* The shape of every action is in these definitions.
USE DEF At, Goto, Step, Looks, Calls, Handles

LEMMA InitType == Init => TypeOK
<1> SUFFICES ASSUME Init PROVE TypeOK
  OBVIOUS
<1>1. st \in [Task -> TaskState] BY DEF Init, Task, TaskState
<1>2. pc \in [main : MainLabels, lka : LkaLabels, tcp : TcpLabels, tcp2 : Tcp2Labels]
  BY DEF Init, MainLabels, LkaLabels, TcpLabels, Tcp2Labels
<1>3. QED BY <1>1, <1>2 DEF Init, TypeOK, Bit, Offset, Pulse, Flag

\* late holds names of flags.
LEMMA LateTyped ==
  ASSUME TypeOK, Interferes \/ late' \subseteq late PROVE late' \subseteq Flag
BY DEF TypeOK, Interferes, Written

LEMMA TypeStep == TypeOK /\ [Next]_vars => TypeOK'
<1> SUFFICES ASSUME TypeOK, [Next]_vars PROVE TypeOK'
  OBVIOUS
<1> USE DEF TypeOK, Task, TaskState, Bit, Offset, Pulse, flags,
        flagVars, laneVars, mainVars, servoVars, MainLabels, LkaLabels, TcpLabels,
        Tcp2Labels, Suspend, Resume, Delay, Rouse, Test
<1>1. CASE SisClears BY <1>1, LateTyped DEF SisClears
<1>2. CASE SccStep   BY <1>2, LateTyped DEF SccStep
<1>3. CASE LkaStep   BY <1>3 DEF LkaStep, LkaAngle, LkaPulse, Steered
<1>4. CASE Tcp2Step
  <2>1. CASE LaneCut \/ LaneDropped
    BY <2>1 DEF LaneCut, LaneDropped
  <2>2. ASSUME NEW m \in Lanes, LaneReceived(m) PROVE TypeOK'
    BY <2>2, Modes1Assumption DEF LaneReceived
  <2>3. CASE \/ LaneFlag("first", "firstOff", 1, lka_2nd_flag)
             \/ LaneFlag("second", "secondOff", lka_1st_flag, 1)
    BY <2>3 DEF LaneFlag
  <2>4. CASE LaneOff("firstOff") \/ LaneOff("secondOff") \/ LaneClear
    BY <2>4 DEF LaneOff, LaneClear, LaneEnds
  <2>5. CASE Looks("tcp2", "first", "second") \/ Looks("tcp2", "second", "clear")
    BY <2>5
  <2>6. QED BY <1>4, <2>1, <2>2, <2>3, <2>4, <2>5 DEF Tcp2Step
<1>5. CASE TcpStep
  <2>1. PICK b \in Buttons :
          \/ \E l \in TcpLabels : Load(l, b)
          \/ Looks("tcp", "recv", "allowed")
          \/ Store(b)
    BY <1>5 DEF TcpStep
  <2>2. ASSUME NEW l \in TcpLabels, Load(l, b) PROVE TypeOK'
    BY <2>2 DEF Load, Buttons
  <2>3. CASE Looks("tcp", "recv", "allowed")
    BY <2>3
  <2>4. CASE Store(b)
    BY <2>4 DEF Store
  <2>5. QED BY <2>1, <2>2, <2>3, <2>4
<1>6. CASE MainScc   BY <1>6, LateTyped DEF MainScc, SccPrev
<1>7. CASE MainDir   BY <1>7 DEF MainDir, DirSave, DirBack, DirStore, DirPrev
<1>8. CASE MainLka   BY <1>8, LateTyped DEF MainLka, LkaCenter, LkaPrev
<1>9. ASSUME NEW k \in Keys, KeyIsr(k) PROVE TypeOK'
  BY <1>9, LateTyped DEF KeyIsr
<1>10. ASSUME NEW t \in Task, Wake(t) PROVE TypeOK'
  BY <1>10 DEF Wake
<1>11. CASE UNCHANGED vars BY <1>11 DEF vars
<1>12. QED
  BY <1>1, <1>2, <1>3, <1>4, <1>5, <1>6, <1>7, <1>8, <1>9, <1>10, <1>11
     DEF Next, MainLoop

\* Phase 1's flags, labels and task states keep their types.
THEOREM TypeCorrect == Spec => []TypeOK
  BY InitType, TypeStep, PTL DEF Spec

-----------------------------------------------------------------------------
(* Main against the rest                                                   *)

\* Main sleeps only at the end of an iteration.
MainAwake == pc["main"] # "scc" => st["main"] = "ready"

\* A step that is not Main's leaves Main where it is, with its own variables, and
\* suspends and resumes nobody.
Apart ==
  /\ pc'["main"] = pc["main"] /\ reg'["main"] = reg["main"] /\ UNCHANGED mainVars
  /\ st'["main"] = st["main"] \/ st'["main"] = "ready"
  /\ \A t \in {"scc", "lka"} : st'[t] = "suspended" <=> st[t] = "suspended"

\* Within Main's iteration no server runs, which is less urgent than Main.
LEMMA ServersWait ==
  ASSUME TypeOK, MainAwake, NEW t \in {"tcp", "tcp2"}, Running(st, t)
  PROVE  pc["main"] = "scc"
BY DEF TypeOK, MainAwake, Task, Running, Calm, Prio

\* It leaves the flags Main is handling, or notes in late which it wrote.
Noted ==
  /\ late \subseteq late'
  /\ pc["main"] \in Handling["scc"] /\ "scc" \notin late' => UNCHANGED scc_flag
  /\ pc["main"] \in Handling["dir"] /\ "dir" \notin late' => UNCHANGED dir_flag
  /\ pc["main"] \in Handling["lka"] /\ "lka" \notin late' => UNCHANGED <<lka_flag, dir_flag>>

LEMMA InterferesNoted == Interferes => Noted
BY DEF Interferes, Written, Noted, Flag

LEMMA StandsNoted ==
  ASSUME UNCHANGED late, UNCHANGED flags \/ pc["main"] = "scc" PROVE Noted
BY DEF Noted, Handling, DirBody, flags

LEMMA StepsApart ==
  ASSUME TypeOK, MainAwake, [Next]_vars, ~MainLoop
  PROVE  Apart /\ Noted
<1> USE DEF TypeOK, Task, TaskState, Apart, flagVars, laneVars, mainVars, servoVars,
            Suspend, Resume, Delay, Rouse
<1>1. CASE SisClears BY <1>1, InterferesNoted DEF SisClears
<1>2. CASE SccStep   BY <1>2, InterferesNoted DEF SccStep, Running
<1>3. CASE LkaStep
  BY <1>3, StandsNoted DEF LkaStep, LkaAngle, LkaPulse, Running
<1>4. CASE Tcp2Step
  <2>1. Running(st, "tcp2")
    BY <1>4 DEF Tcp2Step, LaneCut, LaneDropped, LaneReceived, LaneFlag, LaneOff, LaneClear,
                LaneEnds
  <2>2. pc["main"] = "scc" BY <2>1, ServersWait
  <2>3. Apart /\ UNCHANGED late
    BY <1>4, <2>1
       DEF Tcp2Step, LaneCut, LaneDropped, LaneReceived, LaneFlag, LaneOff, LaneClear,
           LaneEnds, Running
  <2>4. QED BY <2>2, <2>3, StandsNoted
<1>5. CASE TcpStep
  <2>1. Running(st, "tcp") BY <1>5 DEF TcpStep, Load, Store
  <2>2. pc["main"] = "scc" BY <2>1, ServersWait
  <2>3. Apart /\ UNCHANGED late BY <1>5, <2>1 DEF TcpStep, Load, Store, Running, Buttons
  <2>4. QED BY <2>2, <2>3, StandsNoted
<1>6. ASSUME NEW k \in Keys, KeyIsr(k)
      PROVE  Apart /\ Noted
  BY <1>6, InterferesNoted DEF KeyIsr
<1>7. ASSUME NEW t \in Task, Wake(t)
      PROVE  Apart /\ Noted
  BY <1>7, StandsNoted DEF Wake
<1>8. CASE UNCHANGED vars BY <1>8, StandsNoted DEF vars
<1>9. QED
  BY <1>1, <1>2, <1>3, <1>4, <1>5, <1>6, <1>7, <1>8 DEF Next

LEMMA AwakeStep == TypeOK /\ MainAwake /\ [Next]_vars => MainAwake'
<1> SUFFICES ASSUME TypeOK, MainAwake, [Next]_vars PROVE MainAwake'
  OBVIOUS
<1>1. CASE MainLoop
  <2> USE DEF TypeOK, MainAwake, Task, Running, Suspend, Resume, Delay, MainLabels
  <2>1. CASE MainScc BY <2>1 DEF MainScc, SccPrev
  <2>2. CASE MainDir BY <2>2 DEF MainDir, DirSave, DirBack, DirStore, DirPrev
  <2>3. CASE MainLka BY <2>3 DEF MainLka, LkaCenter, LkaPrev
  <2>4. QED BY <1>1, <2>1, <2>2, <2>3 DEF MainLoop
<1>2. CASE ~MainLoop
  BY <1>2, StepsApart DEF Apart, MainAwake
<1>3. QED BY <1>1, <1>2

LEMMA AwakeAlways == Spec => [](TypeOK /\ MainAwake)
<1>1. Init => MainAwake BY DEF Init, MainAwake
<1>2. QED BY <1>1, AwakeStep, TypeCorrect, PTL DEF Spec

-----------------------------------------------------------------------------
(* Lane keeping and the wheel                                              *)

\* Whenever lane keeping is suspended and Main is past centering, the wheel is
\* centered (main.c:593-594): no other step moves the wheel of a suspended task.
THEOREM CenteredWhenParked == Spec => []ParkedCentered
<1>1. Init => ParkedCentered BY DEF Init, ParkedCentered
<1>2. TypeOK /\ MainAwake /\ ParkedCentered /\ [Next]_vars => ParkedCentered'
  <2> SUFFICES ASSUME TypeOK, MainAwake, ParkedCentered, [Next]_vars
               PROVE  ParkedCentered'
    OBVIOUS
  <2> USE DEF ParkedCentered, servoVars
  <2>1. CASE MainLoop
    <3> USE DEF TypeOK, MainLabels, Task, TaskState, Suspend, Resume, Delay, Test
    <3>1. CASE MainScc BY <3>1 DEF MainScc, SccPrev
    <3>2. CASE MainDir BY <3>2 DEF MainDir, DirSave, DirBack, DirStore, DirPrev
    <3>3. CASE MainLka BY <3>3 DEF MainLka, LkaCenter, LkaPrev
    <3>4. QED BY <2>1, <3>1, <3>2, <3>3 DEF MainLoop
  <2>2. CASE LkaStep
    BY <2>2 DEF LkaStep, LkaAngle, LkaPulse, Running, Delay, TypeOK, Task, TaskState
  <2>3. CASE ~MainLoop /\ ~LkaStep
    <3>1. servo' = servo
      BY <2>3 DEF Next, SisClears, SccStep, Tcp2Step, LaneCut, LaneDropped, LaneReceived,
                  LaneFlag, LaneOff, LaneClear, LaneEnds, TcpStep, Load, Store, KeyIsr, Wake, vars
    <3>2. QED BY <2>3, <3>1, StepsApart DEF Apart
  <2>4. QED BY <2>1, <2>2, <2>3
<1>3. QED BY <1>1, <1>2, AwakeAlways, PTL DEF Spec

-----------------------------------------------------------------------------
(* The flags                                                               *)

\* Cruise control runs as Main's last look at its flag says, main.c:540-563.
SccRuns == st["scc"] # "suspended"
SccInv ==
  "scc" \notin late =>
    /\ pc["main"] \notin Handling["scc"] => (SccRuns <=> prev_scc_flag = 1)
    /\ pc["main"] = "sccPrev" => (SccRuns <=> scc_flag = 1)
    /\ pc["main"] = "sccOn" => scc_flag = 1
    /\ pc["main"] = "sccOff" => scc_flag = 0

LEMMA SccInvStep == TypeOK /\ MainAwake /\ SccInv /\ [Next]_vars => SccInv'
<1> SUFFICES ASSUME TypeOK, MainAwake, SccInv, [Next]_vars PROVE SccInv'
  OBVIOUS
<1> USE DEF SccInv, SccRuns, Handling, DirBody
<1>1. CASE MainLoop
  <2> USE DEF TypeOK, MainLabels, Task, TaskState, Bit, flags, flagVars, mainVars,
              Suspend, Resume, Delay, Test
  <2>1. CASE MainScc BY <2>1 DEF MainScc, SccPrev
  <2>2. CASE MainDir BY <2>2 DEF MainDir, DirSave, DirBack, DirStore, DirPrev
  <2>3. CASE MainLka BY <2>3 DEF MainLka, LkaCenter, LkaPrev
  <2>4. QED BY <1>1, <2>1, <2>2, <2>3 DEF MainLoop
<1>2. CASE ~MainLoop
  BY <1>2, StepsApart DEF Apart, Noted, mainVars
<1>3. QED BY <1>1, <1>2

\* Cruise control follows its flag once Main has seen the last change, unless the
\* flag was written while Main handled it and has not changed since (main.c:540-563).
THEOREM CruiseFollowsFlag == Spec => []SccFollowsFlag
<1>1. Init => SccInv BY DEF Init, SccInv, SccRuns, Task, Handling
<1>2. SccInv => SccFollowsFlag
  BY DEF SccInv, SccRuns, SccFollowsFlag, Settled, Asleep, Handling
<1>3. QED BY <1>1, <1>2, SccInvStep, AwakeAlways, PTL DEF Spec

\* Lane keeping is remembered only under an indicator Main saw, main.c:565-584.
DirInv ==
  "dir" \notin late =>
    /\ pc["main"] \notin DirBody /\ lka_on_flag = 1 => prev_dir_flag = 1
    /\ pc["main"] \in {"dirStore", "dirPrev"} /\ lka_on_flag = 1 => dir_flag = 1
    /\ pc["main"] \in {"dirOn", "dirSave"} => dir_flag = 1

LEMMA DirInvStep == TypeOK /\ MainAwake /\ DirInv /\ [Next]_vars => DirInv'
<1> SUFFICES ASSUME TypeOK, MainAwake, DirInv, [Next]_vars PROVE DirInv'
  OBVIOUS
<1> USE DEF DirInv, Handling, DirBody
<1>1. CASE MainLoop
  <2> USE DEF TypeOK, MainLabels, Bit, flags, flagVars, mainVars, Test
  <2>1. CASE MainScc BY <2>1 DEF MainScc, SccPrev
  <2>2. CASE MainDir
    <3>1. CASE DirSave  BY <3>1 DEF DirSave
    <3>2. CASE DirBack  BY <3>2 DEF DirBack
    <3>3. CASE DirStore BY <3>3 DEF DirStore
    <3>4. CASE DirPrev  BY <3>4 DEF DirPrev
    <3>5. CASE UNCHANGED <<flags, mainVars, reg>>
      BY <2>2, <3>5 DEF MainDir, DirSave, DirBack, DirStore, DirPrev
    <3>6. QED BY <2>2, <3>1, <3>2, <3>3, <3>4, <3>5 DEF MainDir
  <2>3. CASE MainLka BY <2>3 DEF MainLka, LkaCenter, LkaPrev
  <2>4. QED BY <1>1, <2>1, <2>2, <2>3 DEF MainLoop
<1>2. CASE ~MainLoop
  BY <1>2, StepsApart DEF Apart, Noted, mainVars
<1>3. QED BY <1>1, <1>2

\* Main remembers lane keeping only while the indicator is on, unless the indicator
\* was switched while Main handled it and has not been since (main.c:565-584).
THEOREM RemembersOnlyWhileSignalling == Spec => []RememberedOnlyWhileSignalling
<1>1. Init => DirInv BY DEF Init, DirInv, DirBody
<1>2. DirInv => RememberedOnlyWhileSignalling
  BY DEF DirInv, RememberedOnlyWhileSignalling, Settled, Asleep, DirBody
<1>3. QED BY <1>1, <1>2, DirInvStep, AwakeAlways, PTL DEF Spec

\* A running lane keeping was allowed at Main's last look at its flag and the
\* indicator, or Main is about to look again, main.c:565-601.
LkaRuns == st["lka"] # "suspended"
Seen == {"lkaIf", "lkaOn", "lkaOff", "lkaCenter", "lkaPrev"}
LkaInv ==
  "lka" \notin late =>
    /\ pc["main"] \notin Seen \cup {"lka"} =>
         (LkaRuns => prev_lka_flag = 1 /\ prev_dir_flag = 0)
    /\ pc["main"] \in {"dirOn", "dirSave"} => dir_flag = 1
    /\ pc["main"] \in {"dirOff", "dirBack"} => dir_flag = 0
    /\ pc["main"] = "dirSave" => lka_flag = 1
    /\ pc["main"] = "dirStore" /\ dir_flag = 1 => reg["main"] = 0
    /\ pc["main"] = "dirPrev" /\ dir_flag = 1 => lka_flag = 0
    /\ pc["main"] = "lka" =>
         (LkaRuns => prev_lka_flag = 1 /\ (prev_dir_flag = 0 \/ lka_flag = 0))
    /\ pc["main"] \in Seen \cup {"lka"} => prev_dir_flag = dir_flag
    /\ pc["main"] = "lkaOn" => lka_flag = 1 /\ dir_flag = 0
    /\ pc["main"] = "lkaCenter" => ~LkaRuns
    /\ pc["main"] = "lkaPrev" => (LkaRuns => lka_flag = 1 /\ dir_flag = 0)

LEMMA LkaInvStep == TypeOK /\ MainAwake /\ LkaInv /\ [Next]_vars => LkaInv'
<1> SUFFICES ASSUME TypeOK, MainAwake, LkaInv, [Next]_vars PROVE LkaInv'
  OBVIOUS
<1> USE DEF LkaInv, LkaRuns, Handling, DirBody, Seen
<1>1. CASE MainLoop
  <2> USE DEF TypeOK, MainLabels, Task, TaskState, Bit, flags, flagVars, mainVars,
              Suspend, Resume, Delay, Test
  <2>1. CASE MainScc BY <2>1 DEF MainScc, SccPrev
  <2>2. CASE MainDir
    <3>1. CASE DirSave  BY <3>1 DEF DirSave
    <3>2. CASE DirBack  BY <3>2 DEF DirBack
    <3>3. CASE DirStore BY <3>3 DEF DirStore
    <3>4. CASE DirPrev  BY <3>4 DEF DirPrev
    <3>5. CASE UNCHANGED <<flags, mainVars, reg>>
      BY <2>2, <3>5 DEF MainDir, DirSave, DirBack, DirStore, DirPrev
    <3>6. QED BY <2>2, <3>1, <3>2, <3>3, <3>4, <3>5 DEF MainDir
  <2>3. CASE MainLka
    <3>1. CASE LkaCenter BY <3>1 DEF LkaCenter
    <3>2. CASE LkaPrev BY <3>2 DEF LkaPrev
    <3>3. CASE ~LkaCenter /\ ~LkaPrev
      BY <2>3, <3>3 DEF MainLka, LkaAllowed
    <3>4. QED BY <3>1, <3>2, <3>3
  <2>4. QED BY <1>1, <2>1, <2>2, <2>3 DEF MainLoop
<1>2. CASE ~MainLoop
  BY <1>2, StepsApart DEF Apart, Noted, mainVars
<1>3. QED BY <1>1, <1>2

\* Lane keeping does not run with its flag down or the indicator on once Main has
\* seen both, unless one of them was written while Main handled it and lane
\* keeping's flag has not changed since (main.c:565-601).
THEOREM LaneKeepingOffByFlag == Spec => []LkaOffByFlag
<1>1. Init => LkaInv BY DEF Init, LkaInv, LkaRuns, Task, Seen
<1>2. LkaInv => LkaOffByFlag
  BY DEF LkaInv, LkaRuns, LkaOffByFlag, LkaSettled, Settled, Asleep, Seen, TypeOK, Bit
<1>3. QED BY <1>1, <1>2, LkaInvStep, AwakeAlways, PTL DEF Spec
=============================================================================
