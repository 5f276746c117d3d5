------------------------------- MODULE Modes1 -------------------------------
(***************************************************************************)
(* How the phase 1 controller turns cruise control and lane keeping on and *)
(* off.  The server of the driver's buttons, the server of the lane        *)
(* detection, console keys and the cruise task write flags; Main, every    *)
(* 100 ms, compares each flag with the value it saw before and resumes or  *)
(* suspends the task the flag stands for.                                  *)
(*                                                                         *)
(*   sis   (mcb.c)         most urgent  clears the flags while it brakes;  *)
(*                                      the rest of it is in Mcb1          *)
(*   scc   (scc.c)         above Main   cruise control; a pressed pedal    *)
(*                                      makes it clear its own flag        *)
(*   main  (main.c)                     this module's subject              *)
(*   lka   (lka.c)         as Main      steers by the lane's offset        *)
(*   tcp2  (tcp_server.c)  below Main   the lane: offset and indicator     *)
(*   tcp   (tcp_server.c)  least urgent the driver's buttons               *)
(*                                                                         *)
(* Every read and every write of a flag is a step of its own, flag ^= 1 is *)
(* a read and a write.  The pulse the servo gets is abstract: left, center *)
(* and right, 1000, 1500 and 2000 us.  The fourth button changes the       *)
(* distance cruise control keeps, which nothing here reads: left out.      *)
(* One drive uses some of the keys and buttons (controls), any of them at  *)
(* any time; which sets there are is a parameter.                          *)
(*                                                                         *)
(* Definitions named Mut... are plausible mistakes in the definition that  *)
(* follows; the project substitutes them to see the properties fail.       *)
(***************************************************************************)
EXTENDS Integers

CONSTANTS Drives,   \* the sets of keys and buttons that one drive may use
          Lanes,    \* the pairs <<offset, dir_flag>> the lane detection sends
          Presses,  \* the values the pedals' pressed flags may take
          Shocks    \* the emergency stop may be running

Offset == {0, 50, 100, 150, 200}
Bit == {0, 1}
Keys == {"1", "2", "3"}
Buttons == {"!", "@", "#"}

ASSUME Modes1Assumption ==
  /\ Drives \subseteq SUBSET (Keys \cup Buttons)
  /\ Lanes \subseteq Offset \X Bit /\ Presses \subseteq BOOLEAN
  /\ Shocks \in BOOLEAN

Task == {"scc", "main", "lka", "tcp2", "tcp"}
Prio == [t \in Task |-> CASE t = "scc" -> 4 [] t = "tcp2" -> 2 [] t = "tcp" -> 1
                          [] OTHER -> 3]

INSTANCE Rtos

VARIABLES
  controls,                     \* the keys and buttons of this drive
  st, pc,
  scc_flag, lka_flag, dir_flag,
  lka_on_flag,                  \* lane keeping was on when the indicator came on
  lka_1st_flag, lka_2nd_flag,   \* the lane was left, was not recognised
  offset_val, dir_flag_pi,
  prev_scc_flag, prev_lka_flag, prev_dir_flag,   \* Main's locals
  reg,                          \* the registers of a read and write of a flag
  angle, servo,                 \* what lka.c keeps, and the pulse of the servo
  late                          \* history: flags written while Main handled them

flags == <<scc_flag, lka_flag, dir_flag>>
flagVars == <<flags, late, controls>>
laneVars == <<lka_1st_flag, lka_2nd_flag, offset_val, dir_flag_pi>>
mainVars == <<lka_on_flag, prev_scc_flag, prev_lka_flag, prev_dir_flag>>
servoVars == <<angle, servo>>
vars == <<st, pc, flagVars, laneVars, mainVars, reg, servoVars>>

MainLabels ==
  {"scc", "sccIf", "sccOn", "sccOff", "sccPrev",
   "dir", "dirIf", "dirOn", "dirOff", "dirSave", "dirBack", "dirStore", "dirPrev",
   "lka", "lkaIf", "lkaOn", "lkaOff", "lkaCenter", "lkaPrev", "sleep"}
TcpLabels == {"recv", "allowed", "!", "@", "#"}
Tcp2Labels == {"recv", "first", "second", "firstOff", "secondOff", "clear"}
LkaLabels == {"angle", "pulse"}
Pulse == {"left", "center", "right"}

Init ==
  /\ controls \in Drives
  /\ st = [t \in Task |-> IF t \in {"scc", "lka"} THEN "suspended" ELSE "ready"]
  /\ pc = [main |-> "scc", lka |-> "angle", tcp |-> "recv", tcp2 |-> "recv"]
  /\ scc_flag = 0 /\ lka_flag = 0 /\ dir_flag = 0
  /\ lka_on_flag = 0 /\ lka_1st_flag = 0 /\ lka_2nd_flag = 0
  /\ offset_val = 50 /\ dir_flag_pi = 0
  /\ prev_scc_flag = 0 /\ prev_lka_flag = 0 /\ prev_dir_flag = 0
  /\ reg = [main |-> 0, tcp |-> 0]
  /\ angle = "none" /\ servo = "center"
  /\ late = {}

At(t, l) == pc[t] = l /\ Running(st, t)
Goto(t, m) == pc' = [pc EXCEPT ![t] = m]

\* A step of t from l to m that calls no kernel function, and one that only
\* looks at a flag.
Step(t, l, m) == At(t, l) /\ Goto(t, m) /\ UNCHANGED st
Looks(t, l, m) ==
  Step(t, l, m) /\ UNCHANGED <<flagVars, laneVars, mainVars, reg, servoVars>>

\* A step of t from l to m that calls the kernel and touches nothing else.
Calls(t, l, m, newst) ==
  /\ At(t, l) /\ Goto(t, m)
  /\ st' = newst
  /\ UNCHANGED <<flagVars, laneVars, mainVars, reg, servoVars>>

Asleep == st["main"] = "delayed" /\ pc["main"] = "scc"

-----------------------------------------------------------------------------
(* History: late holds the flags that a key, SIS or the task itself wrote  *)
(* while Main was handling them, from its test of the new value (Test) to  *)
(* its copy of the value it takes as seen.  A flag is taken out when Main  *)
(* handles a change of it anew.                                            *)

Flag == {"scc", "dir", "lka"}
Test == [scc |-> "sccIf", dir |-> "dirIf", lka |-> "lkaIf"]
DirBody == {"dirOn", "dirOff", "dirSave", "dirBack", "dirStore", "dirPrev"}
Handling == [scc |-> {"sccOn", "sccOff", "sccPrev"},
             dir |-> DirBody,
             lka |-> DirBody \cup {"lka", "lkaIf", "lkaOn", "lkaOff", "lkaCenter", "lkaPrev"}]

Written == {f \in Flag : CASE f = "scc" -> scc_flag' # scc_flag
                          [] f = "dir" -> dir_flag' # dir_flag
                          [] f = "lka" -> lka_flag' # lka_flag \/ dir_flag' # dir_flag}
Interferes == late' = late \cup {f \in Written : pc["main"] \in Handling[f]}

\* Main's look at the new value of a flag; lane keeping's is a look at the
\* indicator as well, which Main need not have handled.
Handles(f, m) ==
  /\ Step("main", Test[f], m)
  /\ late' = IF f = "lka" /\ dir_flag # prev_dir_flag THEN late ELSE late \ {f}
  /\ UNCHANGED <<flags, controls, laneVars, mainVars, reg, servoVars>>

-----------------------------------------------------------------------------
(* Interrupts and time                                                     *)

\* HAL_UART_RxCpltCallback, uart.c:47-53; the bench keys q and w stand in for
\* pressed pedals.
KeyIsr(k) ==
  /\ scc_flag' = IF k = "1" THEN 1 - scc_flag ELSE scc_flag
  /\ lka_flag' = IF k = "2" THEN 1 - lka_flag ELSE lka_flag
  /\ dir_flag' = IF k = "3" THEN 1 - dir_flag ELSE dir_flag
  /\ Interferes
  /\ UNCHANGED <<st, pc, controls, laneVars, mainVars, reg, servoVars>>

\* mcb.c:22-23; no task of this module is more urgent: it may come between any
\* two of their steps.
SisClears ==
  /\ Shocks
  /\ lka_flag' = 0 /\ scc_flag' = 0 /\ UNCHANGED dir_flag
  /\ Interferes
  /\ UNCHANGED <<st, pc, controls, laneVars, mainVars, reg, servoVars>>

Wake(t) ==
  /\ st[t] = "delayed"
  /\ st' = Rouse(st, t)
  /\ UNCHANGED <<pc, flagVars, laneVars, mainVars, reg, servoVars>>

-----------------------------------------------------------------------------
(* StartSCCTask, StartLKATask                                              *)

\* scc.c:23-25; the rest of the iteration (:26-91) touches none of this state, and
\* but for interrupts nobody runs before its end.
SccStep ==
  /\ Running(st, "scc")
  /\ \E pressed \in Presses : scc_flag' = IF pressed THEN 0 ELSE scc_flag
  /\ st' = Delay(st, "scc")
  /\ UNCHANGED <<lka_flag, dir_flag>> /\ Interferes
  /\ UNCHANGED <<pc, controls, laneVars, mainVars, reg, servoVars>>

\* lka.c:24-29: angle is computed in degrees when the offset is a lane's, kept
\* otherwise, then clamped to 0 .. 180 and turned, in place, into a pulse of
\* 1000 us or more; the quotient leaves 0 .. 180 at every speed but in the middle.
\* The reads of offset_val are one step: between two of them Main can make it 50
\* or, with this task suspended, the lane's server any offset, each with an
\* outcome that is one of these.
Steered == CASE offset_val = 0   -> "left"
             [] offset_val = 50  -> "center"
             [] offset_val = 100 -> "right"
             [] angle = "none"   -> "left"    \* never computed: 0 degrees
             [] OTHER            -> "right"   \* a pulse: over 180 degrees
LkaAngle ==
  /\ Step("lka", "angle", "pulse")
  /\ angle' = Steered /\ UNCHANGED servo

\* lka.c:34-37; the angle is an old one from here on.  Main runs at the same
\* priority: it may suspend the task before this, which then comes back with the
\* pulse of an earlier offset.
LkaPulse ==
  /\ At("lka", "pulse") /\ Goto("lka", "angle")
  /\ servo' = angle /\ angle' = "old"
  /\ st' = Delay(st, "lka")

LkaStep ==
  /\ LkaAngle \/ LkaPulse
  /\ UNCHANGED <<flagVars, laneVars, mainVars, reg>>

-----------------------------------------------------------------------------
(* tcp_server_thread2.  When setting up its port fails the task returns,   *)
(* which stops the controller: it is served, or nothing runs.  Waiting for *)
(* a client and waiting for its message are one label: a client that comes *)
(* or goes (tcp_server.c:397-408, 553-569) touches none of this state.     *)
(* What it said last stays: the offset, its indicator and both flags.      *)

\* A message that is cut: without both fields the flags are computed again from
\* the values of the message before.  Cut within its indicator it reads as 0,
\* which is another of the Lanes.
LaneCut == Looks("tcp2", "recv", "first")

\* A message too long for the buffer is dropped (tcp_server.c:415).
LaneDropped == Calls("tcp2", "recv", "recv", Delay(st, "tcp2"))

\* A message is received, one chunk of it a buffer; the two values it carries
\* are stored.
LaneReceived(m) ==
  /\ Step("tcp2", "recv", "first")
  /\ offset_val' = m[1] /\ dir_flag_pi' = m[2]
  /\ UNCHANGED <<flagVars, lka_1st_flag, lka_2nd_flag, mainVars, reg, servoVars>>

\* tcp_server.c:466 and 471
LaneLeft == lka_1st_flag = 0 /\ offset_val = 200 /\ dir_flag_pi = 0
LaneLost == lka_2nd_flag = 0 /\ offset_val = 150

\* tcp_server.c:466-478, a flag is set or both are cleared.
LaneFlag(l, m, first, second) ==
  /\ Step("tcp2", l, m)
  /\ lka_1st_flag' = first /\ lka_2nd_flag' = second
  /\ UNCHANGED <<flagVars, offset_val, dir_flag_pi, mainVars, reg, servoVars>>

\* The end of an iteration: the status line, once a second, reads the flags and
\* changes none of them (tcp_server.c:490-553); then the task sleeps.
LaneEnds(l) == At("tcp2", l) /\ Goto("tcp2", "recv") /\ st' = Delay(st, "tcp2")

\* tcp_server.c:468 and 473
LaneOff(l) ==
  /\ LaneEnds(l)
  /\ lka_flag' = 0
  /\ UNCHANGED <<scc_flag, dir_flag, late, controls, laneVars, mainVars, reg, servoVars>>

\* tcp_server.c:476-478
LaneClear ==
  /\ LaneEnds("clear")
  /\ lka_1st_flag' = 0 /\ lka_2nd_flag' = 0
  /\ UNCHANGED <<flagVars, offset_val, dir_flag_pi, mainVars, reg, servoVars>>

Tcp2Step ==
  \/ LaneCut \/ LaneDropped
  \/ \E m \in Lanes : LaneReceived(m)
  \/ LaneLeft /\ LaneFlag("first", "firstOff", 1, lka_2nd_flag)
  \/ ~LaneLeft /\ Looks("tcp2", "first", "second")
  \/ LaneLost /\ LaneFlag("second", "secondOff", lka_1st_flag, 1)
  \/ ~LaneLost /\ Looks("tcp2", "second", "clear")
  \/ LaneOff("firstOff") \/ LaneOff("secondOff") \/ LaneClear

-----------------------------------------------------------------------------
(* tcp_server_thread, tcp_server.c:155-173: a line of the driver's is      *)
(* obeyed.  The task is the least urgent one: its sleep keeps nobody       *)
(* waiting, and like a button that is not allowed changes nothing here.    *)

\* The two halves of flag ^= 1 for button b.
Load(l, b) ==
  /\ Step("tcp", l, b)
  /\ reg' = [reg EXCEPT !.tcp = CASE b = "!" -> scc_flag [] b = "@" -> lka_flag
                                   [] b = "#" -> dir_flag]
  /\ UNCHANGED <<flagVars, laneVars, mainVars, servoVars>>

Store(b) ==
  /\ Step("tcp", b, "recv")
  /\ scc_flag' = IF b = "!" THEN 1 - reg.tcp ELSE scc_flag
  /\ lka_flag' = IF b = "@" THEN 1 - reg.tcp ELSE lka_flag
  /\ dir_flag' = IF b = "#" THEN 1 - reg.tcp ELSE dir_flag
  /\ reg' = [reg EXCEPT !.tcp = 0]
  /\ UNCHANGED <<late, controls, laneVars, mainVars, servoVars>>

\* tcp_server.c:161
ButtonAllows == dir_flag = 0

TcpStep ==
  \E b \in controls \cap Buttons :
    \/ b # "@" /\ Load("recv", b)
    \/ b = "@" /\ ButtonAllows /\ Looks("tcp", "recv", "allowed")
    \/ b = "@" /\ Load("allowed", b)
    \/ Store(b)

-----------------------------------------------------------------------------
(* StartMainTask, main.c:540-603                                           *)

\* main.c:562, and the mutant that remembers nothing.
MutSccPrev == Looks("main", "sccPrev", "dir")
SccPrev ==
  /\ Step("main", "sccPrev", "dir")
  /\ prev_scc_flag' = scc_flag
  /\ UNCHANGED <<flagVars, laneVars, lka_on_flag, prev_lka_flag, prev_dir_flag, reg,
                 servoVars>>

\* main.c:540-563
MainScc ==
  \/ Looks("main", "scc", IF scc_flag # prev_scc_flag THEN "sccIf" ELSE "dir")
  \/ Handles("scc", IF scc_flag = 1 THEN "sccOn" ELSE "sccOff")
  \/ Calls("main", "sccOn", "sccPrev", Resume(st, "scc"))
  \/ Calls("main", "sccOff", "sccPrev", Suspend(st, "scc"))
  \/ SccPrev

\* main.c:569-570, the indicator is on: remember lane keeping, read it to
\* invert it; the mutant does not invert it.
MutDirSave ==
  /\ Step("main", "dirSave", "dirStore")
  /\ lka_on_flag' = 1 /\ reg' = [reg EXCEPT !.main = lka_flag]
  /\ UNCHANGED <<flagVars, laneVars, prev_scc_flag, prev_lka_flag, prev_dir_flag,
                 servoVars>>
DirSave ==
  /\ Step("main", "dirSave", "dirStore")
  /\ lka_on_flag' = 1 /\ reg' = [reg EXCEPT !.main = 1 - lka_flag]
  /\ UNCHANGED <<flagVars, laneVars, prev_scc_flag, prev_lka_flag, prev_dir_flag,
                 servoVars>>

\* main.c:577-579, the indicator is off: forget it, and read it to invert it
\* back; the mutant does not forget.
MutDirBack ==
  /\ Step("main", "dirBack", "dirStore")
  /\ lka_1st_flag' = 0 /\ reg' = [reg EXCEPT !.main = 1 - lka_flag]
  /\ UNCHANGED <<flagVars, lka_2nd_flag, offset_val, dir_flag_pi, lka_on_flag,
                 prev_scc_flag, prev_lka_flag, prev_dir_flag, servoVars>>
DirBack ==
  /\ Step("main", "dirBack", "dirStore")
  /\ lka_on_flag' = 0 /\ lka_1st_flag' = 0 /\ reg' = [reg EXCEPT !.main = 1 - lka_flag]
  /\ UNCHANGED <<flagVars, lka_2nd_flag, offset_val, dir_flag_pi, prev_scc_flag,
                 prev_lka_flag, prev_dir_flag, servoVars>>

DirStore ==
  /\ Step("main", "dirStore", "dirPrev")
  /\ lka_flag' = reg.main /\ reg' = [reg EXCEPT !.main = 0]
  /\ UNCHANGED <<scc_flag, dir_flag, late, controls, laneVars, mainVars, servoVars>>

DirPrev ==
  /\ Step("main", "dirPrev", "lka")
  /\ prev_dir_flag' = dir_flag
  /\ UNCHANGED <<flagVars, laneVars, lka_on_flag, prev_scc_flag, prev_lka_flag, reg,
                 servoVars>>

\* main.c:565-584
MainDir ==
  \/ Looks("main", "dir", IF dir_flag # prev_dir_flag THEN "dirIf" ELSE "lka")
  \/ Handles("dir", IF dir_flag = 1 THEN "dirOn" ELSE "dirOff")
  \/ Looks("main", "dirOn", IF lka_flag = 1 THEN "dirSave" ELSE "dirPrev")
  \/ Looks("main", "dirOff", IF lka_on_flag = 1 THEN "dirBack" ELSE "dirPrev")
  \/ DirSave \/ DirBack \/ DirStore \/ DirPrev

\* main.c:588.  Of the five values only lka_flag and dir_flag can change
\* between two reads of this expression, by a key or SIS, which then counts as a
\* change before or after it; the reads are one step.
LkaAllowed ==
  /\ lka_flag = 1 /\ dir_flag = 0
  /\ lka_1st_flag = 0 /\ lka_2nd_flag = 0 /\ offset_val # 150

\* main.c:594-595, and the mutant that only resets the offset.
MutLkaCenter ==
  /\ Step("main", "lkaCenter", "lkaPrev")
  /\ offset_val' = 50
  /\ UNCHANGED <<flagVars, lka_1st_flag, lka_2nd_flag, dir_flag_pi, mainVars, reg, servoVars>>
LkaCenter ==
  /\ Step("main", "lkaCenter", "lkaPrev")
  /\ servo' = "center" /\ offset_val' = 50
  /\ UNCHANGED <<flagVars, lka_1st_flag, lka_2nd_flag, dir_flag_pi, mainVars, reg, angle>>

LkaPrev ==
  /\ Step("main", "lkaPrev", "sleep")
  /\ prev_lka_flag' = lka_flag
  /\ UNCHANGED <<flagVars, laneVars, lka_on_flag, prev_scc_flag, prev_dir_flag, reg,
                 servoVars>>

\* main.c:586-603
MainLka ==
  \/ Looks("main", "lka", IF lka_flag # prev_lka_flag THEN "lkaIf" ELSE "sleep")
  \/ Handles("lka", IF LkaAllowed THEN "lkaOn" ELSE "lkaOff")
  \/ Calls("main", "lkaOn", "lkaPrev", Resume(st, "lka"))
  \/ Calls("main", "lkaOff", "lkaCenter", Suspend(st, "lka"))
  \/ LkaCenter \/ LkaPrev
  \/ Calls("main", "sleep", "scc", Delay(st, "main"))

MainLoop == MainScc \/ MainDir \/ MainLka

-----------------------------------------------------------------------------
Next ==
  \/ SisClears \/ MainLoop \/ SccStep \/ LkaStep \/ Tcp2Step \/ TcpStep
  \/ \E k \in controls \cap Keys : KeyIsr(k)
  \/ \E t \in Task : Wake(t)

Spec == Init /\ [][Next]_vars

-----------------------------------------------------------------------------
\* The type of every variable.
TypeOK ==
  /\ controls \in Drives
  /\ st \in [Task -> TaskState]
  /\ pc \in [main : MainLabels, lka : LkaLabels, tcp : TcpLabels, tcp2 : Tcp2Labels]
  /\ scc_flag \in Bit /\ lka_flag \in Bit /\ dir_flag \in Bit
  /\ lka_on_flag \in Bit /\ lka_1st_flag \in Bit /\ lka_2nd_flag \in Bit
  /\ offset_val \in Offset /\ dir_flag_pi \in Bit
  /\ prev_scc_flag \in Bit /\ prev_lka_flag \in Bit /\ prev_dir_flag \in Bit
  /\ reg \in [main : Bit, tcp : Bit]
  /\ angle \in (IF pc["lka"] = "pulse" THEN Pulse ELSE {"none", "old"}) /\ servo \in Pulse
  /\ late \subseteq Flag

\* Main sleeps and saw the flag's last change.
Settled(flag, prev) == Asleep /\ flag = prev

\* Main turns cruise control on and off by its flag (main.c:540-563): when it
\* saw the last change, the task runs exactly if the flag is set, unless a key, SIS
\* or the task itself wrote the flag between Main's test and its copy of it (:562)
\* and it has not changed since.
SccFollowsFlag ==
  Settled(scc_flag, prev_scc_flag) /\ "scc" \notin late =>
    (st["scc"] # "suspended" <=> scc_flag = 1)

LkaSettled == Settled(lka_flag, prev_lka_flag) /\ Settled(dir_flag, prev_dir_flag)

\* Lane keeping does not run with its flag down or the indicator on
\* (main.c:565-601), unless a key or SIS wrote one of the two while Main handled
\* them and Main has handled no change of lane keeping's flag since.
LkaOffByFlag ==
  LkaSettled /\ "lka" \notin late /\ (lka_flag = 0 \/ dir_flag = 1) =>
    st["lka"] = "suspended"

\* Lane keeping is remembered only while the indicator is on (main.c:565-584): no
\* later signal brings it back, unless a key switched the indicator while Main
\* handled it.
RememberedOnlyWhileSignalling ==
  Settled(dir_flag, prev_dir_flag) /\ "dir" \notin late /\ lka_on_flag = 1 => dir_flag = 1

\* A suspended lane keeping leaves the wheel in the middle: Main suspends the
\* task before it centers (main.c:593-594), so that no iteration of the task
\* steers again in between.
ParkedCentered ==
  st["lka"] = "suspended" /\ pc["main"] # "lkaCenter" => servo = "center"
=============================================================================
