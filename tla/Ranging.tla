------------------------------- MODULE Ranging -------------------------------
(***************************************************************************)
(* The distance to the car ahead, as cruise control sees it: the task of   *)
(* the ultrasonic sensor takes Samples echoes, sorts them and publishes    *)
(* the one in the middle.  The two controllers wait for the echo with      *)
(* different counters: phase 1 counts down from Patience and looks for 0,  *)
(* but its loop leaves the counter wrapped around; phase 2 counts up.      *)
(*                                                                         *)
(* One poll of the line takes one tick of the timer.  A more urgent task   *)
(* may hold the task up for a tick between two polls, MaxLate times in one *)
(* window.  A distance is the ticks of its echo.  Sizes are scaled down:   *)
(* Patience is the 1,000,000 polls of phase 1, the 30,000 of phase 2,      *)
(* Samples the 9, Wrap the 2^32 of timeout and timer.  Names that Pwm has  *)
(* as well carry Uss, so that one module can extend both.                  *)
(*                                                                         *)
(* faulty, stuck and late are history: the samples of the window that were *)
(* held up, not answered or stuck; that one was stuck; and how often the   *)
(* task was held up.                                                       *)
(*                                                                         *)
(* Definitions named Mut... are plausible mistakes in the definition that  *)
(* follows; the project substitutes them to see the properties fail.       *)
(***************************************************************************)
EXTENDS Integers, Sequences, FiniteSets

CONSTANTS Phases,    \* the controllers: 1, 2 or both
          Echoes,    \* the lengths of the echo
          Mutes,     \* the sensor may not answer
          Sticks,    \* the line may stick high
          Patience, Samples, Wrap,
          MaxLate    \* bound: the times the task is held up in a window

ASSUME RangingAssumption ==
  /\ Phases \subseteq {1, 2} /\ Echoes \subseteq Nat \ {0} /\ Echoes # {}
  /\ Mutes \in BOOLEAN /\ Sticks \in BOOLEAN
  /\ {Patience, Samples} \subseteq Nat \ {0} /\ MaxLate \in Nat
  /\ Wrap \in Nat /\ \A e \in Echoes : e < Patience /\ 2 * Patience < Wrap
  /\ 2 < Patience     \* the sensor answers within the wait

VARIABLES
  phase,            \* the controller whose task this is; never changes
  uss_pc,           \* "trigger", "rise", "rose", "fall", "sleep"
  echo, left,       \* the line, and the ticks until it changes
  timer,            \* the timer, modulo Wrap
  timeout, start,   \* the locals of a measurement
  samples, shared_distance,
  late, faulty, stuck

lineVars == <<echo, left, timer>>
windowVars == <<samples, shared_distance, late, faulty, stuck>>
ussVars == <<phase, uss_pc, lineVars, timeout, start, windowVars>>

Never == 0     \* the line stays as it is

UssInit ==
  /\ phase \in Phases
  /\ uss_pc = "trigger" /\ echo = 0 /\ left = Never /\ timer = 0
  /\ timeout = 0 /\ start = 0
  /\ samples = <<>> /\ shared_distance = 0
  /\ late = 0 /\ faulty = {} /\ stuck = FALSE

Current == Len(samples) + 1

-----------------------------------------------------------------------------
(* The sensor and the time                                                 *)

\* A tick passes; a line that rose falls after one of the lengths.
Tick ==
  /\ timer' = (timer + 1) % Wrap
  /\ \/ left = Never /\ UNCHANGED <<echo, left>>
     \/ left > 1 /\ left' = left - 1 /\ UNCHANGED echo
     \/ left = 1 /\ echo = 0 /\ echo' = 1 /\ left' \in Echoes
     \/ left = 1 /\ echo = 1 /\ echo' = 0 /\ left' = Never

\* A more urgent task runs for a tick.
Late ==
  /\ uss_pc \in {"rise", "rose", "fall"} /\ late < MaxLate
  /\ Tick
  /\ late' = late + 1 /\ faulty' = faulty \cup {Current}
  /\ UNCHANGED <<phase, uss_pc, timeout, start, samples, shared_distance, stuck>>

\* The line sticks high.
Stick ==
  /\ Sticks /\ echo = 1 /\ left # Never
  /\ left' = Never
  /\ faulty' = faulty \cup {Current} /\ stuck' = TRUE
  /\ UNCHANGED <<phase, uss_pc, echo, timer, timeout, start, samples, shared_distance,
                 late>>

-----------------------------------------------------------------------------
(* read_distance_cm, uss.c:21-45 of phase 1, uss.c:61-113 of phase 2       *)

Timeout0 == IF phase = 1 THEN Patience ELSE 0

\* The next round of the loop is the last: timeout-- is 0 in phase 1,
\* timeout++ < 30000 is false in phase 2.
Exhausted == IF phase = 1 THEN timeout = 0 ELSE timeout >= Patience

\* The counter after a round, and the mutant that forgets to count.
MutCount == timeout
Count == (IF phase = 1 THEN timeout - 1 ELSE timeout + 1) % Wrap

\* The pulse that starts a measurement; phase 1 clears its timer for it.  The
\* sensor answers within two ticks, or not at all.
Trigger ==
  /\ uss_pc = "trigger" /\ uss_pc' = "rise"
  /\ timeout' = Timeout0
  /\ timer' = IF phase = 1 THEN 0 ELSE timer
  /\ \/ echo = 0 /\ left' \in {1, 2} /\ UNCHANGED faulty
     \/ echo = 0 /\ Mutes /\ UNCHANGED left /\ faulty' = faulty \cup {Current}
     \/ echo = 1 /\ UNCHANGED left /\ faulty' = faulty \cup {Current}
  /\ UNCHANGED <<phase, echo, start, samples, shared_distance, late, stuck>>

Measured(d) == uss_pc' = "sleep" /\ samples' = Append(samples, d)

\* A poll finds the line low.  A wait that is given up leaves phase 1's counter
\* wrapped around, not 0, so that phase 1 goes on to measure.
PollLow ==
  /\ uss_pc = "rise" /\ echo = 0
  /\ timeout' = Count
  /\ \/ ~Exhausted /\ Tick /\ UNCHANGED <<uss_pc, samples>>
     \/ Exhausted /\ phase = 1 /\ uss_pc' = "rose" /\ UNCHANGED <<lineVars, samples>>
     \/ Exhausted /\ phase = 2 /\ Measured(0) /\ UNCHANGED lineVars
  /\ UNCHANGED <<phase, start, shared_distance, late, faulty, stuck>>

\* A poll finds it high; one that could have been the last is taken for none.
PollHigh ==
  /\ uss_pc = "rise" /\ echo = 1
  /\ IF Exhausted THEN Measured(0) ELSE uss_pc' = "rose" /\ UNCHANGED samples
  /\ UNCHANGED <<phase, lineVars, timeout, start, shared_distance, late, faulty, stuck>>

\* The time of the rise is kept; the mutant keeps the one before.
MutRose ==
  /\ uss_pc = "rose" /\ uss_pc' = "fall"
  /\ timeout' = Timeout0
  /\ UNCHANGED <<phase, lineVars, start, windowVars>>
Rose ==
  /\ uss_pc = "rose" /\ uss_pc' = "fall"
  /\ timeout' = Timeout0 /\ start' = timer
  /\ UNCHANGED <<phase, lineVars, windowVars>>

\* The echo goes on, or it ends, or the wait does: phase 1 rejects an end it
\* saw with the counter at 0, neither rejects a wait that was given up.
Duration == IF phase = 1 /\ echo = 0 /\ Exhausted THEN 0 ELSE (timer - start) % Wrap
PollFall ==
  /\ uss_pc = "fall"
  /\ IF echo = 1 /\ ~Exhausted
     THEN timeout' = Count /\ Tick /\ UNCHANGED <<uss_pc, samples>>
     ELSE Measured(Duration) /\ UNCHANGED <<lineVars, timeout>>
  /\ UNCHANGED <<phase, start, shared_distance, late, faulty, stuck>>

-----------------------------------------------------------------------------
(* StartUSSTask, uss.c:63-81, and USS_Task, uss.c:115-138                  *)

\* The place that qsort gives to sample i of s; which of two equal samples comes
\* first makes no difference.
Ahead(s, i) == {j \in DOMAIN s : s[j] < s[i] \/ (s[j] = s[i] /\ j <= i)}
Place(s, i) == Cardinality(Ahead(s, i))
Middle(s) == (Len(s) + 1) \div 2

\* The mutant takes the middle of what is not sorted.
MutMedian(s) == s[Middle(s)]
Median(s) == s[CHOOSE i \in DOMAIN s : Place(s, i) = Middle(s)]

\* The task sleeps until the line is quiet, unless it is stuck; after the last
\* sample it publishes.
Sleep ==
  /\ uss_pc = "sleep" /\ uss_pc' = "trigger"
  /\ left' = Never
  /\ \/ echo' = 0
     \/ Sticks /\ stuck /\ UNCHANGED echo
  /\ IF Len(samples) < Samples
     THEN UNCHANGED windowVars
     ELSE /\ shared_distance' = Median(samples)
          /\ samples' = <<>> /\ late' = 0 /\ faulty' = {}
          /\ stuck' = (echo' = 1)
  /\ UNCHANGED <<phase, timer, timeout, start>>

TaskStep == Trigger \/ PollLow \/ PollHigh \/ Rose \/ PollFall \/ Sleep

UssNext == Late \/ Stick \/ TaskStep

UssSpec == UssInit /\ [][UssNext]_ussVars

\* The task runs on, however often it is held up.
UssFairSpec == UssSpec /\ WF_ussVars(TaskStep)

-----------------------------------------------------------------------------
\* The type of every variable.
UssTypeOK ==
  /\ phase \in Phases
  /\ uss_pc \in {"trigger", "rise", "rose", "fall", "sleep"}
  /\ echo \in {0, 1} /\ left \in Nat
  /\ timer \in 0 .. Wrap - 1 /\ timeout \in 0 .. Wrap - 1 /\ start \in 0 .. Wrap - 1
  /\ samples \in Seq(0 .. Wrap - 1) /\ Len(samples) <= Samples
  /\ shared_distance \in 0 .. Wrap - 1
  /\ late \in 0 .. MaxLate /\ faulty \subseteq 1 .. Samples /\ stuck \in BOOLEAN

Publishes == uss_pc = "sleep" /\ Len(samples) = Samples
Farthest == CHOOSE e \in Echoes : \A f \in Echoes : f <= e
Nearest == CHOOSE e \in Echoes : \A f \in Echoes : e <= f

\* The middle of the sorted window hides faults (uss.c:74-75 of phase 1,
\* :135-136 of phase 2): while less than half of the samples are held up,
\* lost or stuck, the distance published is between those of good echoes.
FaultsAreHidden ==
  [][Publishes /\ 2 * Cardinality(faulty) < Samples =>
       shared_distance' \in Nearest .. Farthest]_ussVars

\* A sensor that does not answer, however often, and whatever the counter of
\* the wait is left at (uss.c:31-33 of phase 1, :76-85 of phase 2), never
\* makes the road look freer than it is.
MuteIsNeverFar ==
  [][Publishes /\ late = 0 /\ ~stuck => shared_distance' <= Farthest]_ussVars

\* No sensor, mute or stuck, keeps the task from publishing: every wait ends.
AlwaysPublishes == []<>Publishes
=============================================================================
