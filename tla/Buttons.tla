------------------------------- MODULE Buttons -------------------------------
(***************************************************************************)
(* The driver's buttons and pedals on the Raspberry Pi: the character      *)
(* device of buttons_driver2.c, with one slot for a press, and the program *)
(* last_last.c that reads it and sends a line for each report, and one for *)
(* the pedals every SENSOR_SEND_INTERVAL.                                  *)
(*                                                                         *)
(* The interrupt handler has run when its two stores are visible.  On one  *)
(* processor it runs between two instructions of the reader; on several    *)
(* the reader runs beside it and sees the two stores in either order,      *)
(* since nothing orders them.                                              *)
(*                                                                         *)
(* Time passes in ticks while the program sleeps in poll; what it does     *)
(* between two waits takes none.  The durations are numbers of ticks of    *)
(* any length.  jiffies and millis are one clock that counts modulo Wrap   *)
(* the ticks that elapsed counts without end.  handledAt, ignored, handled *)
(* and reported (the lines handed to send for a button) are history: no    *)
(* action reads them but to bound the run.                                 *)
(*                                                                         *)
(* Definitions named Mut... are plausible mistakes in the definition that  *)
(* follows; the project substitutes them to see the properties fail.       *)
(***************************************************************************)
EXTENDS Integers

CONSTANTS Button,      \* the ids of the buttons
          SMP,         \* the kernel runs on several processors
          DEBOUNCE_TIME,         \* DEBOUNCE_TIME_MS, 100 ms
          SENSOR_SEND_INTERVAL,  \* 100 ms
          POLL_TIMEOUT,          \* the 50 ms of poll
          Starts,      \* the ticks elapsed when the driver is loaded
          Wrap,        \* the clock counts modulo Wrap
          Horizon,     \* bound: the ticks elapsed when the run ends
          MaxPresses   \* bound: the presses handled in the run

ASSUME ButtonsAssumption ==
  /\ Button \subseteq Nat \ {0} /\ SMP \in BOOLEAN
  /\ {DEBOUNCE_TIME, SENSOR_SEND_INTERVAL, POLL_TIMEOUT} \subseteq Nat \ {0}
  /\ Wrap \in Nat \ {0} /\ Horizon \in Nat /\ Starts \subseteq 0 .. Horizon
  /\ MaxPresses \in Nat

VARIABLES
  button_pressed, pressed_button_id, last_pressed_jiffies,
  stores,            \* the stores of the interrupt handler still to be seen
  isrId,             \* its button
  app,               \* where last_last.c is
  left,              \* what is left of poll's timeout
  msg,               \* the id printed for the reader
  last_sensor_time,
  conn,              \* the connection is up
  elapsed, handled, handledAt, ignored, reported

driverVars == <<button_pressed, pressed_button_id, last_pressed_jiffies, stores, isrId>>
appVars    == <<app, left, msg, last_sensor_time>>
pressVars  == <<handled, handledAt, ignored>>
vars == <<driverVars, appVars, conn, elapsed, pressVars, reported>>

AppLabels == {"start", "poll", "wait", "print", "clear", "send", "sensor", "exit"}
Never == -1
NoId == -1

Init ==
  /\ button_pressed = 0 /\ pressed_button_id = NoId
  /\ last_pressed_jiffies = [b \in Button |-> 0]
  /\ stores = {} /\ isrId = NoId
  /\ app = "start" /\ left = 0 /\ msg = NoId /\ last_sensor_time = 0
  /\ conn = TRUE /\ elapsed \in Starts
  /\ handled = 0 /\ reported = 0
  /\ handledAt = [b \in Button |-> Never] /\ ignored = {}

Now == elapsed % Wrap

\* time_before and time_after of the kernel: the sign of the difference.
TimeBefore(a, b) == (a - b) % Wrap >= Wrap \div 2

-----------------------------------------------------------------------------
(* buttons_driver2.c                                                       *)

\* The time of the press is kept.
Keep(b) == last_pressed_jiffies' = [last_pressed_jiffies EXCEPT ![b] = Now]

\* The line of a button falls: a press, or a bounce.  The handler ignores it;
\* the mutant counts the interval from it.
MutEdgeIgnored(b) ==
  /\ stores = {}
  /\ TimeBefore(Now, (last_pressed_jiffies[b] + DEBOUNCE_TIME) % Wrap)
  /\ ignored' = ignored \cup
       {IF handledAt[b] = Never THEN Never ELSE elapsed - handledAt[b]}
  /\ Keep(b)
  /\ UNCHANGED <<button_pressed, pressed_button_id, stores, isrId, appVars, conn,
                 elapsed, handled, handledAt, reported>>
EdgeIgnored(b) ==
  /\ stores = {}
  /\ TimeBefore(Now, (last_pressed_jiffies[b] + DEBOUNCE_TIME) % Wrap)
  /\ ignored' = ignored \cup
       {IF handledAt[b] = Never THEN Never ELSE elapsed - handledAt[b]}
  /\ UNCHANGED <<driverVars, appVars, conn, elapsed, handled, handledAt, reported>>

\* The handler keeps the time and reports the button.
EdgeHandled(b) ==
  /\ stores = {} /\ handled < MaxPresses
  /\ ~TimeBefore(Now, (last_pressed_jiffies[b] + DEBOUNCE_TIME) % Wrap)
  /\ Keep(b)
  /\ stores' = {"id", "flag"} /\ isrId' = b
  /\ handled' = handled + 1
  /\ handledAt' = [handledAt EXCEPT ![b] = elapsed]
  /\ UNCHANGED <<button_pressed, pressed_button_id, appVars, conn, elapsed,
                 ignored, reported>>

\* One of its stores is seen; the last one wakes the reader.
IsrStore(x) ==
  /\ x \in stores
  /\ stores' = stores \ {x}
  /\ IF x = "id" THEN pressed_button_id' = isrId /\ UNCHANGED button_pressed
                 ELSE button_pressed' = 1 /\ UNCHANGED pressed_button_id
  /\ UNCHANGED <<last_pressed_jiffies, isrId, appVars, conn, elapsed, pressVars,
                 reported>>

\* The reader's processor is not in the handler.
Free == SMP \/ stores = {}

\* A step of the program from l to m.
AppStep(l, m) == Free /\ app = l /\ app' = m

\* buttons_read: wait for the flag ...
ReadWait ==
  /\ AppStep("wait", "print") /\ button_pressed = 1
  /\ UNCHANGED <<driverVars, left, msg, last_sensor_time, conn, elapsed, pressVars,
                 reported>>

\* ... print the id ...
ReadPrint ==
  /\ AppStep("print", "clear")
  /\ msg' = pressed_button_id
  /\ UNCHANGED <<driverVars, left, last_sensor_time, conn, elapsed, pressVars,
                 reported>>

\* ... and clear the flag, and the mutant that leaves it up.
MutReadClear ==
  /\ AppStep("clear", "send")
  /\ UNCHANGED <<driverVars, left, msg, last_sensor_time, conn, elapsed, pressVars,
                 reported>>
ReadClear ==
  /\ AppStep("clear", "send")
  /\ button_pressed' = 0
  /\ UNCHANGED <<pressed_button_id, last_pressed_jiffies, stores, isrId, left, msg,
                 last_sensor_time, conn, elapsed, pressVars, reported>>

-----------------------------------------------------------------------------
(* last_last.c                                                             *)

\* socket, connect, open, or one of them fails.
Connect ==
  /\ \E m \in {"poll", "exit"} : AppStep("start", m)
  /\ left' = POLL_TIMEOUT
  /\ UNCHANGED <<driverVars, msg, last_sensor_time, conn, elapsed, pressVars, reported>>

\* poll returns: a button is reported, or the timeout is over.  One mutant
\* reads the device in either case, one does not ask for POLLIN.
MutPollMasked ==
  /\ left = 0 /\ AppStep("poll", "sensor")
  /\ UNCHANGED <<driverVars, left, msg, last_sensor_time, conn, elapsed, pressVars,
                 reported>>
MutPoll ==
  /\ button_pressed = 1 \/ left = 0
  /\ AppStep("poll", "wait")
  /\ UNCHANGED <<driverVars, left, msg, last_sensor_time, conn, elapsed, pressVars,
                 reported>>
Poll ==
  /\ \/ button_pressed = 1 /\ AppStep("poll", "wait")
     \/ button_pressed = 0 /\ left = 0 /\ AppStep("poll", "sensor")
  /\ UNCHANGED <<driverVars, left, msg, last_sensor_time, conn, elapsed, pressVars,
                 reported>>

\* send_message: a closed connection ends the program with a signal.
After(l) == IF conn THEN l ELSE "exit"

\* A line for the button; an id that is no button's is not sent.
SendButton ==
  /\ AppStep("send", IF msg \in Button THEN After("sensor") ELSE "sensor")
  /\ reported' = IF msg \in Button THEN reported + 1 ELSE reported
  /\ msg' = NoId
  /\ UNCHANGED <<driverVars, left, last_sensor_time, conn, elapsed, pressVars>>

Due == (Now - last_sensor_time) % Wrap >= SENSOR_SEND_INTERVAL

\* Mutant: elapsed time compared as a sum, which the wrap breaks.
MutSensor ==
  /\ AppStep("sensor", "poll")
  /\ last_sensor_time' =
       IF Now >= last_sensor_time + SENSOR_SEND_INTERVAL THEN Now ELSE last_sensor_time
  /\ left' = POLL_TIMEOUT
  /\ UNCHANGED <<driverVars, msg, conn, elapsed, pressVars, reported>>

\* Sample the pedals when it is time, send a line if one is pressed, and poll.
Sensor ==
  /\ \/ ~Due /\ AppStep("sensor", "poll") /\ UNCHANGED last_sensor_time
     \/ /\ Due /\ last_sensor_time' = Now
        /\ \E pressed \in BOOLEAN :
             AppStep("sensor", IF pressed THEN After("poll") ELSE "poll")
  /\ left' = POLL_TIMEOUT
  /\ UNCHANGED <<driverVars, msg, conn, elapsed, pressVars, reported>>

-----------------------------------------------------------------------------
\* Time passes while the program sleeps: in poll, or before it is started.
Tick ==
  /\ elapsed < Horizon /\ stores = {}
  /\ \/ app \in {"start", "wait"} /\ button_pressed = 0 /\ UNCHANGED left
     \/ app = "poll" /\ button_pressed = 0 /\ left > 0 /\ left' = left - 1
  /\ elapsed' = elapsed + 1
  /\ UNCHANGED <<driverVars, app, msg, last_sensor_time, conn, pressVars, reported>>

\* The controller closes the connection, and a first line was answered by a reset.
Disconnect ==
  /\ conn /\ app # "start"
  /\ conn' = FALSE
  /\ UNCHANGED <<driverVars, appVars, elapsed, pressVars, reported>>

Program == Connect \/ Poll \/ ReadWait \/ ReadPrint \/ ReadClear \/ SendButton \/ Sensor

Next ==
  \/ \E b \in Button : EdgeIgnored(b) \/ EdgeHandled(b)
  \/ \E x \in {"id", "flag"} : IsrStore(x)
  \/ Program \/ Tick \/ Disconnect

Spec == Init /\ [][Next]_vars

\* The handler ends and the program goes on.
Fairness == WF_vars(\E x \in {"id", "flag"} : IsrStore(x)) /\ WF_vars(Program)
FairSpec == Spec /\ Fairness

-----------------------------------------------------------------------------
\* The type of every variable.
TypeOK ==
  /\ button_pressed \in {0, 1} /\ pressed_button_id \in Button \cup {NoId}
  /\ last_pressed_jiffies \in [Button -> 0 .. Wrap - 1]
  /\ stores \subseteq {"id", "flag"} /\ isrId \in Button \cup {NoId}
  /\ app \in AppLabels /\ left \in 0 .. POLL_TIMEOUT
  /\ msg \in Button \cup {NoId} /\ last_sensor_time \in 0 .. Wrap - 1
  /\ conn \in BOOLEAN /\ elapsed \in 0 .. Horizon
  /\ handled \in 0 .. MaxPresses /\ reported \in Nat
  /\ handledAt \in [Button -> {Never} \cup 0 .. Horizon]
  /\ ignored \subseteq {Never} \cup 0 .. Horizon

\* The program never sleeps in read (last_last.c:102, buttons_driver2.c:59):
\* poll told it a press is there, and nobody takes it away.  Asleep there it
\* would send no pedals either.
NeverBlocksInRead == app = "wait" => button_pressed = 1

\* Presses are lost but never multiplied (buttons_driver2.c:38-39, 59-64):
\* each report takes a press that was handled of its own, and so does a
\* report on its way to be sent, a flag that is up and a flag to be seen.
One(p) == IF p THEN 1 ELSE 0
EachReportTakesAPress ==
  reported + One(app = "send") + One(button_pressed = 1) + One("flag" \in stores)
    <= handled

\* The pedals are sampled less than the interval and one wait of poll, 150 ms,
\* after the last time while the program runs (last_last.c:98, 120), whatever
\* buttons are pressed and when the clock wraps: a wait that ends just before the
\* interval does is followed by one more.
SampledInTime ==
  app \notin {"start", "exit"} /\ last_sensor_time # 0 =>
    (Now - last_sensor_time) % Wrap < SENSOR_SEND_INTERVAL + POLL_TIMEOUT

\* A bounce is no press and puts none off (buttons_driver2.c:32-35): presses of
\* one button that are handled lie DEBOUNCE_TIME apart, and what is ignored lies
\* less behind one that was handled.  This is not about edges before the first press
\* that is handled: they are ignored for as long as the clock, compared with 0, is
\* before DEBOUNCE_TIME.
Debounced ==
  /\ [](\A gap \in ignored \ {Never} : gap < DEBOUNCE_TIME)
  /\ [][\A b \in Button :
          handledAt'[b] # handledAt[b] /\ handledAt[b] # Never =>
            handledAt'[b] - handledAt[b] >= DEBOUNCE_TIME]_vars

\* A report that is up is fetched, or the program has ended.
PressFetched == button_pressed = 1 ~> button_pressed = 0 \/ app \in {"start", "exit"}

=============================================================================
