--------------------------- MODULE Buttons_proofs ---------------------------
(***************************************************************************)
(* What holds of the button device of Buttons for every number of buttons, *)
(* every clock and any interleaving of the interrupt handler with the      *)
(* reader.  The clock wraps: its lemmas on remainders come first where     *)
(* time is counted.                                                        *)
(***************************************************************************)
EXTENDS Buttons, TLAPS

\* From poll's answer until it clears the flag, the reader finds it up.
FlagInv == app \in {"wait", "print", "clear"} => button_pressed = 1

CountInv ==
  /\ button_pressed \in {0, 1} /\ handled \in Nat /\ reported \in Nat
  /\ EachReportTakesAPress

IInv == FlagInv /\ CountInv

LEMMA InitIInv == Init => IInv
BY DEF Init, IInv, FlagInv, CountInv, EachReportTakesAPress, One

LEMMA DriverStep ==
  ASSUME IInv,
         \/ \E b \in Button : EdgeIgnored(b) \/ EdgeHandled(b)
         \/ \E x \in {"id", "flag"} : IsrStore(x)
  PROVE  IInv'
<1> USE DEF IInv, FlagInv, CountInv, EachReportTakesAPress, One
<1>1. ASSUME NEW b \in Button, EdgeIgnored(b) PROVE IInv'
  BY <1>1 DEF EdgeIgnored, driverVars, appVars
<1>2. ASSUME NEW b \in Button, EdgeHandled(b) PROVE IInv'
  BY <1>2 DEF EdgeHandled, appVars
<1>3. CASE IsrStore("id")
  BY <1>3 DEF IsrStore, appVars, pressVars
<1>4. CASE IsrStore("flag")
  BY <1>4 DEF IsrStore, appVars, pressVars
<1>5. QED
  BY <1>1, <1>2, <1>3, <1>4

LEMMA ReadStep == ASSUME IInv, ReadWait \/ ReadPrint \/ ReadClear PROVE IInv'
<1> USE DEF IInv, FlagInv, CountInv, EachReportTakesAPress, One, AppStep
<1>1. CASE ReadWait
  BY <1>1 DEF ReadWait, driverVars, pressVars
<1>2. CASE ReadPrint
  BY <1>2 DEF ReadPrint, driverVars, pressVars
<1>3. CASE ReadClear
  BY <1>3 DEF ReadClear, pressVars
<1>4. QED
  BY <1>1, <1>2, <1>3

LEMMA SendStep ==
  ASSUME IInv, Connect \/ Poll \/ SendButton \/ Sensor PROVE IInv'
<1> USE DEF IInv, FlagInv, CountInv, EachReportTakesAPress, One, AppStep
<1>1. CASE Connect
  BY <1>1 DEF Connect, driverVars, pressVars
<1>2. CASE Poll
  BY <1>2 DEF Poll, driverVars, pressVars
<1>3. CASE SendButton
  BY <1>3 DEF SendButton, After, driverVars, pressVars
<1>4. CASE Sensor
  BY <1>4 DEF Sensor, After, driverVars, pressVars
<1>5. QED
  BY <1>1, <1>2, <1>3, <1>4

THEOREM Invariance == Spec => []IInv
<1>1. IInv /\ [Next]_vars => IInv'
  <2> SUFFICES ASSUME IInv, [Next]_vars PROVE IInv'
    OBVIOUS
  <2>1. CASE Program
    BY <2>1, ReadStep, SendStep DEF Program
  <2>2. CASE Tick \/ Disconnect
    BY <2>2 DEF IInv, FlagInv, CountInv, EachReportTakesAPress, Tick, Disconnect,
       driverVars, appVars, pressVars
  <2>3. CASE UNCHANGED vars
    BY <2>3 DEF IInv, FlagInv, CountInv, EachReportTakesAPress, vars, driverVars,
       appVars, pressVars
  <2>4. QED
    BY <2>1, <2>2, <2>3, DriverStep DEF Next
<1>2. QED
  BY <1>1, InitIInv, PTL DEF Spec

\* The reader never sleeps in read: last_last.c:102 is reached only with a
\* report up, and only the reader takes it down.
THEOREM ReaderNeverBlocks == Spec => []NeverBlocksInRead
<1>1. IInv => NeverBlocksInRead
  BY DEF IInv, FlagInv, NeverBlocksInRead
<1>2. QED
  BY <1>1, Invariance, PTL

\* No press is reported twice over: reports are at most as many as presses
\* (buttons_driver2.c:38-39, 59-64).
THEOREM PressesAreNotMultiplied == Spec => []EachReportTakesAPress
<1>1. IInv => EachReportTakesAPress
  BY DEF IInv, CountInv
<1>2. QED
  BY <1>1, Invariance, PTL

-----------------------------------------------------------------------------
(* A clock that counts modulo W                                            *)

LEMMA Divided ==
  ASSUME NEW W \in Nat \ {0}, NEW x \in Int
  PROVE  \E q \in Int, r \in 0 .. W - 1 : x = q * W + r /\ x % W = r
<1>1. x \div W \in Int /\ x % W \in 0 .. W - 1 /\ x = (x \div W) * W + (x % W)
  OBVIOUS
<1>2. QED BY <1>1

LEMMA Remainder ==
  ASSUME NEW W \in Nat \ {0}, NEW q \in Int, NEW r \in 0 .. W - 1
  PROVE  (q * W + r) % W = r
  OBVIOUS

LEMMA Congruent ==
  ASSUME NEW W \in Nat \ {0}, NEW x \in Int, NEW y \in Int, NEW q \in Int,
         x = y + q * W
  PROVE  x % W = y % W
<1>1. PICK p \in Int, r \in 0 .. W - 1 : y = p * W + r /\ y % W = r
  BY Divided
<1>2. x = (p + q) * W + r
  <2>1. (p + q) * W = p * W + q * W
    OBVIOUS
  <2>2. p * W \in Int /\ q * W \in Int
    OBVIOUS
  <2>3. \A a, b, c \in Int : (a + b) + c = (a + c) + b
    OBVIOUS
  <2>4. QED BY <1>1, <2>1, <2>2, <2>3
<1>3. ((p + q) * W + r) % W = r
  BY Remainder
<1>4. QED BY <1>1, <1>2, <1>3

\* A remainder may be taken before or after a sum, and before or after a
\* difference.
LEMMA ModPlus ==
  ASSUME NEW W \in Nat \ {0}, NEW x \in Int, NEW y \in Int
  PROVE  ((x % W) + y) % W = (x + y) % W
<1>1. PICK q \in Int, r \in 0 .. W - 1 : x = q * W + r /\ x % W = r
  BY Divided
<1>2. x + y = (r + y) + q * W
  <2>1. q * W \in Int
    OBVIOUS
  <2>2. QED BY <1>1, <2>1
<1>3. x + y \in Int /\ r + y \in Int
  OBVIOUS
<1>4. (x + y) % W = (r + y) % W
  BY <1>2, <1>3, Congruent
<1>5. QED BY <1>1, <1>4

LEMMA ModMinus ==
  ASSUME NEW W \in Nat \ {0}, NEW x \in Int, NEW y \in Int
  PROVE  (y - (x % W)) % W = (y - x) % W
<1>1. PICK q \in Int, r \in 0 .. W - 1 : x = q * W + r /\ x % W = r
  BY Divided
<1>2. y - r = (y - x) + q * W
  <2>1. q * W \in Int
    OBVIOUS
  <2>2. QED BY <1>1, <2>1
<1>3. y - x \in Int /\ y - r \in Int
  OBVIOUS
<1>4. (y - r) % W = (y - x) % W
  BY <1>2, <1>3, Congruent
<1>5. QED BY <1>1, <1>4

\* The remainder of what lies within one turn of the clock.
LEMMA ModSmall ==
  ASSUME NEW W \in Nat \ {0}, NEW z \in Int
  PROVE  /\ z % W \in 0 .. W - 1
         /\ 0 <= z /\ z < W => z % W = z
         /\ -W <= z /\ z < 0 => z % W = z + W
<1>1. z % W \in 0 .. W - 1
  OBVIOUS
<1>2. 0 <= z /\ z < W => z % W = z
  OBVIOUS
<1>3. -W <= z /\ z < 0 => z % W = z + W
  OBVIOUS
<1>4. QED BY <1>1, <1>2, <1>3

-----------------------------------------------------------------------------
(* The types                                                               *)

LEMMA Constants ==
  /\ Button \subseteq Nat \ {0} /\ Wrap \in Nat \ {0} /\ Starts \subseteq 0 .. Horizon
  /\ DEBOUNCE_TIME \in Nat /\ SENSOR_SEND_INTERVAL \in Nat /\ POLL_TIMEOUT \in Nat
  /\ DEBOUNCE_TIME > 0 /\ SENSOR_SEND_INTERVAL > 0 /\ POLL_TIMEOUT > 0
  /\ Horizon \in Nat /\ MaxPresses \in Nat
  BY ButtonsAssumption

LEMMA NowType == ASSUME elapsed \in Nat PROVE Now \in 0 .. Wrap - 1
<1>1. elapsed \in Int
  OBVIOUS
<1>2. QED BY <1>1, Constants, ModSmall DEF Now

\* A press that was handled lies in the past.
Past == \A b \in Button : handledAt[b] <= elapsed

TypeInv == TypeOK /\ Past

LEMMA InitType == Init => TypeInv
  BY Constants
     DEF Init, TypeInv, TypeOK, Past, AppLabels, Never, NoId

LEMMA DriverType ==
  ASSUME TypeInv,
         \/ \E b \in Button : EdgeIgnored(b) \/ EdgeHandled(b)
         \/ \E x \in {"id", "flag"} : IsrStore(x)
  PROVE  TypeInv'
<1> USE Constants DEF TypeInv, TypeOK, Past, Never, NoId
<1>1. ASSUME NEW b \in Button, EdgeIgnored(b) PROVE TypeInv'
  <2>1. handledAt[b] \in {Never} \cup 0 .. Horizon /\ handledAt[b] <= elapsed
    OBVIOUS
  <2>2. handledAt[b] # Never => elapsed - handledAt[b] \in 0 .. Horizon
    BY <2>1
  <2>3. ignored' \subseteq {Never} \cup 0 .. Horizon
    BY <1>1, <2>2 DEF EdgeIgnored
  <2>4. QED BY <1>1, <2>3 DEF EdgeIgnored, driverVars, appVars
<1>2. ASSUME NEW b \in Button, EdgeHandled(b) PROVE TypeInv'
  <2>1. Now \in 0 .. Wrap - 1
    BY NowType
  <2>2. last_pressed_jiffies' \in [Button -> 0 .. Wrap - 1]
    BY <1>2, <2>1 DEF EdgeHandled, Keep
  <2>3. handled' \in 0 .. MaxPresses
    BY <1>2 DEF EdgeHandled
  <2>4. handledAt' \in [Button -> {Never} \cup 0 .. Horizon]
    BY <1>2 DEF EdgeHandled
  <2>5. \A c \in Button : handledAt'[c] <= elapsed'
    BY <1>2 DEF EdgeHandled
  <2>6. QED BY <1>2, <2>2, <2>3, <2>4, <2>5 DEF EdgeHandled, appVars
<1>3. ASSUME NEW x \in {"id", "flag"}, IsrStore(x) PROVE TypeInv'
  BY <1>3 DEF IsrStore, appVars, pressVars
<1>4. QED BY <1>1, <1>2, <1>3

LEMMA ProgramType ==
  ASSUME TypeInv, Program PROVE TypeInv'
<1> USE DEF TypeInv, TypeOK, Past, NoId, AppLabels, AppStep
<1>1. CASE Connect
  BY <1>1, Constants DEF Connect, driverVars, pressVars
<1>2. CASE Poll
  BY <1>2 DEF Poll, driverVars, pressVars
<1>3. CASE ReadWait \/ ReadPrint
  BY <1>3 DEF ReadWait, ReadPrint, driverVars, pressVars
<1>4. CASE ReadClear
  BY <1>4 DEF ReadClear, pressVars
<1>5. CASE SendButton
  BY <1>5 DEF SendButton, After, driverVars, pressVars
<1>6. CASE Sensor
  <2>1. last_sensor_time' \in 0 .. Wrap - 1
    BY <1>6, NowType, Constants DEF Sensor
  <2>2. left' \in 0 .. POLL_TIMEOUT
    BY <1>6, Constants DEF Sensor
  <2>3. QED BY <1>6, <2>1, <2>2 DEF Sensor, After, driverVars, pressVars
<1>7. QED BY <1>1, <1>2, <1>3, <1>4, <1>5, <1>6 DEF Program

THEOREM TypeInvariance == Spec => []TypeInv
<1>1. TypeInv /\ [Next]_vars => TypeInv'
  <2> SUFFICES ASSUME TypeInv, [Next]_vars PROVE TypeInv'
    OBVIOUS
  <2> USE DEF TypeInv, TypeOK, Past, Never
  <2>1. CASE Tick
    <3>1. elapsed' \in 0 .. Horizon /\ elapsed' = elapsed + 1
      BY <2>1, Constants DEF Tick
    <3>2. left' \in 0 .. POLL_TIMEOUT
      BY <2>1, Constants DEF Tick
    <3>3. \A b \in Button : handledAt'[b] <= elapsed'
      <4> TAKE b \in Button
      <4>1. handledAt[b] \in {Never} \cup 0 .. Horizon
        OBVIOUS
      <4>2. QED BY <2>1, <3>1, <4>1, Constants DEF Tick, pressVars
    <3>4. QED BY <2>1, <3>1, <3>2, <3>3 DEF Tick, driverVars, pressVars
  <2>2. CASE Disconnect
    BY <2>2 DEF Disconnect, driverVars, appVars, pressVars
  <2>3. CASE UNCHANGED vars
    BY <2>3 DEF vars, driverVars, appVars, pressVars
  <2>4. QED
    BY <2>1, <2>2, <2>3, DriverType, ProgramType DEF Next
<1>2. QED
  BY <1>1, InitType, PTL DEF Spec

\* Every variable keeps its type; the clock never leaves 0 .. Wrap - 1.
THEOREM TypeCorrect == Spec => []TypeOK
<1>1. TypeInv => TypeOK
  BY DEF TypeInv
<1>2. QED BY <1>1, TypeInvariance, PTL
-----------------------------------------------------------------------------
(* The pedals are sampled in time                                          *)

\* How long ago the pedals were sampled, as the program counts it.
Age == (Now - last_sensor_time) % Wrap

\* While poll sleeps, what is left of its timeout still fits.
SampleInv ==
  /\ app = "start" => last_sensor_time = 0
  /\ app \notin {"start", "exit"} /\ last_sensor_time # 0 =>
       /\ Age < SENSOR_SEND_INTERVAL + POLL_TIMEOUT
       /\ app = "poll" => Age + left < SENSOR_SEND_INTERVAL + POLL_TIMEOUT

LEMMA InitSample == Init => SampleInv
  BY DEF Init, SampleInv

\* The age does not depend on where the clock wraps ...
LEMMA AgeIs ==
  ASSUME NEW e \in Nat, NEW y \in Int
  PROVE  /\ ((e % Wrap) - y) % Wrap = (e - y) % Wrap
         /\ (e - y) % Wrap \in 0 .. Wrap - 1
<1>1. e \in Int /\ -y \in Int /\ e - y \in Int
  OBVIOUS
<1>2. ((e % Wrap) + (-y)) % Wrap = (e + (-y)) % Wrap
  BY <1>1, Constants, ModPlus
<1>3. e % Wrap \in Int
  BY <1>1, Constants, ModSmall
<1>4. (e % Wrap) + (-y) = (e % Wrap) - y /\ e + (-y) = e - y
  BY <1>1, <1>3
<1>5. (e - y) % Wrap \in 0 .. Wrap - 1
  BY <1>1, Constants, ModSmall
<1>6. ((e % Wrap) - y) % Wrap = (e - y) % Wrap
  BY <1>2, <1>4
<1>7. QED BY <1>5, <1>6

LEMMA AgeType == ASSUME TypeInv PROVE Age \in Nat
  BY AgeIs, Constants DEF TypeInv, TypeOK, Age, Now

\* ... and a tick adds at most one.
LEMMA OneMore ==
  ASSUME NEW z \in Int PROVE (z + 1) % Wrap <= (z % Wrap) + 1
<1>1. \A y \in Int : ((z % Wrap) + y) % Wrap = (z + y) % Wrap
  BY Constants, ModPlus
<1>2. ((z % Wrap) + 1) % Wrap = (z + 1) % Wrap
  BY <1>1
<1>3. PICK r \in 0 .. Wrap - 1 : r = z % Wrap
  BY Constants, ModSmall
<1>4. PICK s \in Int : s = r + 1
  OBVIOUS
<1>5. s % Wrap \in 0 .. Wrap - 1 /\ (0 <= s /\ s < Wrap => s % Wrap = s)
  BY Constants, ModSmall
<1>6. s % Wrap <= s
  BY <1>3, <1>4, <1>5, Constants
<1>7. QED BY <1>2, <1>3, <1>4, <1>6

LEMMA TickAges ==
  ASSUME TypeInv, TypeInv', elapsed' = elapsed + 1, UNCHANGED last_sensor_time
  PROVE  Age' \in Nat /\ Age' <= Age + 1
<1> DEFINE z == elapsed - last_sensor_time
<1>1. z \in Int /\ elapsed \in Nat /\ elapsed + 1 \in Nat /\ last_sensor_time \in Int
  BY Constants DEF TypeInv, TypeOK
<1>2. Age = z % Wrap
  BY <1>1, AgeIs DEF Age, Now
<1>3. Age' = (((elapsed + 1) % Wrap) - last_sensor_time) % Wrap
  BY DEF Age, Now
<1>4. Age' = ((elapsed + 1) - last_sensor_time) % Wrap /\ Age' \in 0 .. Wrap - 1
  BY <1>1, <1>3, AgeIs
<1>5. (elapsed + 1) - last_sensor_time = z + 1
  BY <1>1
<1>6. QED BY <1>1, <1>2, <1>4, <1>5, OneMore

\* The steps that take no time, but for the sampling itself.
LEMMA TimelessSample ==
  ASSUME SampleInv, UNCHANGED <<elapsed, last_sensor_time, left>>,
         \/ app' = app \/ app' = "exit"
         \/ app # "start" /\ app # "exit" /\ app' \notin {"start", "poll"}
  PROVE  SampleInv'
<1>1. Age' = Age
  BY DEF Age, Now
<1>2. QED BY <1>1 DEF SampleInv

LEMMA SensorSample ==
  ASSUME TypeInv, TypeInv', SampleInv, Sensor
  PROVE  SampleInv'
<1> USE DEF Sensor, AppStep
<1>1. left' = POLL_TIMEOUT /\ app' \in {"poll", "exit"}
  BY DEF After
<1>2. CASE Due
  <2>1. elapsed' = elapsed /\ last_sensor_time' = Now
    BY <1>2
  <2>2. Now \in 0 .. Wrap - 1 /\ Now' = Now
    BY <2>1, NowType DEF TypeInv, TypeOK, Now
  <2>3. Age' = 0
    BY <2>1, <2>2, Constants, ModSmall DEF Age, Now
  <2>4. QED BY <1>1, <2>3, Constants DEF SampleInv
<1>3. CASE ~Due
  <2>1. Age' = Age
    BY <1>3 DEF Age, Now
  <2>2. Age < SENSOR_SEND_INTERVAL
    <3>1. Age \in Nat
      BY AgeType
    <3>2. QED BY <1>3, <3>1, Constants DEF Due, Age
  <2>3. Age \in Nat
    BY AgeType
  <2>4. QED BY <1>1, <2>1, <2>2, <2>3, Constants DEF SampleInv
<1>4. QED BY <1>2, <1>3

LEMMA TickSample ==
  ASSUME TypeInv, TypeInv', SampleInv, FlagInv, Tick
  PROVE  SampleInv'
<1>1. app' = app /\ elapsed' = elapsed + 1 /\ last_sensor_time' = last_sensor_time
  BY DEF Tick
<1>2. CASE app = "poll"
  <2>1. left \in Nat /\ left' = left - 1
    BY <1>2 DEF Tick, TypeInv, TypeOK
  <2>2. Age \in Nat /\ Age' \in Nat /\ Age' <= Age + 1 /\ left' \in Nat
    BY <1>1, AgeType, TickAges DEF TypeInv, TypeOK
  <2>3. PICK limit \in Nat : limit = SENSOR_SEND_INTERVAL + POLL_TIMEOUT
    BY Constants
  <2>4. \A a, b, l, m, n \in Nat :
          b <= a + 1 /\ m = l - 1 /\ a + l < n => b < n /\ b + m < n
    OBVIOUS
  <2>5. ASSUME last_sensor_time # 0 PROVE Age' < limit /\ Age' + left' < limit
    <3>1. Age + left < limit
      BY <1>2, <2>3, <2>5 DEF SampleInv
    <3>2. QED BY <2>1, <2>2, <2>4, <3>1
  <2>6. QED
    BY <1>1, <1>2, <2>3, <2>5 DEF SampleInv
<1>3. CASE app = "start"
  BY <1>1, <1>3 DEF SampleInv
<1>4. app # "wait"
  BY DEF Tick, FlagInv
<1>5. QED BY <1>2, <1>3, <1>4 DEF Tick

LEMMA NextSample ==
  ASSUME TypeInv, TypeInv', SampleInv, FlagInv, [Next]_vars
  PROVE  SampleInv'
<1>1. CASE \E b \in Button : EdgeIgnored(b) \/ EdgeHandled(b)
  BY <1>1, TimelessSample DEF EdgeIgnored, EdgeHandled, appVars
<1>2. CASE \E x \in {"id", "flag"} : IsrStore(x)
  BY <1>2, TimelessSample DEF IsrStore, appVars
<1>3. CASE Connect
  <2>1. last_sensor_time' = 0 /\ app' # "start"
    BY <1>3 DEF Connect, AppStep, SampleInv
  <2>2. QED BY <2>1 DEF SampleInv
<1>4. CASE Poll
  BY <1>4, TimelessSample DEF Poll, AppStep
<1>5. CASE ReadWait \/ ReadPrint \/ ReadClear
  BY <1>5, TimelessSample DEF ReadWait, ReadPrint, ReadClear, AppStep
<1>6. CASE SendButton
  BY <1>6, TimelessSample DEF SendButton, AppStep, After
<1>7. CASE Disconnect \/ UNCHANGED vars
  BY <1>7, TimelessSample DEF Disconnect, vars, appVars
<1>8. QED
  BY <1>1, <1>2, <1>3, <1>4, <1>5, <1>6, <1>7, SensorSample, TickSample
     DEF Next, Program

\* The pedals are sampled less than the interval and one wait of poll after the last
\* time, for every interval, timeout and clock, wherever it starts and however often
\* it wraps (last_last.c:98, 120).
THEOREM SampledWhateverTheClock == Spec => []SampledInTime
<1>1. SampleInv => SampledInTime
  BY DEF SampleInv, SampledInTime, Age
<1>2. IInv => FlagInv
  BY DEF IInv
<1>3. TypeInv /\ TypeInv' /\ SampleInv /\ FlagInv /\ [Next]_vars => SampleInv'
  BY NextSample
<1>4. QED
  BY <1>1, <1>2, <1>3, InitSample, TypeInvariance, Invariance, PTL DEF Spec

-----------------------------------------------------------------------------
(* A bounce is no press                                                    *)

\* The driver is loaded for less than half a turn of the clock and the debounce time:
\* further apart, time_before takes the past for the future.
ClockIsWide ==
  /\ Wrap >= 2 * DEBOUNCE_TIME
  /\ \A s \in Starts : Horizon - s < (Wrap \div 2) + DEBOUNCE_TIME

\* No press lies before the start.
SinceInv ==
  \E s \in Starts :
    elapsed >= s /\ \A b \in Button : handledAt[b] # Never => handledAt[b] >= s

\* The driver's own record is the history, modulo the clock.
RecordInv ==
  \A b \in Button :
    handledAt[b] # Never => last_pressed_jiffies[b] = handledAt[b] % Wrap

\* What was ignored lies less than DEBOUNCE_TIME behind a press.
IgnoredInv == \A gap \in ignored \ {Never} : gap < DEBOUNCE_TIME

\* Whether the handler ignores an edge of b.
Early(b) == TimeBefore(Now, (last_pressed_jiffies[b] + DEBOUNCE_TIME) % Wrap)

LEMMA EarlyIs ==
  ASSUME ClockIsWide, TypeInv, SinceInv, RecordInv, NEW b \in Button, handledAt[b] # Never
  PROVE  Early(b) <=> elapsed - handledAt[b] < DEBOUNCE_TIME
<1>1. PICK d \in Nat : d = DEBOUNCE_TIME
  BY Constants
<1>2. PICK h \in Nat : h = handledAt[b]
  BY DEF TypeInv, TypeOK, Never
<1>3. /\ elapsed \in Nat /\ h <= elapsed /\ elapsed <= Horizon
      /\ \E s \in Starts : s \in Nat /\ s <= h
  BY <1>2, Constants DEF TypeInv, TypeOK, Past, SinceInv
<1>4. PICK y \in Int : y = h + d
  BY <1>1, <1>2
<1>5. ((h % Wrap) + d) % Wrap = y % Wrap
  <2>1. \A x, c \in Int : ((x % Wrap) + c) % Wrap = (x + c) % Wrap
    BY Constants, ModPlus
  <2>2. ((h % Wrap) + d) % Wrap = (h + d) % Wrap
    BY <2>1
  <2>3. QED BY <1>4, <2>2
<1>6. ((elapsed % Wrap) - (y % Wrap)) % Wrap = ((elapsed % Wrap) - y) % Wrap
  <2>1. elapsed % Wrap \in Int
    BY <1>3, Constants, ModSmall
  <2>2. QED BY <1>4, <2>1, Constants, ModMinus
<1>7. ((elapsed % Wrap) - y) % Wrap = (elapsed - y) % Wrap
  BY <1>3, <1>4, AgeIs
<1>8. PICK z \in Int : z = elapsed - y
  BY <1>3, <1>4
<1>9. Early(b) <=> z % Wrap >= Wrap \div 2
  <2>1. last_pressed_jiffies[b] = h % Wrap
    BY <1>2 DEF RecordInv
  <2>2. Early(b)
          <=> ((elapsed % Wrap) - (((h % Wrap) + d) % Wrap)) % Wrap >= Wrap \div 2
    BY <1>1, <2>1 DEF Early, TimeBefore, Now
  <2>3. QED BY <1>5, <1>6, <1>7, <1>8, <2>2
<1>10. /\ 0 <= z /\ z < Wrap => z % Wrap = z
       /\ -Wrap <= z /\ z < 0 => z % Wrap = z + Wrap
  BY Constants, ModSmall
<1>11. -d <= z /\ z < Wrap \div 2 /\ Wrap >= 2 * d
  <2>1. -d <= z
    BY <1>3, <1>4, <1>8
  <2>2. z < Wrap \div 2
    BY <1>1, <1>3, <1>4, <1>8, Constants DEF ClockIsWide
  <2>3. QED BY <1>1, <2>1, <2>2 DEF ClockIsWide
<1>12. z < 0 <=> elapsed - handledAt[b] < DEBOUNCE_TIME
  BY <1>1, <1>2, <1>3, <1>4, <1>8
<1>13. CASE z < 0
  <2>1. z % Wrap >= Wrap \div 2
    BY <1>10, <1>11, <1>13, Constants
  <2>2. QED BY <1>9, <1>12, <1>13, <2>1
<1>14. CASE z >= 0
  <2>1. z % Wrap = z
    BY <1>10, <1>11, <1>14, Constants
  <2>2. ~(z >= Wrap \div 2)
    BY <1>11, Constants
  <2>3. QED BY <1>9, <1>12, <1>14, <2>1, <2>2
<1>15. QED BY <1>13, <1>14

LEMMA InitDebounce == Init => RecordInv /\ IgnoredInv /\ SinceInv
  BY Constants DEF Init, RecordInv, IgnoredInv, SinceInv

\* The steps that leave the driver's record alone.
LEMMA OthersDebounce ==
  ASSUME UNCHANGED <<last_pressed_jiffies, handledAt, ignored>>, RecordInv, IgnoredInv
  PROVE  (RecordInv /\ IgnoredInv)'
  BY DEF RecordInv, IgnoredInv

LEMMA QuietSteps ==
  ASSUME \/ \E x \in {"id", "flag"} : IsrStore(x)
         \/ Program \/ Tick \/ Disconnect \/ UNCHANGED vars
  PROVE  UNCHANGED <<last_pressed_jiffies, handledAt, ignored>>
<1>1. ASSUME NEW x \in {"id", "flag"}, IsrStore(x)
      PROVE  UNCHANGED <<last_pressed_jiffies, handledAt, ignored>>
  BY <1>1 DEF IsrStore, pressVars
<1>2. CASE Program
  BY <1>2 DEF Program, Connect, Poll, ReadWait, ReadPrint, ReadClear, SendButton, Sensor,
     driverVars, pressVars
<1>3. CASE Tick \/ Disconnect \/ UNCHANGED vars
  BY <1>3 DEF Tick, Disconnect, vars, driverVars, pressVars
<1>4. QED BY <1>1, <1>2, <1>3

LEMMA SinceStep ==
  ASSUME TypeInv, SinceInv, [Next]_vars
  PROVE  SinceInv'
<1>1. PICK s \in Starts :
        elapsed >= s /\ \A b \in Button : handledAt[b] # Never => handledAt[b] >= s
  BY DEF SinceInv
<1>2. s \in Nat /\ elapsed \in Nat
  BY Constants DEF TypeInv, TypeOK
<1>3. ASSUME NEW b \in Button, EdgeIgnored(b) \/ EdgeHandled(b) PROVE SinceInv'
  <2>1. elapsed' = elapsed
        /\ (handledAt' = handledAt \/ handledAt' = [handledAt EXCEPT ![b] = elapsed])
    BY <1>3 DEF EdgeIgnored, EdgeHandled
  <2>2. \A c \in Button : handledAt'[c] \in {handledAt[c], elapsed}
    BY <2>1 DEF TypeInv, TypeOK
  <2>3. QED BY <1>1, <2>1, <2>2 DEF SinceInv
<1>4. CASE Tick
  BY <1>1, <1>2, <1>4 DEF Tick, SinceInv, pressVars
<1>5. CASE (\E x \in {"id", "flag"} : IsrStore(x)) \/ Program \/ Disconnect
           \/ UNCHANGED vars
  <2>1. UNCHANGED <<elapsed, handledAt>>
    <3>1. CASE Program
      BY <3>1 DEF Program, Connect, Poll, ReadWait, ReadPrint, ReadClear, SendButton,
         Sensor, pressVars
    <3>2. CASE (\E x \in {"id", "flag"} : IsrStore(x)) \/ Disconnect \/ UNCHANGED vars
      BY <3>2 DEF IsrStore, Disconnect, vars, pressVars
    <3>3. QED BY <1>5, <3>1, <3>2
  <2>2. QED BY <1>1, <2>1 DEF SinceInv
<1>6. QED BY <1>3, <1>4, <1>5 DEF Next

LEMMA EdgesDebounce ==
  ASSUME ClockIsWide, TypeInv, SinceInv, RecordInv, IgnoredInv, NEW b \in Button,
         EdgeIgnored(b) \/ EdgeHandled(b)
  PROVE  /\ (RecordInv /\ IgnoredInv)'
         /\ \A c \in Button : handledAt'[c] # handledAt[c] /\ handledAt[c] # Never =>
              handledAt'[c] - handledAt[c] >= DEBOUNCE_TIME
<1>1. CASE EdgeIgnored(b)
  <2>1. UNCHANGED <<last_pressed_jiffies, handledAt>>
    BY <1>1 DEF EdgeIgnored, driverVars
  <2>2. handledAt[b] # Never => elapsed - handledAt[b] < DEBOUNCE_TIME
    BY <1>1, EarlyIs DEF EdgeIgnored, Early
  <2>3. ignored' = ignored \cup
          {IF handledAt[b] = Never THEN Never ELSE elapsed - handledAt[b]}
    BY <1>1 DEF EdgeIgnored
  <2>4. IgnoredInv'
    BY <2>2, <2>3 DEF IgnoredInv
  <2>5. QED BY <2>1, <2>4 DEF RecordInv
<1>2. CASE EdgeHandled(b)
  <2>1. /\ handledAt' = [handledAt EXCEPT ![b] = elapsed]
        /\ last_pressed_jiffies' = [last_pressed_jiffies EXCEPT ![b] = Now]
        /\ ignored' = ignored
    BY <1>2 DEF EdgeHandled, Keep
  <2>2. handledAt \in [Button -> {Never} \cup 0 .. Horizon]
        /\ last_pressed_jiffies \in [Button -> 0 .. Wrap - 1]
    BY DEF TypeInv, TypeOK
  <2>3. \A c \in Button :
          /\ handledAt'[c] = IF c = b THEN elapsed ELSE handledAt[c]
          /\ last_pressed_jiffies'[c] = IF c = b THEN Now ELSE last_pressed_jiffies[c]
    BY <2>1, <2>2
  <2>4. RecordInv'
    BY <2>3 DEF RecordInv, Now
  <2>5. IgnoredInv'
    BY <2>1 DEF IgnoredInv
  <2>6. handledAt[b] # Never => elapsed - handledAt[b] >= DEBOUNCE_TIME
    <3>1. handledAt[b] # Never => ~(elapsed - handledAt[b] < DEBOUNCE_TIME)
      BY <1>2, EarlyIs DEF EdgeHandled, Early
    <3>2. elapsed \in Nat /\ handledAt[b] \in Int
      BY <2>2 DEF TypeInv, TypeOK, Never
    <3>3. QED BY <3>1, <3>2, Constants
  <2>7. QED BY <2>3, <2>4, <2>5, <2>6
<1>3. QED BY <1>1, <1>2

\* What happens to the record of each button's presses.
Spaced ==
  \A b \in Button : handledAt'[b] # handledAt[b] /\ handledAt[b] # Never =>
    handledAt'[b] - handledAt[b] >= DEBOUNCE_TIME

LEMMA NextDebounce ==
  ASSUME ClockIsWide, TypeInv, SinceInv, RecordInv, IgnoredInv, [Next]_vars
  PROVE  RecordInv' /\ IgnoredInv' /\ [Spaced]_vars
<1>1. CASE \E b \in Button : EdgeIgnored(b) \/ EdgeHandled(b)
  BY <1>1, EdgesDebounce DEF Spaced
<1>2. CASE \/ \E x \in {"id", "flag"} : IsrStore(x)
           \/ Program \/ Tick \/ Disconnect \/ UNCHANGED vars
  BY <1>2, QuietSteps, OthersDebounce DEF Spaced
<1>3. QED BY <1>1, <1>2 DEF Next

\* Bounces are ignored and put nothing off, and presses that are handled lie
\* DEBOUNCE_TIME apart, for every debounce time and wherever the clock wraps, as long
\* as the driver is loaded for less than half a turn of it (buttons_driver2.c:32-36).
THEOREM DebouncedWhateverTheClock == ClockIsWide => (Spec => Debounced)
<1> SUFFICES ASSUME ClockIsWide PROVE Spec => Debounced
  OBVIOUS
<1>1. TypeInv /\ SinceInv /\ RecordInv /\ IgnoredInv /\ [Next]_vars
        => SinceInv' /\ RecordInv' /\ IgnoredInv' /\ [Spaced]_vars
  BY NextDebounce, SinceStep
<1>2. Spec => []IgnoredInv /\ [][Spaced]_vars
  BY <1>1, InitDebounce, TypeInvariance, PTL DEF Spec
<1>3. QED
  BY <1>2, PTL DEF Debounced, IgnoredInv, Spaced
====
