# A verification development of the ADAS prototype

The repository holds two controllers of one driver assistance system. *Phase 1* is an
STM32 with FreeRTOS and lwIP, fed by a Raspberry Pi; *phase 2* is its port to a
Telechips board. Both have an emergency stop (MCB), adaptive cruise control (SCC), lane
keeping (LKA, LFA in phase 2), pedals, an ultrasonic sensor, a motor, a console and TCP
servers. All of them are tasks that share a few unprotected globals: `current_speed`,
`accel_val`, `brake_val`, the pedal gate and a dozen flags. Nearly all that can go wrong
is in the order in which tasks of different priority, and interrupts, touch those
globals. The modules here model that; TLC checks them on small instances and TLAPS
proves the most important of their invariants for every instance.

Source references in the modules are `file:line` of the phase the module is about.

## 1. The system

### Phase 1

| Part | Source | State | Operations | Talks to |
|---|---|---|---|---|
| SIS, the emergency stop | `mcb.c` | `pedal_input_enabled` | every 50 ms: close the gate, clear the flags, request the brake; at speed 0 ask for the stop frame, open the gate, suspend itself | resumed and suspended by CAN, brakes through Pedal |
| CAN | `can.c` | `Id100_Flag`, the last frame, `can_send_flag` | receive interrupt; every 100 ms: resume SIS, or acknowledge a conscious driver and suspend SIS; send the stop frame | SIS, the bus |
| Pedal | `pedal.c` | `accel_val`, `brake_val`, pressed flags and counters, `current_speed` | take a sample from the queue, gate it, update and clamp the speed | everyone who reads the speed |
| SCC | `scc.c` | `TARGET_SPEED`, `SAFE_DISTANCE` | clear its flag on a press; move the speed to the share of the target that the distance allows | Pedal (`current_speed`), Main |
| Main | `main.c` | `prev_..._flag` | every 100 ms: compare flags with those seen last, resume or suspend SCC and LKA, center the servo | all writers of flags |
| LKA | `lka.c` | `angle`, `TIM4->CCR1` | offset to angle to pulse | Main, the lane server |
| Motor | `speed.c` | the timer | read the speed, read it again, write the duty | everyone who writes the speed |
| Ultrasonic sensor | `uss.c` | `shared_distance` | trigger, time the echo, publish a median | SCC |
| Console | `uart.c` | the mutex | `Uart3_Printf`; keys | every task |
| Server 5000 | `tcp_server.c` | `recv_buffer` | cut lines, obey commands, fill the pedal queue | the Pi, Pedal, Main |
| Server 5001 | `tcp_server.c` | `lka_1st_flag`, `lka_2nd_flag`, `offset_val` | lane messages, periodic status | the lane detection, Main, LKA |
| Button driver | `RaspberryPi_Input/buttons_driver2.c` | one slot for a press | interrupt with debounce, `poll`, `read` | the sender |
| Sender | `RaspberryPi_Input/last_last.c` | the sampling clock | poll, send lines | server 5000 |

### Phase 2

The same parts with other mechanisms: Main creates the tasks while they already run
(`main.c:252-322`), resumes MCB by `mcb_flag` and starts a watchdog that MCB kicks and
stops; its `prev_..._flag` locals are not initialised; SCC, the pedals and the sensor
share one priority and are time-sliced; the servo's and the motor's channels
(`SG90_SetAngle`, `Motor_SetPWM`) have to be turned off, found idle and turned on again;
the three Ethernet servers share the W5500 chip under a mutex, and this revision does not
create them (`main.c:312-320`).

### What is hard

* **Interleavings.** Every `flag ^= 1`, `speed += x`, test-then-act on the gate, and the
  re-read of a flag into its `prev_` variable can be cut by a more urgent task, an
  interrupt or a time slice.
* **Suspension from outside.** A task may be suspended anywhere: while holding the
  console, between two steps of a servo call, right after it has closed the gate.
* **Lost and delayed input.** A single slot for buttons, a queue that is full, TCP chunks
  that cut or drop lines, CAN frames that overwrite each other.
* **Waits and time-outs.** Counters that wrap, a `recv` that blocks, a channel that does
  not become idle, an echo that does not come.

`PROJECT.json` lists every such hazard at its line, with the properties that cover it.

## 2. Modules

| Module | Models | Relation to others |
|---|---|---|
| `Rtos` | task states, who runs, sleep, suspend, resume | instantiated by `Mcb1`, `Modes2` |
| `EmergencyStop` | what an emergency stop promises | abstract specification |
| `Mcb1` | phase 1: SIS, CAN, Pedal, their interrupts, and SCC's stores to the speed | implements `EmergencyStop` |
| `Modes2` | phase 2: boot, Main, MCB, SCC's flag, the watchdog | implements `EmergencyStop` |
| `Modes1` | phase 1: Main, the writers of its flags, LKA and its servo | |
| `Cruise` | SCC's speed law, the pedals, Main's activation, for both phases | |
| `Pwm` | the pulses: phase 2's servo, called by LFA and Main, and the motors of both phases | |
| `Warning1` | phase 1: TTC, TET and TIT, which SCC computes beside its law | |
| `Console` | the console's mutex with priority inheritance | |
| `Ranging` | the sensor's task of both phases | |
| `TcpLines` | server 5000: stream, buffer, lines | |
| `Buttons` | the button driver and the sender on the Pi | |
| `EthServers` | phase 2's three servers, the chip's sockets, the mutex; not what messages say | |
| `MC...` | constants a `.cfg` cannot express | extend the module they are named after |
| `..._proofs` | theorems | extend the module they are named after; `Servers_proofs` extends `TcpLines` and `EthServers`, `Devices_proofs` `Pwm` and `Ranging` |

### How actions correspond to code

A task's loop is cut wherever another task or an interrupt can tell the difference: each
read and each write of a shared variable that somebody else writes is a step, and
consecutive accesses to variables nobody else touches are joined with them. Loops keep
the order of the code. `pc` names the place in the loop; names of variables are the
code's. Calls of the RTOS are the operators of `Rtos`, or, in modules with two tasks or
one, of the module itself.

* **`EmergencyStop`.** Braking, holding the pedals and moving, without tasks. `Reacts` says
  whether the driver's reaction may end the stop: phase 1 gives the pedals back to a driver
  who reacts, and may then leave them held; phase 2 knows no reaction. The step that ends
  the braking at standstill gives the pedals back, in both.
* **`Mcb1`.** `SisBrake` (`mcb.c:21-25`), `SisFinish` (26-31), `SisSleep`; `CanPoll` to
  `CanStop` are the two halves of `StartCANTask`; `PedalReceive` to `PedalReset` are the
  lines of `StartPedalTask`. Line 61 is three steps: the loads of `accel_val` and
  `brake_val`, in either order and with SIS between them, and the store, before which SCC
  may have written the speed. `SccDrives` is SCC, of Pedal's priority, leaving any of
  `CruiseSpeeds` whenever no more urgent task runs (`scc.c:71-79`); whether Main has
  suspended it is not in this module, so it may run at any time. The variable `raised` is
  history: how often the pedals raised the speed since SIS took them (up to 2); what SCC
  adds is not counted. `rx` is the first byte of the frame that waits for CAN. `CanRxIsr`,
  `KeyIsr`, `TcpPost` and `BusTransmit` are the environment. `AddTxMessage` halts the
  controller if no mailbox is free, as `Error_Handler` does.
* **`Modes2`.** `MainBoots` creates and suspends task after task, and a task more urgent
  than Main runs in between. `MainScc`, `MainDir`, `MainLfa`, `MainMcb` are the four parts
  of the loop, one step per read of a flag. The pedals are abstract: they read the gate
  (`PedalReads`) and later move or stop the car (`PedalMoves`). Key q writes `accel_val` in
  the interrupt without a look at the gate (`uart5.c:91`): `keyed` until the pedals have
  used it, or MCB has overwritten it with its brake. `typed` counts the keys, up to
  `MaxKeys`.
* **`Modes1`.** The same loop of phase 1 with the buttons' and the lane's server as
  further writers. LKA is two steps, the offset turned into an angle (`LkaAngle`) and the
  angle written to the servo (`LkaPulse`): Main, of its priority, may suspend it between
  them. SIS's clears, keys and SCC's own clear may come between any two steps of Main.
  `late` is history: the flags written while Main was handling them, from its test of the
  new value to its copy of the value it takes as seen. The lane's client comes and goes,
  and its messages may be cut or too long.
* **`Cruise`.** `Loads` and `Stores` are the halves of `current_speed +=`; a step that is
  not its task's turn is the end of a time slice, of which `MaxSlices` may fall within an
  iteration. `Share` is the ratio of `scc.c:31-39`. Phase 1's law (`scc.c:59-79`) and
  pedals are the same. Main turns cruise control on or off in one step (`MainLooks`,
  `MainTurnsOn`) and re-reads the flag in another (`MainSees`, `main.c:206`): the resumed,
  more urgent SCC runs in between. `missed` is history: the flag was written there.
* **`Pwm`.** `Disable`, `Poll`, `Config` and `Enable` are the calls of `SG90_SetAngle` and of
  `Motor_SetPWM`; `Call` begins them, for LFA and Main at once, or for SPEED. A behaviour is
  about one channel, `ch`, since they share nothing. `SpeedStands`, `SpeedMoves` and
  `SpeedComputes` are the two reads of the speed (`speed.c:75`, `:79`), which `CarSpeeds`
  changes at any time. `stale` is history: drives given to a car that stands.
* **`Warning1`.** An iteration of `scc.c:29-57` is one step, as nobody else touches its
  variables.
* **`Console`.** `Take`, `Block`, `Send`, `Give` are one `Uart3_Printf`; the holder
  inherits the priority of the most urgent waiting task.
* **`Ranging`.** One poll of the echo line per tick, phase 1's counter wrapping below 0;
  `phase` is chosen at the start and never changes. `Place` is the place at which `qsort`
  puts a sample; `Median` is the sample in the middle. Names that `Pwm` has as well carry
  `Uss`.
* **`TcpLines`.** Chunks of any length; a chunk that does not fit is dropped; connections
  break at any byte; the static buffer survives them. Of a line only its bytes and the
  commands it holds are kept; what they do is in `Modes1` and `Mcb1`.
* **`Buttons`.** The interrupt handler's two stores and the reader's three steps; with
  `SMP` the stores become visible in any order. A tick is any length of time: the debounce
  time, the interval and the timeout of `poll` are constants in ticks.
* **`EthServers`.** One step per call of the library under the mutex; the chip changes the
  socket's state at any time. What a message holds is left out. Names that `TcpLines` has
  as well carry `Eth` (`EthServer`, `eth_pc`, `EthSpec`), so that one proof module can
  extend both.

Operators named `Mut...` are plausible mistakes in the definition that follows them; each
property has one that it catches. They are not part of the model.

## 3. Runs

All runs are `tlc -config <run>.cfg <module>.tla`; the longest takes two to three minutes.

| Run | Module | Shows | Distinct states |
|---|---|---|---|
| `mcb1_stop` | `MCMcb1` | all frames, the key q, cruise control on: types, `EmergencyStop` is implemented; every stop ends once cruise control is suspended; a shock is not lost while CAN is free; the stop frame is sent; the pedals raise the speed at most once while they are held | 240,952 |
| `mcb1_lockout` | `MCMcb1` | **violated**: stopping the emergency stop may leave the pedals dead | |
| `modes2_stop` | `Modes2` | keys 1, 2, 3, 5 and q: the watchdog runs only while somebody will kick it, and is kicked; `EmergencyStop` is implemented; a request is served | 164,745 |
| `modes1_flags` | `MCModes1` | SCC follows its flag, LKA does not run against its own, and LKA is remembered only while the indicator is on, but for flags written while Main handles them; parked LKA leaves the wheel centered | 1,387,780 |
| `cruise` | `Cruise` | the speed less urgent tasks see is in range; it settles on the share the distance allows, and on 0; the target is reached; a pedal that stays pressed suspends cruise control, unless its flag was written while Main handled it | 338,052 |
| `pwm` | `Pwm` | the servo's pulses come back; Main is not held up and goes on to suspend LFA; a standing car's motor gets an old drive at most once; the motor ends with the drive of the speed that stays | 20,391 |
| `warning1` | `Warning1` | **violated**: the time to collision is infinite only without relative speed | |
| `console_phase1` | `MCConsole` | the holder is never suspended; no inversion beyond one print; the most urgent prints | 13,988 |
| `ranging` | `Ranging` | fewer faults than half the samples are hidden; a mute sensor is never a free road; a distance is published again and again | 453,615 |
| `tcplines` | `MCTcpLines` | no line is obeyed more often than it was sent; lines are obeyed in order; a loss damages one line; without losses each line is taken | 1,015,362 |
| `buttons` | `Buttons` | one report per press; `read` never blocks; the pedals are sampled less than the interval and one wait of `poll` after the last time; after the first press bounces are no presses and put none off; a press is fetched | 805,492 |
| `eth_sockets` | `EthServers` | a server gives up cleanly; a server whose client leaves listens again or gives up | 178,290 |

### Where code and words disagree

`mcb1_lockout` states what `can.c:107` prints, "MCB 기능 정지": CAN has stopped the emergency
stop and the pedals act again. The counterexample is a behaviour of the code: CAN opens
the gate (`can.c:108`), SIS, more urgent, wakes from its 50 ms before CAN suspends it
(`can.c:109`), closes the gate again (`mcb.c:21`) and is suspended. No pedal works until
the next shock. `PROJECT.json` quotes the lines.

`warning1` states the comment of `scc.c:42`: TTC is infinite because there is hardly any
relative speed. The code takes the old distance less the new one (`scc.c:34`), which is
positive for a car that comes closer, and computes TTC only for a negative speed
(`scc.c:39`): TTC is infinite for every approach and finite when the car ahead moves away,
so that TET and TIT count the harmless iterations.

A third disagreement needs no run: the comment of `buttons_driver2.c:31` says that edges
within 50 ms are ignored, the constant it is about is 100 (`buttons_driver2.c:13`).
`Buttons` has the constant, `Debounced` is about it, and a press 50 to 100 ms after the
last is ignored.

Met while modelling, without a sentence of the repository to hold against them, and
therefore not among the runs (the properties of `modes1_flags` and `modes2_stop` are
stated so that they do not claim the opposite):

* Main re-reads a flag into its `prev_` variable after it has acted; a change in between
  is never acted upon (`main.c:562` of phase 1, `main.c:206` of phase 2). SCC, more urgent,
  may clear its flag as soon as Main has resumed it, and runs on with the flag down; so
  does LKA when SIS clears `lka_flag` there, in the middle of an emergency stop
  (`mcb.c:22`, `main.c:599`). `late` (`Modes1`) and `missed` (`Cruise`) mark these cases,
  and the properties say that there are no others.
* A cruise control that is left on this way keeps writing the speed during an emergency
  stop (`scc.c:71-79`), which may then never see a speed of 0. `EngagementEnds` has the
  premise that cruise control is suspended in the end, and `RaisedAtMostOnce` counts the
  pedals' raises only.
* Lane keeping may start without a lane: Main stores 50 over the detection's 150 when it
  turns lane keeping off (`main.c:595`), so that its look at the offset (`main.c:588`)
  tells nothing after two messages of a lost lane and a press.
* An LKA suspended between its angle and its pulse writes the old one when it is resumed
  (`lka.c:34-37`), until its next iteration.
* A function asked for while the indicator is on is denied once and not started when the
  indicator goes off (`main.c:588`, `main.c:229`).
* MCB of phase 2 clears `dir_flag`; Main takes that for the driver and brings lane
  following back during the emergency stop (`main.c:219-221`).
* `angle` of LKA holds a pulse after an iteration; without an offset in 0..100 the next
  iteration takes it for an angle, and the wheel goes to 180 degrees (`lka.c:24-29`).
* A shock that arrives while CAN acknowledges another frame is lost: its flag is cleared
  with the old one's (`can.c:115`). `CrashEngages` is about the shocks CAN is free for. A
  foreign frame may also replace the byte of a shock CAN has not yet looked at
  (`can.c:66`).
* With all transmit mailboxes full `CAN1_Send_Test_2` halts the controller (`can.c:58`);
  the liveness properties of `mcb1_stop` excuse that.
* The lane detection's offset and its flags may come from halves of two messages
  (`tcp_server.c:414-464`).
* A press of a pedal of phase 2 lasts one iteration of the pedals (`pedal.c:71`): cruise
  control may not see it. `HeldPedalEndsCruise` is about a pedal that stays pressed.
* The limit of `speed.c:8` is never reached: the drive of the fastest car is 100.
* The debounce compares with the last handled edge from 0, so on a 32-bit kernel, where
  jiffies begin five minutes below the wrap, presses right after boot are ignored
  (`buttons_driver2.c:32`).
* LFA may be suspended inside `SG90_SetAngle` with the wheel steered, or the channel off
  until a later call ends (`lfa.c:38-48`). `PulsesWhenOut` is about ended calls.
* On a free road SCC never lowers a speed above its target (`scc.c:42`).
* A socket of phase 2 whose client came and went between two looks stays in CLOSE_WAIT
  (`w5500_port.c:359`); after a failed `listen`, `close` uses the chip without the mutex
  (`w5500_port.c:283`).

### Bounds

* *Speeds, pressures, distances* are small numbers. Two units of pressure, a range of 2 and a
  brake of 1 (`Mcb1`) suffice for: standing, moving, at the limit, beyond it before the
  clamp, and a brake that needs more than one iteration. There is one message of the
  pedals, a press of the accelerator; cruise control leaves a speed of 0 or the highest
  (`CruiseSpeeds`), speeds out of range are in the proofs only. `Cruise`, with speeds 0..2,
  takes distances at, between and beyond the two limits and rounds its quotients down.
* *Queue and mailboxes* have length 1, so that full, empty and dropped all happen; the
  proofs are for every length.
* *`MaxKeys` = 3* (`modes2_stop`): lane following on, indicator on and off needs three
  keys, and two requests for the stop with a key for cruise control between them are
  three as well. Keys 1, 5 and q come at any moment, 2 and 3 while Main sleeps; the proofs
  have no such limits.
* *`MaxSlices` = 1* (`cruise`): one time slice loses one update, and a further one loses
  another.
* *Sequences* in `TcpLines`: a buffer of 6 bytes, lines of up to two bytes, four lines and two
  losses: a line cut in two, two lines in one chunk, a dropped chunk that holds a line's
  end, a connection that breaks inside a line all occur.
* *Clocks* wrap within the run. `buttons` loads the driver 8 ticks before the wrap, which
  leaves time for presses on either side of it, or 3 ticks before, when the clock counts
  as earlier than the 0 the driver compares with. `Horizon` leaves time for two debounce
  intervals; the proofs are for any durations, so for a tick of any length.
* *`Speeds`* (`pwm`) are standing, half and full speed; `Waits` = 2 stands for the 101 rounds:
  a wait that succeeds at once, in a later round, and one given up.
* *`Patience`* (`ranging`) is larger than the longest good echo, and than the two ticks within
  which the sensor answers; `Wrap` is more than twice as large.
* *`modes1_flags`*: in one drive one function is used, cruise control or lane keeping with
  the indicator, by button or by key (`Controls`), and the lane is lost or left. Within
  that, keys, pressed pedals and shocks come between any two steps of Main, buttons and
  lane messages whenever their tasks may run. The proofs have any drives and lanes.
* *`eth_sockets`* has all three servers.

`CHECK_DEADLOCK FALSE` is in the runs of systems that may stop: `Error_Handler` halts the
controller (`Mcb1`), the sender ends when its connection does or the horizon is reached
(`Buttons`), all lines have been sent (`TcpLines`), `MaxTET` is reached (`Warning1`), a
server that cannot listen returns (`EthServers`). In all others a deadlock is an error.

### Fairness

* Every task sleeps or waits in each iteration, so a less urgent task that is ready gets
  the processor again and again: weak fairness for wake-ups and for the most urgent
  task, strong fairness for the tasks that more urgent ones keep pre-empting.
* `Mcb1` also assumes that SIS (50 ms) wakes while Pedal (100 ms) sleeps again and
  again. Without it, the brake could be requested for ever in the few instructions in
  which Pedal is about to reset it; the periods rule that out. `EngagementEnds` has the
  premise that cruise control is suspended in the end (`<>[][~SccDrives]_vars`), which
  Main does when it sees the flag SIS has cleared (`mcb.c:23`, `main.c:540-560`).
* `Modes2` abstracts the speed, so it assumes that the requested brake ends up stopping
  the car; `Mcb1` shows how. `McbRequestServed` has the premise that cruise control is
  suspended in the end: it may keep the speed up until MCB's clearing of its flag
  reaches Main.
* The servers, the sensor and the sender run whenever others sleep: weak fairness.
  `EthServers` adds strong fairness of taking the mutex, which every server leaves free
  between two sections.
* `Pwm` has weak fairness for Main's call and for the motors' tasks, which nothing suspends
  (SPEED runs from its creation on). It does not assume that the channel becomes idle:
  `MotorFollows` has that as its premise, because `Motor_SetPWM` waits without an end
  (`speed.c:25`), and `MainGoesOn` holds without.
* `Cruise` has strong fairness for SCC's and the pedals' steps, which wait for each other's
  iterations, and for Main's, which they pre-empt, and weak fairness for the ends of their
  sleeps. `HeldPedalEndsCruise` has the premises that the driver presses the button no
  more and that both tasks sleep at once again and again, so that Main runs.
* Nothing is assumed of drivers, clients, the lane detection or the bus.

## 4. Proofs

The proof modules are checked by TLAPS for every value of the constants that the
modules' assumptions allow.

* **`Mcb1_proofs`.** `TypeCorrect`: the type of every variable, action by action.
  `RaisesAtMostOnce`: the pedals raise the speed at most once while they are held,
  whatever cruise control stores meanwhile. The invariant is not inductive; `RaiseInv` adds
  that a pending acceleration exists only while Pedal is past its test of the gate, and,
  once raised, that Pedal is past the store or has nothing left in `accel_val` or in what
  it has loaded that could raise it again. `Implements`: the refinement, for any
  frames and keys; the driver may react only if some frame asks for one.
  `ParkedLeavesPedals`, if no frame asks for the driver: `ReactInv` adds that CAN never
  enters the branch that suspends SIS from outside. That condition is needed:
  `mcb1_lockout` is the counterexample without it.
* **`Modes2_proofs`.** `TypeCorrect`, `WatchdogIsGuarded`, `StopsAtStandstill`,
  `ParkedLeavesPedals`, `Implements`. `IInv` adds `BootInv` (while Main creates the
  tasks nothing can move the car, so MCB's first iteration parks it) and `FinishInv`
  (MCB stays ready from its test of the speed to the end).
* **`Console_proofs`.** For any tasks and priorities in which only less urgent tasks, or
  a task itself, suspend a task: the holder of the mutex is ready, nobody is suspended in
  a print, nobody less urgent runs while a task waits. `ServedInv` names the task all
  waiting tasks depend on; `LentInv` bounds the inherited priorities.
* **`Buttons_proofs`.** `TypeCorrect`. Each report takes a press of its own, and `read`
  never blocks. `SampledWhateverTheClock`: for any interval and timeout of `poll` the
  pedals are sampled less than their sum after the last time, wherever the clock starts
  and however often it wraps; `SampleInv` adds that what is left of `poll`'s timeout still
  fits. That is just under 150 ms: a wait that ends just before the interval does is
  followed by a whole one (`last_last.c:98`, `:120`). `DebouncedWhateverTheClock`: what
  the driver ignores lies within the debounce time of a press, for any debounce time, any
  start of the clock and any width for which `ClockIsWide` holds. That hypothesis says
  that the driver is loaded for less than half a turn of `jiffies` and the debounce time:
  between presses that lie further apart `time_before` takes the past for the future, and
  a press is ignored. `SinceInv` says that no press lies before the driver is loaded.
  `EarlyIs` computes the comparison: `last_pressed_jiffies` is the time of a press modulo
  the clock, and what `time_before` sees as early is early.
* **`Devices_proofs`.** Of `Pwm`, `TypeCorrect`: the drives are percentages.
  `PulsesComeBack`: a channel that is off has a call that is going to enable it.
  `OldDriveAtMostOnce`: SPEED carries at most one drive of a speed that is no more. Of
  `Ranging`, for any number of samples, any echoes and any length of the wait, on both
  controllers, `UssTypeCorrect`, `FewFaultsAreHidden` and `MuteNeverLooksFree`. The
  properties are about a window, the invariant about a poll: `WaitInv` relates the polls
  made, the ticks until the line changes and the time since it rose, at each label, for
  samples that are held up and those that are not; `SampleInv` follows for the window.
  `MedianHides` is the lemma about the median: samples have different places
  (`PlacesDiffer`), so every place is taken (`PlaceIsTaken`, a pigeonhole argument), and
  as many samples as places lie on either side of the one in the middle. It needs no
  induction. The assumption that the wait is longer than the two ticks within which the
  sensor answers is needed: with a shorter one a good sample is given up (`uss.c:31` of
  phase 1).
* **`Modes1_proofs`.** `TypeCorrect`, and `CenteredWhenParked` for any keys, buttons, lane
  messages, pedals and shocks: no step but LKA's own moves the wheel from the middle.
  `CruiseFollowsFlag`, `RemembersOnlyWhileSignalling` and `LaneKeepingOffByFlag` for the
  same, at any time: `SccInv`, `DirInv` and `LkaInv` say what each label of Main knows of a
  flag that is not in `late`. A flag gets into `late` when somebody writes it while Main
  handles it, and out when Main handles a change of it anew; without that exemption the
  missed changes of section 3 refute all three.
* **`Cruise_proofs`.** `TypeCorrect`, and `SeesInRange` for any speeds, distances and
  presses: `RangeInv` says that, while no slice has ended in an update, only one of SCC and
  the pedals is past the start of its iteration, and how far from the range each label may
  have the speed.
* **`Servers_proofs`.** `TypeCorrect` and `EthTypeCorrect`: the types of both servers, for
  the second the labels, the sockets and the owner of the mutex.
  Of `TcpLines`, for any lines, chunks and losses:
  - `ResyncAfterLoss`: a line that the server takes after the newline behind a loss is one
    that was sent. The invariant speaks of `Wire`, the unfinished line in the buffer and
    the stream behind it as one sequence, which a receive leaves as it was. `ResyncInv`: the
    buffer holds a newline only between the receive and the search of it, and behind each
    newline of `Wire` there is a line, or the beginning of one.
  - `ObeyedOnlyIfAsked`: no button is obeyed more often than the client asked. `AskInv`
    adds to what was obeyed the places of `Wire` where the button's command can
    still be found. A set of such places has a newline between any two (`Apart`), and
    its size grows by a send alone.
  - `TakenInOrder`: without a loss lines are taken unchanged, in the order of the sends.
    `OrderInv` says that `Wire` is the lines not yet taken one after the other, each with
    its newline. The hypothesis `LinesAreShort` says that every line fits into the line
    buffer: the code drops longer ones (`tcp_server.c:105`). The client sends two bytes
    for a button and at most 49 for the pedals (`last_last.c:110-113`, `:127`).

  Of `EthServers`, `LeavesNothingOpen`: a server that gives up leaves its socket closed and
  the mutex to the others.

Both refinements (`KeepsStopPromise`) are proved as well as checked: the initial states
map to initial states, and each step to a step of `EmergencyStop` or a stutter, with
`braking` = SIS (MCB) not suspended, `held` = the gate closed, `moving` = speed not 0.

Only model-checked: everything under fairness (liveness and `ENABLED` are out of TLAPS's
reach here), and `Warning1`,
whose property the code violates.

## 5. Not modelled

* When the periodic status of phase 1's server 5001 is due (`Modes1` has the step, which
  changes no flag, and no clock).
* What messages to phase 2's Ethernet servers do to the flags (`w5500_port.c:320-339`,
  `:554-581`): any integer is stored there, and the tasks are not created in this revision.
* That a line of 254 or 255 bytes is written past `temp` (`tcp_server.c:182`); the client
  sends at most 49.
* Formatting, printing and the byte statistics of the servers.
* The registers of the chips and boards: timers, ADC, SPI, PDM beyond off, busy and on,
  the W5500 beyond its sockets' states. These are external to the repository and modelled
  from how the code uses them.
* What sets up the W5500 and moves its bytes over SPI (`w5500_port.c:33-260`): register
  values and busy waits, without a decision the system depends on.
* `cant.c` (an empty loop), `servo.c` (commented out), generated start-up code, headers.
* Values that C leaves undefined other than Main's uninitialised locals, which are any
  value; torn accesses to `float` do not occur on either processor.

## 6. Plan

Done: the emergency stops first, since they are the system's safety function; then the
flags that turn functions on and off; then the shared speed and the servo; then the
inputs (sensor, lines, buttons), the console and the Ethernet servers.

Then the motors, TTC, the console key that presses a pedal, and the proofs about the flags
and the shared speed.

Next:

1. The frames of the W5500's SPI transfers as steps, to show what a `close` outside the
   mutex does to another server's transfer (`w5500_port.c:283`).
2. `Cruise` and `Modes2` together: MCB against SCC and the pedals with speed as a number.
   The product of the two state spaces asks for a coarser speed or a shorter boot.
3. Proofs: the abstract specification of the flags that `Modes1` and `Modes2` share, and
   safety that supports the properties under fairness (what cannot be lost on the way).
