# Formal models of the CanSat flight firmware

TLA+ modules for the firmware under `src/` (ESP32, FreeRTOS, C++), the TLC
configurations that check them, and TLAPS proofs about the mission, the
tasks around it, the flight recorder, the attitude reference, the sensors, the
links, and Flight32's console, settings and motor side.
Source paths below are relative to `src/`; `mission.hpp` is
`components/nav/include/nav/mission.hpp`, `main.cpp` is `main/main.cpp`, and
*Flight32* is the quadcopter controller under `flight32-dev/`.

The firmware flies a CanSat: it waits on the pad, recognises a launch by rocket
or by carrier drone, the release, opens two spring-loaded arms by servo, steers
to a landing point with motors, cuts the motors near the ground and detects the
landing. The state machine that decides all this is small; what makes it hard is
everything around it: a tumbling vehicle, sample gaps, brownout resets in
mid-air, operator commands at any moment, tasks that see each other's state
through copies, and a flash log that must survive all of it. Flight32 is a
firmware of its own in the same tree: its console, its settings and its motor
task with the ESC passthrough are modelled too.

## 1. Inventory

### The flight

**Mission supervisor** (`mission.hpp`, class `MissionSupervisor`).
*State*: phase (PAD, ASCENT, DESCENT, ARMS_DEPLOY, STEERING, LANDED), latches
(flight started, arms unlatched, motors cut low, aborted), the tumble suspension,
pad reference and peak altitude, eight accumulators (`*_s_`), seven time stamps
(`t_*`, `last_*`), the profile (flight, simulation, lift test).
*Operations*: `ingest_accel` (every IMU sample, 100 Hz), `step` (every barometer
sample, 50 Hz), `reset`, `set_sim`, `set_lift_test`, `abort`, `save`, `restore`.
*Hard*: release evidence against slow carriers, gaps between samples, latches
across resets, two-sided tumble hysteresis, commands between any two samples.
*Correct when*: motors spin only with arms out and above the cut-off altitude;
the flight only moves forward; arms never re-latch; the motors stop in a tumble
and stay off below the cut-off altitude; a carrier never opens the arms; a lift
ride never turns into a flight with motors.

**Navigation, control and command tasks** (`main.cpp`).
`nav_task` steps the mission, saves and seals the reset record and publishes
`g_nav`, all under `fc_mutex`; `control_task` copies `g_nav` and `g_bench` in a
critical section of its own, then drives servos and the ESC state machine
(SILENT, ARMING, SPINUP, RUNNING, STOPPED); command handlers run in the tasks of
XBee, BLE and console and change mission, `g_bench` and `g_manual_unlatch`.
*Hard*: copies that are stale when they are used, bench tests that overlap a
launch, a barometer that falls silent, resets anywhere.
*Correct when*: motors that are no longer wanted stop; servos never go back in a
flight; a bench test never continues into a flight.

**Reset record and boot** (`main.cpp` `g_persist`, `main_fc`; `MissionPersist`).
A record in RTC memory that survives brownout, watchdog and panic, guarded by a
checksum. *Hard*: the record is overwritten in place; commands do not update it.
*Correct when*: a reset in flight resumes that flight, and only that flight.

**Flight recorder** (`components/logging/src/flight_recorder.cpp`).
*State*: flash partition, write offset, erased margin, next sector to erase,
sequence number, queue, batch, erase request, flight flag.
*Operations*: `init` (scan), `push`, `task_loop` (receive, timed flush, background
erase, full erase), `flush`, `erase_one`, `request_erase_all`, `set_flight_active`,
`list_sessions`, `dump_session`.
*Hard*: finding the ring again after a reset in the middle of a program or an
erase; wrap-around; erases that race the launch; a failing erase; two tasks on two cores
that number their records and then queue them, without a lock.
*Correct when*: nothing is programmed over a record, a session reads in the order
of its numbers but for one known record, only the oldest records make room, every record is flushed.

### Sensors

**Attitude reference** (`components/drivers/src/imu_attitude.cpp`, `bno085.cpp`).
*State*: stillness timer, vote on the quaternion convention, tare request, flight
lock, the reference. *Operations*: `update` for every sample, `request_tare`,
`set_locked`, `init`. *Hard*: captures requested by one task and made by another;
the lock against a first capture in the air; a log call in the middle of `update`.
*Correct when*: the reference is in the convention in use and never moves in flight.

**Vertical filter** (`components/nav/include/nav/vertical_kf.hpp`): median of three,
rate limit, innovation gate, bypass after a clipped acceleration, re-sync to a
smooth stream that was rejected. *Hard*: a gate that closes and never opens; a
glitch while the median is not filled. *Correct when*: it is never blind for long
and a single glitch does not reach the estimate.

**Barometer samples** (`bmp585.cpp`, `main.cpp`): the sensor task, SIMP and CAL read,
nav_task copies and uses later. *Hard*: a command changes zero or source between
copy and use. *Correct when*: at most the samples under way are of the old kind.

**GNSS fixes and launch site** (`ngps01.cpp`, `guidance.hpp`, `main.cpp`): sentences
come in any order and get lost, the cache and its stamp are published separately,
the pad position is averaged before the flight. *Correct when*: steering by an old
position ends, and a CanSat left on the pad has a site.

### Links

**XBee and BLE** (`components/comms/`, `main.cpp`): a transmit queue that drops its
oldest frame in two steps; advertising, connection and enable flags shared by the
Bluetooth host task and `nav_task`; `CX` and `LOG,DUMP` from three tasks.
*Correct when*: the newest frame gets in, the stream returns after a download, the
CanSat can be reached on the pad and after landing.

### Flight32 (`flight32-dev/src`)

**Console** (`serial_manager_task.cpp`, `terminal/`, `com_manager.cpp`): one byte stream
with typed lines and MSP frames, an output queue with a flush handshake, flash
keys written one after the other, gains that are in use and in flash.
*Correct when*: only whole lines are executed, a good frame is answered, a flush
returns (of two that overlap, one), a power cut never leaves a setting missing.

**Settings** (`settings_manager.cpp`, `terminal.cpp`, `msp_processor.cpp`): a table of
keys read and written as text by the terminal, as numbers by MSP and at start by the
tasks. *Correct when*: a backup restores the texts, options and bytes it dumped, terminal and
MSP tell the same, a mistyped word never halts the firmware.

**Motor task and ESC passthrough** (`tasks/motor_task.cpp`,
`flight_controller.cpp`, `serial_manager_task.cpp`): bench tests and the switch-over
to the host's ESC tool, store by store, preempted by MotorTask. *Correct when*: the
parts agree on the mode, a test drives its own motor and ends.

### Other parts

**Event log** (`components/logging/src/event_log.cpp`): ring of 256 events in NVS, indices
stored every 16 events. **SD logger**: the card is not fitted. **Arithmetic**: Kalman
covariances, steering, mixer, PID, quaternions; no discrete state. **Support**:
configuration store, watchdog, power manager, built-in test, RF mapper, telemetry
encoder, core-dump exporter, OTA, ground station, host tools. `PROJECT.json` lists
each with the reason it is left out.

How they interact: sensors -> snapshots -> `nav_task` -> mission -> record and
`g_nav` -> `control_task` -> servos and motors; commands -> mission, `g_bench`,
`g_manual_unlatch`, recorder, barometer; `nav_task` -> recorder, event log, telemetry,
flight flags of recorder, BLE and attitude reference. In Flight32: serial bytes ->
console -> settings, gains, motor tests, passthrough; receiver -> PidTask -> MotorTask.

## 2. Modules

| module | models | kind |
|---|---|---|
| `MissionSupervisor` | `mission.hpp` as `nav_task` drives it, with record, commands and boot | detailed specification |
| `MissionPromise` | order of phases and latches, without timers and altitudes | abstract specification |
| `MissionRefinement` | the mapping from the first to the second | refinement |
| `MissionInvariant` | the inductive invariant | invariant |
| `MissionHistory` | the supervisor plus history variables for what really happened | auxiliary variables |
| `FlightStack` | `nav_task`, `control_task`, command handlers, reset; composes `MissionPromise` | composition |
| `FlightRecorder` | the flash ring, its writer task, the scan at boot, reading by sessions | detailed specification |
| `RecordLog` | the log that the recorder promises, without sectors, offsets and batches | abstract specification |
| `AttitudeReference` | the IMU driver's reference and the tasks that share it | detailed specification |
| `VerticalFilter` | gate, median and re-sync of the vertical filter | detailed specification |
| `BaroPath` | barometer samples from the chip to the mission | detailed specification |
| `GnssPath` | fixes from the receiver to site and steering | detailed specification |
| `SensorPaths` | `VerticalFilter`, `BaroPath` and `GnssPath` for one run | composition |
| `BleLink` | advertising, connection and switch-off of Bluetooth | detailed specification |
| `Downlink` | telemetry, transmit queue, uplink, downloads | detailed specification |
| `GroundLinks` | `BleLink` and `Downlink` with the commands of all links | composition |
| `Flight32Console` | serial bytes, MSP parser, terminal, flash, flush | detailed specification |
| `Flight32Settings` | what the settings mean to terminal, MSP and start | detailed specification |
| `EscPassthrough` | motor tests and ESC passthrough under preemption | detailed specification |
| `MCMission`, `MCMissionHistory` | the values of a small instance | model checking |
| `MissionProofs` | inductive invariant and safety properties of the supervisor; it implements the promise; timers against the true history, the carrier, the launch window | proofs |
| `FlightStackProofs` | record, flights, bench tests and latches across tasks and resets; to all but a reset, a sample is one step | proofs |
| `RecorderProofs` | the ring, its numbers and sessions, through every reset and scan; it implements the log | proofs |
| `AttitudeProofs` | the reference fits its convention and stays locked | proofs |
| `SensorProofs` | filter, barometer samples, fixes | proofs |
| `LinksProofs` | transmit queue and telemetry stream | proofs |
| `Flight32Proofs` | Flight32's motor side, store by store; its settings, put by put; what its terminal and MSP tell of them | proofs |
| `ConsoleProofs` | Flight32's flash and gains through power cuts, whole lines, frames answered | proofs |

### MissionSupervisor and MissionHistory

Variables carry the names of the members (`flight_started_` is `flightStarted`).
The accumulators are the function `timer`, the stamps the function `age`: the time
*since* the stamp, `Never` for a negative stamp, so that time needs no clock.
`Tick` is one 10 ms iteration of `nav_task`; it ages the stamps.

* `IngestAccel(f)` and `Step(in)` are the two calls, each at most once per tick
  and each possibly left out, so sample gaps of every length occur. `Step` has one
  action per case of the `switch`; the landing test after the `switch` and the
  save of the record by `nav_task` belong to the step.
* `LiftCommand`, `CalCommand`, `SimCommand`, `AbortCommand` are the handlers in
  `main.cpp`, with their refusals as guards. None of them touches the record, as in
  the code. (The baro re-zero of CAL is `BaroPath`'s, the launch site `GnssPath`'s.)
* `Resume` and `ColdBoot` are `main_fc` after an abnormal reset. A power-on or a
  console `reboot` (`esp_restart`, not an abnormal reset) clears the record and is
  a new behaviour from `Init`.

Altitudes and speeds are integers of any unit, accelerations the three classes that
the comparisons tell apart, attitudes the five classes that the tests on tilt, rate
and validity tell apart. Times are numbers of ticks. Accumulators saturate at the
limit they are compared with and ages at `AgeCap`, above every limit: no comparison
can see the difference. The pad reference creeps by zero or one unit towards a still
sample: a filter with a small gain.

`MissionHistory` adds what the vehicle has really done, kept apart from the timers
that the code uses to remember it: how long every step has seen it upright, how long
tumbling, and whether it has been `carried`, without shock, free fall or fast sink,
since the flight began. Commands and resets do not change the past.

### MissionPromise and FlightStack

`MissionPromise` says which changes of phase, latches and record are possible at all.
`FlightStack` takes it as the mission and adds what the tasks do with it. An
iteration of `nav_task` is two actions, `NavStep` (step and save) and `NavPublish`
(seal and publish); `fc_mutex` is held in between, which every action that takes it
has as a guard. A record that is saved but not sealed is invalid unless the save
changed nothing. An iteration of `control_task` is `ControlRead` (its critical
section) and `ControlAct` (servos and ESC). Commands and resets come at any point,
also between save and seal.

Seen from outside `fc_mutex`, a sample is one step of `MissionPromise`, which ends with the
record of the state it leaves (`SavesAtOnce`). `Saved` is the record
as that mission has it, already complete while `nav_task` is sealing; the one exception is
`TornReset`, a reset in between that finds a checksum which does not fit.

`NavLead` bounds how many samples `nav_task` processes inside one iteration of
`control_task`: the latter runs at 100 Hz at the highest priority, the barometer at
50 Hz. `BaroFails` stops the samples for good.

### FlightRecorder

Offsets count records, a slot holds a sequence number, `Erased` or `Torn`. `Boot` is
`init()` with its scan; the writer's loop is cut where it blocks or where a reset
may strike: receive, erase of one sector, program of one chunk, each block of the
full erase. `CrashInProgram` leaves a prefix of the chunk and possibly one torn
slot. `FlushGivesUp` is a failed erase. An erase happens or does not: what an interrupted
erase leaves depends on the chip.

`push` is two steps, as in the code: it takes a number (`flight_recorder.cpp:128`) and queues
the record (`:130`). nav_task does so in `TakeNumber` and `Enqueue`, with `pending` in between.
The writer does so once, for the note LOG ERASED at the end of a full erase (`:207`): `TakeNote`
and `QueueNote`, with `task` = "noting" in between. Either may get in between the other's two
steps, so the note and the records of nav_task are queued, and then stored, in any order.
`Overtakes` bounds how many records of nav_task get ahead of the note: fewer than a sector
holds. That is 64 records, 1.28 s of logging at 50 Hz, for a task whose two statements
nothing holds up but the tasks above it on its core. The session header is queued before the writer and nav_task exist.

`heads` holds the numbers of the session headers, but for those that a failed or an
interrupted erase has taken away in front of their records (section 5). `At(p)` is what
`for_each_record` finds in its p-th slot, from the sector after the margin once around;
`Read`, `Listed` and `Dumped` are what LIST and DUMP make of it: the newest `MaxListed`
sessions, each up to the next header.
The 32-bit sequence number is not wrapped: it lasts for years of records.

`RecordLog` is what remains when sectors, offsets and batches are forgotten: numbers that
wait and numbers that are stored. They are stored oldest first, but for the note, and make
room oldest first, a reset loses at most what waits and stores a first part of it, a boot goes
on behind the newest that survived and begins a session there. `KeepsLog` is its specification under the mapping
in `FlightRecorder`: `Stored` is what is in flash, `Waiting` what is in batch or queue or has
a number and is about to be queued, `Mode` whether the task is off, running, erasing
everything, or done with that and about to take the number of its note.

### AttitudeReference

The rotations are abstract: of a captured reference the model keeps the quaternion
convention it was computed in (`refConj`) and a parity of captures, so that a move is
visible. `Update(s)` is `update` for one sample, cut where it logs before it is done:
between its vote (`conj`) and its capture (`AfterLog`), and inside the capture of a
vehicle that is too tilted to be trimmed (`AfterTiltLog`). The console may block for 50 ms
(`main.cpp:1244`), so there all other tasks may run, lock the reference or ask for a tare, `nav_task`
included, whose priority is lower than that of `imu_task`. `Probe`
is the search of the driver for its sensor, once per reset; `RawSampled` and
`Reported` are the two sensors that never give an attitude, `ReadFails` a sample that
does not come. `NavLock` and `NavDrop` are what `nav_task` does in a flight,
`TareChecked` and `TareStored` the two halves of the command.

### SensorPaths: VerticalFilter, BaroPath, GnssPath

*VerticalFilter.* Altitudes are units of `SigmasPerUnit` standard deviations. The
state is what decides about a sample: the last three raw samples, the last accepted
one and its age, the window of rejections with its sum of squares, the clip hold.
Prediction and covariance are an arbitrary verdict (`agrees`): what holds, holds
wherever the estimate is. The real altitude moves at most one unit per sample; a
sample that is not the real altitude is a glitch. Three observers count.

*BaroPath.* A sample is `none`, `current` or `old`; a command that changes the zero or
the source turns what is under way into `old` (`AllAged`). Sensor task, SIMP,
`nav_task` (copy, then use under `fc_mutex`) and CAL interleave freely.

*GnssPath.* Time is counted in epochs of the receiver, one second. In each it sends
RMC and GGA in some order; a sentence with a bad checksum is lost, at most `MaxLost`
GGAs in a row. `Parse` fills the cache, `Stamp` and `Publish` are the two halves of
the sensor task, `NavTakes`/`NavUses` and `ControlTakes`/`Steers` the copy and the use
in the two other tasks. A position is its age.

The three share no state of these modules. `SensorPaths` is a disjoint sum: the
variable `path` is chosen at the start and the other two stand still, so one run
checks all of them. It is a way to run them, and claims nothing about their interplay.

### GroundLinks: BleLink, Downlink

*BleLink* has the Bluetooth host task and `nav_task` in `advertise()` at once, each in
two steps (its checks, then the start), the stack's own connection one step ahead
of what `gap_event` is told, failed connections, and resets of the stack.
*Downlink* has `enqueue_packet` in three steps (look for room, take the oldest out,
put the new one in), `spin` with frames and uplink, `CX` and `LOG,DUMP` by the task
that reads them. `GroundLinks` adds the queue between the Bluetooth host task and
`ble_cmd_task`.

### Flight32Console

The host sends typed lines and MSP frames, from the moment the serial task runs, and the
power may go at any step. A frame may break off, or be too long (`LongFrame`): the parser is
idle from the byte that is one too many on, and what follows may look like a header. Each byte is one action of the parser (`FrameStart` ... `MspCommand`),
named for the states of `_parse_msp_char`; what the parser refuses is the terminal's.
Flash keys are written by `Works` one put at a time, so a factory reset or the save of
an axis can be cut in the middle. A flush is a message in `com_queue` and an
acknowledgement in a queue of one, for setup and the serial task alike; a task is `Stranded`
when it waits and no acknowledgement is there or to come. The module keeps structure only: a line is two
characters and a newline, what it commands is chosen when it is executed.

### Flight32Settings

One key stands for all keys of its kind: `Table` has a text, two options, a byte, the
receiver's pin, a channel, a gain, the arming delay, two numbers. Text is a word or a
number in thousandths; `ToInt`, `ToFloat` and `Rounded` are Arduino's conversions.
`Printed` and `Before` are the keys that a dump prints, by category, and their order; a backup
is pasted in that order, and `pasted` holds the keys typed back so far. Each command of the
terminal that reads or writes a setting is an operator on the flash, and so is each MSP reply that shows one; a command arrives whole and writes its keys
one after the other. `BeginSettings`, `CalibrateImu` and `StartTasks` are
`FlightController::setup` as far as settings decide about it. `live` is the gain PidTask flies
with and `behind` says that another than PidTask has written the gain in flash since: `set pid`
and `reset pid` change both, `set`, a paste and MSP's reset the flash alone. Gains are shown as
whole hundredths (`Hundredths`), an `int` that saturates (`Int32`), and by MSP in 16 bits
(`MspPid`) and in 8 (`MspRcTuning`). `MspCommands` are all commands of `process_msp_command`; with
the empty payload each is told of, they save, reset or leave the settings alone (`MspJobs`).

### EscPassthrough

MotorTask has a higher priority than the serial task on the same core: one iteration
is one step, and it may come between any two stores of a serial operation, which is
kept as the sequence `op` of stores still to make. PidTask and RxTask run on the
other core. A 4-way command is complete or it is not there; the one-wire protocol to
the ESC is three steps that may fail.

## 3. Runs

| run | question | states | answer |
|---|---|---|---|
| `mission_modes` | lift, simulated and real flights: `TypeOK`, `MotorsSafe`, `MissionInv`, `ForwardOnly`, `KeepsPromise` | 87 000 | holds |
| `mission_history` | true history: `TumbleStopsMotors`, `CarrierKeepsCanSat`, `ResumeNeedsRecovery`, `ConfirmedInTime` | 505 000 | holds |
| `stack_tasks` | tasks, commands, resets, barometer failure: `NoBenchInFlight`, `ServosFollowMission`, `UnwantedMotorsStop`, `FlightLostOnlyTorn` | 534 000 | holds |
| `recorder` | flash ring: `MarginIsErased`, `OldestFirst`, `KeepsLog`, `EverythingIsFlushed` | 306 000 | holds |
| `attitude` | reference: `ReferenceInUse`, `FrozenInFlight`, `StillBoardReferenced` | 61 000 | holds |
| `sensors` | filter, barometer, GNSS: `HeldIsBounded`, `IsolatedGlitchesHarmless`, `GhostsAreFew`, `StaleSteeringEnds`, `PadLearnsSite` | 393 000 | holds |
| `ground_links` | links: `NewestFrameTaken`, `StreamBack`, `Reachable` | 571 000 | holds |
| `flight32_console` | console: `SettingsComplete`, `GainsAsSaved`, `WholeLines`, `FramesAnswered`, `FlushReturns` | 488 000 | holds |
| `flight32_settings` | settings: `RestoreKeeps`, `ViewsAgree`, `HaltedOnlyIfTold` | 270 000 | holds |
| `esc_passthrough` | motor tests, passthrough: `ModesAgree`, `TestDrivesItsMotor`, `TimedTestEnds` | 1 292 000 | holds |
| `stack_deaf_abort` | `AbortStopsMotors` | | violated |
| `sensors_stale_fix` | `GuidedByFreshFix` | | violated |

**What the violated ones show.** Each states a sentence of the documentation (quoted
in `PROJECT.json`, `findings`).

* `stack_deaf_abort`: with a silent barometer `g_nav` is not published again, so
  ABORT never reaches `control_task` and the motors keep running.
* `sensors_stale_fix`: the sensor task stores the stamp of a new fix before it
  publishes the fix, and `control_task` copies the position before it loads the
  stamp. When the receiver speaks again after a silence, an iteration in between
  steers by the position of before the silence. The same follows when the first
  sentence is an RMC with status V: it renews the time only, and the old position is
  stamped as new. `StaleSteeringEnds` bounds how long this lasts.

**Bounds.** Durations are the smallest for which a condition can begin, last and be
interrupted: two or three ticks for what must last, one for what must be exceeded.

* `mission_modes`: three altitudes, at the cut-off, between it and the launch gain,
  and above; four speeds; lift, simulation and real flight, calm accelerations, since
  the profile decides there; opening and the wait after the release last two ticks,
  so that a step before the arms are open exists.
* `mission_history`: real flights and lift tests with calm and boosted samples, two speeds; launch
  and release take one sample, recovery three and a tumble two, so that several
  suspensions fit and a partial recovery can be left over. The invariant
  `CarrierKeepsCanSat` needs samples that are neither boost nor free fall, the other
  three a boost that launches: both are in `AccelSamples`.
* `stack_tasks`: ESC times and `NavLead` are one and a bench test lasts two
  iterations: each deadline can be met, missed and interrupted. All commands.
* `recorder`: three sectors of two records, a batch of two, and `MaxSeq` = 7: the
  ring wraps around, reuses sectors, is found again after several resets, and a
  batch may cross a sector or the end of the partition. The guards (`InBound`, `TakeNumber`)
  leave a number for the record that follows, so the bound never blocks the writer.
  One record may overtake the note (`Overtakes` = 1, the most for sectors of two), and
  another be behind it in the queue. Two sessions are listed, so that a third pushes one out of the list. `Watched` is
  one record in the middle, whose fate the liveness property follows.
* `attitude`: a board with each sensor; stillness counted to four units and the vote
  to three, with sample gaps up to two, so that timers are reached, overshot and
  reset in between. `still` saturates at `FallbackStill`.
* `sensors`: four altitudes five standard deviations apart, so that a second difference
  of one unit counts as smooth (25 < 36) and one of two as erratic; a window of three periods and two
  samples; gaps of two. Fixes and sites last one or two epochs. `MaxLost` = 1 GGA lost
  in a row, `MaxResets` = 1; both are named bounds. Of old samples the model counts
  up to `Crowd` = 6, two more than the property allows.
* `ground_links`: queues of two frames and two lines, so that the one that is
  discarded and the one that is put in differ.
* `flight32_console`: a payload of one byte fits and one of two is too long; an output
  queue of two, which one report overfills; the D gain is set to 0.310. Between a start and the
  end of setup the host sends at most `EarlySends` = 1 line or frame: a line whose flush meets
  either of setup's, or a frame that changes the port to MSP under them.
  `flight32_settings`: three words and two numbers behind any key,
  `MaxEdits` = 2 commands that change a setting (a pasted backup is one). No bound
  keeps gains small: a gain of 7 that is typed, dumped and pasted back is one of 700, and its
  70 000 hundredths no longer fit the field MSP has for them.
* `esc_passthrough`: three motors, two throttles, tests of one iteration or without
  an end; the host addresses any motor.

**Fairness.** Tasks run when they are ready; nobody has to send a command, type, fly,
connect, or lose power.

* `FlightStack`: `nav_task` and `control_task` are periodic tasks under the task
  watchdog, so each of their steps that stays possible is taken (weak fairness);
  `NavStep` needs a barometer that still delivers, and properties of waiting except a
  silent barometer by name.
* `FlightRecorder`: the writer runs whenever the tasks above it sleep; receive, flush
  and erase steps are weakly fair, producers, commands, resets and failed erases are
  not. A timed flush is reached in every iteration of its loop.
* `AttitudeReference`: `imu_task` and the boot loop go on (`Sampled`, `AfterLog`, `AfterTiltLog`,
  `StartTasks`); reads may fail in between as often as they like.
* `SensorPaths`: sensor task, `nav_task` and a guidance step under way are weakly fair.
  `Tick` is strongly fair: an epoch ends only when what it brought has been used, and
  the tasks that use it do not wait for one another. The filter and the barometer
  carry safety properties, which need none.
* `GroundLinks`: host task and `nav_task`, and a connection that was told to end does.
  Clients come and go; the radio's tasks carry safety properties.
* `Flight32Console`: setup, serial task and `com_task`; a byte that has arrived is read.
  `MSP_TIMEOUT_MS` is not fair: nothing relies on it.
* `EscPassthrough`: MotorTask and the stores of the serial task.

`MissionSupervisor`, `MissionHistory` and `Flight32Settings` have safety properties only.

## 4. Proofs

Every theorem below holds for all values of the constants that satisfy the `ASSUME`
of the module, which TLC evaluates in its run. TLC runs check the properties first,
and the inductive invariants were checked the same way before they were proved.

| module | theorem | statement |
|---|---|---|
| `MissionProofs` | `TypeCorrect` | `Spec => []TypeOK` |
| | `Consistent` | `Spec => []MissionInv` |
| | `MotorsAlwaysSafe` | `Spec => []MotorsSafe` |
| | `FlightMovesForward` | `Spec => ForwardOnly` |
| | `ArmsNeverRelatch` | `Spec => ArmsStayUnlatched` |
| | `LiftRideStaysInhibited` | `Spec => LiftInhibitKept` |
| | `PromiseKept` | `Spec => KeepsPromise` (implements `MissionPromise!Spec`) |
| | `OutputsOfPromise` | `Spec => []OutputsAgree` |
| | `TumbleStops` | `HSpec => []TumbleStopsMotors` |
| | `ResumeIsEarned` | `HSpec => ResumeNeedsRecovery` |
| | `CarriedStaysClosed` | `HSpec => []CarrierKeepsCanSat`, if `NoSimulation` and `FlightNeedsEvidence` |
| | `LaunchInWindow` | `Spec => ConfirmedInTime`, if `GainPositive` |
| `FlightStackProofs` | `TypeCorrect` | `Spec => []TypeOK` |
| | `RecordCorrect` | `Spec => []RecordTellsFlight` |
| | `FlightKept` | `Spec => FlightLostOnlyTorn` |
| | `FlightEndsBench` | `Spec => NoBenchInFlight` |
| | `LatchesStayOpen` | `Spec => ServosFollowMission`, if `OneSample` |
| | `StepsAreAtomic` | `Spec => SavesAtOnce` (implements `MissionPromise`, but for `TornReset`) |
| `RecorderProofs` | `RecorderInvariant` | `Spec => []RecorderInv` |
| | `MarginTheorem` | `Spec => []MarginIsErased` |
| | `OldestFirstTheorem` | `Spec => []OldestFirst` |
| | `LosesOldestTheorem` | `Spec => LosesOldestOnly` |
| | `LogKept` | `Spec => KeepsLog` (implements `RecordLog!Spec`) |
| `AttitudeProofs` | `TypeCorrect` | `Spec => []TypeOK` |
| | `ReferenceFits` | `Spec => ReferenceInUse` |
| | `LockHolds` | `Spec => FrozenInFlight` |
| `SensorProofs` | `FewGhosts` | `SensorSpec => []GhostsAreFew` |
| | `OldPositionGivenUp` | `SensorSpec => []StaleSteeringEnds` |
| | `GlitchesFiltered` | `SensorSpec => []IsolatedGlitchesHarmless` |
| | `HoldEnds` | `SensorSpec => []HeldIsBounded` |
| `LinksProofs` | `FrameTaken` | `Spec => []NewestFrameTaken` |
| | `StreamComesBack` | `Spec => []StreamBack` |
| `Flight32Proofs` | `ModesAlwaysAgree` | `Spec => []ModesAgree` |
| | `OnlyTheTestedMotor` | `Spec => []TestDrivesItsMotor` |
| | `SettingsAlways` | `SettingsSpec => [](SettingsInv /\ LiveInv)` |
| | `RestoreAlwaysKeeps` | `SettingsSpec => []RestoreKeeps` |
| | `HaltsOnlyIfTold` | `SettingsSpec => HaltedOnlyIfTold` |
| | `ViewsAlwaysAgree` | `SettingsSpec => []ViewsAgree` |
| `ConsoleProofs` | `FlashComplete` | `Spec => []SettingsComplete` |
| | `GainsKept` | `Spec => []GainsAsSaved` |
| | `LinesAreWhole` | `Spec => WholeLines` |
| | `FramesAreAnswered` | `Spec => FramesAnswered` |

### Assumptions

* `InputsAssumption`: inputs are integers of the sets named, deploy altitudes of the
  lift test are positive.
* `ThresholdsAssumption`: rows have their types, durations are positive, and a
  landing takes longer than the longest sample gap that counts as time
  (`landedS > StepGapMax`; 2.5 s or more against 1 s in the code). Without it, one
  sample after a gap could detect the landing in the very step of the release.
* `TimesAssumption`: durations are positive where the code needs them to be, and
  `AgeCap` exceeds every age threshold.
* The other modules assume that their lengths and durations are positive, and what
  their comments say.

Four theorems need more than their module assumes. Each hypothesis is named and true
of the run that checks the property.

* `NoSimulation` (SIM is never switched on): `restore` knows nothing of a simulation,
  so a simulated flight, which needs no evidence for its release, goes on as a real one
  after a reset, with arms that nothing real has opened.
* `FlightNeedsEvidence`: the row of a real flight asks for release evidence; `thresholds()`
  passes `!sim_` (`mission.hpp:312`).
* `GainPositive`: the launch has to be confirmed by a gain at all (10 m in `config.hpp`).
  With none, a boost candidate that is long over is confirmed by standing still.
* `OneSample` (`NavLead = 1`): `control_task` runs at 100 Hz at the highest priority, the
  barometer at 50 Hz. With two samples inside one iteration, TLC finds the iteration
  writing latches that it copied before a lift test on the pad ended, into the flight
  that has begun since.

### The arguments

None of the properties is inductive. What each needs:

*Mission.* `MotorsSafe` needs that in STEERING the arms are out and have been for
`OpenS`, and that a vehicle at or below the cut-off altitude has its motors cut
(`SteersHighAndOpen`), also right after a reset: there `Resume` requalifies steering
through ARMS_DEPLOY, so that a state without times never steers. That the arms are out
after `Resume` is a fact about the record (`RecordIsResumable`), which is true because
every step saves what it leaves and commands either keep the phase or return to the
pad. `ForwardOnly` and `ArmsStayUnlatched` compare the state with the record at a reset
and need the same conjunct. The refinement needs `NotLandingYet`: the promise has no
step from ASCENT to LANDED, and the code has none because the landing accumulator is
zero there. `MissionInv` is the conjunction of `PhaseTellsLatches`,
`SteersHighAndOpen`, `NotLandingYet` and `RecordIsResumable`.

*History.* `WatchInv` compares the code's timers with the true durations: while the
motors run, the tumble timer has seen at least what really lasted and is below its
limit; while they are suspended, the recovery timer has seen at most what really lasted.
`CarriedInv` says that a carried real flight is still climbing, with the arms latched
and no evidence (`Calm`), and that on the pad only the record of a lift ride can be
resumed: a command leaves the record behind, and one of a real flight would come back
without its history. `CandidateInv` says that the last barometer sample on the pad has
dropped a candidate that was over.

*Tasks.* `RecordTellsFlight` holds because only a step changes a flight's phase and
latches and saves them before anyone else gets `fc_mutex`; between save and seal the
record may not fit its checksum, which is the one way to lose a flight. `NoBenchInFlight`
needs that the critical section that has read a flight has also ended the bench test.
`LatchInv` follows the copies of the latches: what `g_nav`, an iteration under way and
the servos still hold of latches opened before the mission went back to the pad is
corrected before the new flight opens its own (`OldLatchesForgotten`, phase by phase);
from then on all three know of them (`OpenLatchesKnown`). `SavesAtOnce` rests on
`HalfWritten`: while the record is being sealed it is that of the mission, but perhaps for its
checksum, because only `nav_task` writes it and nothing else changes the mission under
`fc_mutex`. So a publication does not change `Saved`; commands find a whole record; and a reset
resumes from `Saved` or finds a record that is not valid.

*Recorder.* `RecorderInv` has three parts. `RingInv`: every sector is filled from the front
and one that begins torn holds nothing; records are in order from the next sector to erase
on, or after a reset from some sector on, but for pairs with the note inside one sector
(`Misplaced`); the margin is erased, and the sector under the
write offset is full up to it. `NumbersInv`: batch, queue and the record that nav_task has
numbered make up one line (`Line`), in order among themselves and behind the flash; a record
that overtook the note, or that it overtook, is `Excused` as long as it comes to lie in the
first sector of an empty flash; and after a reset the flash leaves room for two more numbers
below the bound. That the scan is not misled by the pair follows because it compares first
records of different sectors and takes the largest number of the sector it chose.
`HeadsInv`: a header is stored, waits, or was lost before all that is there, or else a reset
lost it and boot uses its number again. The step that is hard is the scan (`ScanFinds`): it
looks at the first record of each sector only. The sector with the newest one is the last in
reading order, because two records of different sectors are ordered as the sectors are
(`BeforeBySector`); the sectors that look erased behind it hold none in the order, so reading
from the end of the margin found visits the records as before (`FoundOrder`); and that margin
is erased because sectors are filled from the front (`MarginFound`). That each `CHOOSE` of the
scan has something to choose is induction over numbers, which is proved here by the
pigeonhole theorem of the library (`LargestNumber`, `SmallestNumber`): a bounded set without
a largest member would map one to one into a smaller one.
`KeepsLog` follows step by step from the same invariant. The number that a boot begins with is
the one behind the newest stored (`HeaderFound`), so the sessions it forgets are those that
were waiting or lost. A sector that is erased holds the oldest records, as records are ordered
from the next sector to erase on (`LogErase`). What a program or a reset takes out of a batch is
its front, older than the rest and than all of the queue, and each number is in one place only
(`LineOK`, `FirstOfBatch`); hence also the headers that a block of the full erase clears
are those of the records that it takes (`LogBlock`).

*Attitude.* Both are properties of steps. A sample that resolves no convention captures in the
one in use; one that does captures after its log unless the lock is set by then, which is the
exception that `ReferenceInUse` names. A locked reference stands still because every capture
begins with a test of the lock.

*Sensors.* The old samples are counted where they are: those that reached the mission
plus those under way are at most four, since each has a place of its own and none is
made anew (`GhostsCounted`). An old position is paid for by lost sentences: every lost
GGA lets one stamp pass, which serves `FixTimeout + 1` epochs (`LossesPaid`,
`StampAsOld`, `OldSteering`). `GlitchInv` lists how many of the last samples are the real
altitude and near it. `GateInv` bounds the samples rejected in an open window by its
periods, with one case for a window that a jolt spoilt and one for a window that was
smooth, whose stream can have begun in the window before.

*Links.* Between the look for room and the frame, only `logging_task` changes the queue,
and it takes frames out. While no two downloads overlapped, the one task that downloads
found the stream on.

*Flight32's motors.* `ModeInv` goes through the points of every serial operation, a point
being what is left to store: at each, the four parts are as far as the operation has got.
`TestInv` says that a test throttle is on the motor of the test, or about to be zeroed,
and on no motor while the first has no driver, for then MotorTask stands still; and that
the fields of a test are the ones asked for before it may spin.

*Flight32's console.* The flash is followed put by put, since the power may go before each.
`FlashInv`: the version of the settings is put last, so where it is, everything is; only the
first put of a job clears the flash; and once the start has begun, what is missing is among
the puts left. `GainsInv`: unless the flash was changed behind PidTask's back, a put of a gain
that is left writes the one in use, and a gain that is not among the puts is saved. `LineInv`:
what is typed and what is still to come are two parts of one line, or a header is ahead that
changes to MSP before a line can end; on the way back the timeout clears the buffer. `StepInv`:
until a frame breaks off, the parser's field, length and index fit the bytes that are left,
field by field; so the last byte is the checksum it waits for.

*Flight32's settings.* `SettingsInv` follows the flash put by put as the console's proof does
(its own `FlashInv`, for every key), and adds two parts. `ToldInv`: a value that would stop the
start, in flash or in a put that is left, was asked for since the flash was last cleared; so
the puts of a job are either a reset, which writes nothing useless (`ResetWrites`), or those of
a line that asked for what it writes (`LineJob`, `NotUseless`). `PasteInv`: what a dump printed
of a plain key is stored as what was in flash (`ShownBack`, by the kind of the key: an option's
name is read back as its index, `OptionsApart`), and a key that was pasted holds that value, or
a put that is left writes it. The rest is about commands: a line is taken by the longest of
those it begins with (`Longest`), so that a line of a dump reaches the general handler with its
key unless that key is a command of its own (`SettingPuts`), and so do the questions of
`ViewsAgree` (`GetPlain`, `GetOwn`). The table is finite and each key's row is looked up once
(`KeyNames` to `KeyDefaults`); words, numbers and edits are arbitrary. `LiveInv` is
what the gains need: a gain that is there is a whole number of thousandths, and unless `behind`,
the gain PidTask flies with is the one in flash, rounded to the two decimals of a text, or the one
that a put that is left will store. Its step is one lemma per writer (`LiveLine`, `LiveMsp`,
`LiveStep`). That three places show the same hundredth is arithmetic on the rounding alone
(`HundredthsNear`), whatever the size of the gain.

`ArmsStayUnlatched`, `LiftInhibitKept`, `OutputsAgree`, `RecordTellsFlight`, `LosesOldestOnly`
and `SavesAtOnce` are proved for all constants and are in no run's list; TLC checked them on the
instances of the runs before they were proved. `KeepsLog` says more than `LosesOldestOnly`.

### Only model-checked

* Liveness, which is out of the prover's reach: `UnwantedMotorsStop`, `EverythingIsFlushed`,
  `StillBoardReferenced`, `PadLearnsSite`, `Reachable`, `FlushReturns`, `TimedTestEnds`.
* The violated properties, for which TLC gives the behaviour.

## 5. What is not modelled, and known limits

### The code's own limits, which no property contradicts

These follow from the source, and several of them are listed as hazards. The models
have the behaviour; a property that excluded it would be false.

*Mission, record, commands.*
* The record is written by a step alone. CAL, LIFT and SIM leave the record of the
  flight they end, and a reset before the next barometer sample resumes that flight
  (`main.cpp:1150`); ABORT is saved by the next step and `aborted_` never
  (`mission.hpp:274`); arms opened by CHUTE are known to a volatile variable only
  (`main.cpp:1439`). `FlightLostOnlyTorn` speaks of flights that are lost,
  `ServosFollowMission` of latches that the mission opened.
* A reset between `save()` and `seal()` loses the flight: that is the one exception in
  `FlightLostOnlyTorn`.
* `restore` takes the gates of steering as satisfied but for its requalification
  (`mission.hpp:292`).
* LIFT documents motors as inhibited, but MTR, PID and the console's motor test ask only
  whether a flight has started: in a lift test on the pad they run
  (`docs/FLIGHT_SOFTWARE.md:78`). `UnwantedMotorsStop` therefore excepts bench tests.
* A bench test that stops while the ESC is arming and starts again skips the rest of the
  arming time (`main.cpp:543`): a transition of `FlightStack` without a property.
* `radio_enabled` stays off after a mid-air reset until `CX,ON`.
* CAL holds `fc_mutex` for about 200 ms. `test --bit` initialises the live IMU and
  barometer again and is not refused in flight (`built_in_test.cpp`, `main.cpp:840`);
  the built-in test is not modelled.

*Recorder and event log.*
* The full erase looks at the flight flag once, at its start, and goes on after a launch;
  the queue is reset at its end (`flight_recorder.cpp:195`).
* Only the first record of a sector is examined at boot (`flight_recorder.cpp:70`): a
  sector left by an interrupted erase may look erased. What such a sector holds depends
  on the chip and is not modelled.
* A record takes its number before it enters the queue (`flight_recorder.cpp:128`, `:130`), so
  two producers may enter in the opposite order. It happens to one record only: LOG ERASED
  (`:207`) and the records of nav_task around it. `OldestFirst` and `KeepsLog` name it. LOG,DUMP
  takes the records of a session by their numbers, from that of its first record in the flash
  on: when a record with a larger number got there before the note, the note is left out.
* A failed erase may lose a session header with its batch; the records that follow then
  read as part of the session before. The same follows from a reset during the full erase,
  which takes sectors in their order in the flash: when the ring begins in the middle, a
  newer sector, with a header, goes before an older one.
* The event log's indices are stored every sixteenth event (`event_log.cpp:71`). The SD
  logger's line count has no lock (`sd_logger.cpp:130`); the card is not fitted.

*Attitude.*
* A snapshot of the IMU has no age (`main.cpp:313`): with a dead IMU its last attitude
  stays valid and the tumble failsafe never trips.
* The sensor is looked for once per reset and the result is ignored (`bno085.cpp:20`,
  `main.cpp:1391`). MPU6050 and BNO085 samples carry no attitude and some no time.
* The tare requested by a resume is dropped when `nav_task` locks the reference before the
  first good sample (`main.cpp:1420`, `imu_attitude.hpp:97`); the convention is not saved.
* A sample gap of up to 0.5 s counts as stillness.
* `update` stores the new convention, logs, and only then replaces the reference
  (`imu_attitude.cpp:261`, `:264`, `:284`). When the log waits for the console and `nav_task` sets
  the flight lock meanwhile, the reference stays in the old convention, and the attitude is wrong
  for the whole flight. The same wait inside `capture` (`:181`) lets a reference move after
  the lock was set. `ReferenceInUse` and `FrozenInFlight` name these as their exceptions.

*Barometer, GNSS, site.*
* CAL reports success without a reading, and in a simulation calibrates on the simulated
  pressure (`docs/TESTING_GUIDE.md:41`). `latest_baro.valid` stays true when the barometer
  dies. After `SIM,DISABLE` the pad reference may be set from a sample of the simulation
  (`main.cpp:278`-`284`): `GhostsAreFew` bounds such samples, their offset stays.
* A clip hold runs down with IMU samples only (`vertical_kf.hpp:85`, `main.cpp:293`), and
  without them the velocity stands still.
* The site averages all fixes since boot, an outage counts as averaging time, and CAL, LIFT
  and SIM neither reset nor unlock it (`guidance.hpp:54`, `README.md:26`).
* GSV's satellites in view pass as satellites used (`docs/TELEMETRY_FORMAT.md:29`). A GGA
  altitude of exactly zero is replaced by the barometer's. An RMC after an outage lets the old
  altitude be fused. The velocity of a fix is always zero.
* After a resume the receiver is listened to at 9600 baud only (`docs/WIRING.md:17`).

*Links.*
* `set_enabled(false)` stops advertising and drops the connection it sees. One that completes
  in between is seen by neither and stays for the flight (`ble_link.cpp:178`), against
  `ble_link.hpp:30` and `docs/TELEMETRY_FORMAT.md:45`. `BleLink` has this behaviour.
* Half a line over Bluetooth survives a disconnect (`s_rx_len`); the tail of an overlong line
  over the XBee is taken as a line (`xbee_link.cpp:114`); a reply may go to the next client.
* `LOG,DUMP` over the XBee runs inside `spin`: frames pause, and no uplink is read, ABORT
  included, until it ends.

*Flight32.*
* Passthrough takes motor 0 from its driver and gives the motor addressed last a new one:
  after work on another ESC, motor 0 has none until a restart (`motor_task.cpp:471`,
  against `README.md:65` there: "re-initialize its tasks and resume normal operation").
  MotorTask then does nothing (`:81`), neither flies nor ends a timed test; `TimedTestEnds`
  names this case and shows that it is the only one.
  Bit timing on the wire can be stretched, and the answer's checksum is not verified.
* The arm switch does not gate the motors (`pid_task.cpp:61`, `112`), there is no receiver
  failsafe, and `SystemState::ARMED` is never set. MotorTask may read PID commands while they
  are written, and a throttle of before the passthrough.
* A line typed before the first prompt can take the acknowledgement that setup waits for
  (`com_manager.cpp:113`), and then setup waits for good, or the other way round. The model does
  this (`Stranded`); `FlushReturns` says that nothing but such an overlap leaves a flush
  unanswered, and that of the two one returns. That both do, TLC finds violated.
* The size handed to MSP commands is always zero, so commands that set something answer an
  error. MSP's factory reset does not restart, and between the clearing of the flash
  and the last default PidTask reads channel 0 for every missing key. `MSP_REBOOT` only answers. Jumbo frames are always too long.
  STATUS_EX and FILTER_CONFIG are answered with the numbers of STATUS and GET_FILTER_CONFIG.
* Text keeps two decimals (a D gain of 0.005 is stored as 0.00). Nothing bounds a gain
  (`settings_manager.cpp:494`): MSP PID shows it modulo 655.36 (`msp_processor.cpp:362`), RC_TUNING
  modulo 2.56 (`:983`), and `ViewsAgree` compares them so. `get pid` shows the gains in use, which
  lag the flash after a plain `set`, a paste or a reset by MSP, until the next start. Words that are no option count as 0 (`set rx.protocol = PPM` selects IBUS), and a
  dump pasted back multiplies gains by 100 and adds one to channels (`terminal.cpp:160`).
  `rx.channel` stores the index counted from one (`terminal.cpp:1043`); `get rx.value.all`
  counts from zero. The documented forms `set filter.lpf_hz = 150` (`terminal.cpp:141`),
  `get filter.lpf_hz`, `get rx.value.roll`, `set rx.pin = 4` and `get rx.pin` fail.
  `RestoreKeeps` and `ViewsAgree` speak of what the other forms promise.
* `imu.type` NONE halts every start; stored calibration offsets are read and never used.
  `quit` is never undone, so no prompt follows (left out of `Flight32Console`).
* Bytes of Wi-Fi and serial port interleave in one parser, and its client is shared by two
  tasks; `i2c_scan` may suspend ImuTask inside a transfer; ACRO's box is `1 << 53`.

### Limits of the models

* Floating-point arithmetic: filters, guidance, steering, mixing, quaternions. The barometer
  reference in the record is left out.
* `Flight32Console`: text has no `$`; a checksum matches exactly the frames read from their first
  byte; a fragment of a header typed into the terminal waits as long as it likes; clearing
  flash is one step; backspace is left out.
* `GnssPath` counts whole epochs and does not model the landing; `VerticalFilter` allows any
  prediction; `SensorPaths` claims nothing about the interplay of its parts.
* An erase of a sector is atomic; a record's copy into the queue is one step.

### Not modelled

* EKF, IMM, matrices, `supervisor.hpp`, `flight_computer.hpp`: numeric, and "not used in the
  flight path" (`docs/FLIGHT_SOFTWARE.md`). Steering, mixer, PID: control laws without state
  that a model checker could tell apart.
* RF mapper, OTA service, core-dump exporter, power manager, SD logger, telemetry encoder,
  watchdog, LED and beacon, test monitor, configuration store: nothing of the flight depends
  on them, or they are wrappers of the vendor's drivers.
* Flight32's Wi-Fi, GPS, PPM and IBUS decoding, and its run-time statistics.
* Event log: nothing reads it back in flight.

## 6. Plan

Done: the mission with its promise, invariant and history; the tasks and resets around it; the
recorder with its reading; attitude, filter, barometer and GNSS; the links; Flight32's console,
settings and motor side; proofs of all of them.

Next modules:

1. `EventLog`: ring, total, and indices stored every 16 events, against an abstract persistent
   sequence; counts what a reset overwrites.
2. Zero-throttle time of the ESC in `FlightStack`, and boot with its built-in test, which
   reaches drivers in use.
3. `BaroPath` feeding `VerticalFilter` in one module, with the mission behind it.

Next proofs: the safety of what the modules above add. Of the properties of the present runs,
every safety property is proved.
