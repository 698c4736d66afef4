-------------------------- MODULE EscPassthrough --------------------------
(***************************************************************************)
(* The motor side of the Flight32 firmware (src/flight32-dev): MotorTask   *)
(* with its bench test, PidTask that feeds it from the receiver, the       *)
(* serial task with its terminal, MSP and ESC passthrough modes, and the   *)
(* FlightController operations that switch all of them over.               *)
(*                                                                         *)
(* MotorTask and the serial task share core 0 and MotorTask has the higher *)
(* priority: its iteration is one step and may come between any two stores *)
(* of a serial operation, which is kept as the sequence of stores it still *)
(* has to make.  PidTask and RxTask run on core 1.  Serial input is        *)
(* abstracted to complete terminal lines, MSP headers and 4-way frames     *)
(* (with a bad CRC a frame has no effect); an MSP command itself touches   *)
(* none of this state.  Durations are counted in MotorTask iterations.     *)
(***************************************************************************)
EXTENDS Integers, Sequences

CONSTANTS
  Motors,       \* motor indices, 0 among them (FIRST_MOTOR_INDEX)
  Throttles,    \* test throttles
  Duration      \* longest timed test

ASSUME MotorAssumption ==
  /\ Motors \subseteq Nat /\ 0 \in Motors
  /\ Duration \in Nat \ {0}
  /\ Throttles \cap {"off", "pid", "raw"} = {}

VARIABLES
  stick,      \* throttle stick of the transmitter is up
  channel,    \* the receiver's copy of it
  arm,        \* the arm switch, as PidTask last saw it
  command,    \* _throttle_command is above the dead zone
  running,    \* which of "pid" and "rx" are not suspended
  driver,     \* _dshot_drivers[i] exists
  frame,      \* what motor i was last sent: "off", "pid", "raw" or a test throttle
  bypass,     \* MotorTask::_inPassthroughMode
  wired,      \* _passthrough_motor_idx
  quiet,      \* _is_passthrough_active: com_send_log drops what it is given
  test,       \* _motorTestState
  testing,    \* [motor, throttle] of the test
  testLeft,   \* iterations until _testDuration is over
  system,     \* _system_state
  mode,       \* SerialManagerTask::_current_mode
  op,         \* stores the current serial operation still has to make
  args,       \* arguments of the current motor test command
  draining    \* run() is still in the loop that reads passthrough bytes

receiver == <<stick, channel, arm, command>>
bench    == <<test, testing, testLeft>>
serial   == <<mode, op, args, draining>>
line     == <<wired, quiet>>
vars     == <<receiver, running, driver, frame, bypass, line, bench, system, serial>>

Tests   == [motor : Motors, throttle : Throttles]
NoTest  == [motor |-> 0, throttle |-> "off"]
Tasks   == {"pid", "rx"}
Idle    == op = <<>>

Init ==
  /\ stick = FALSE /\ channel = FALSE /\ arm = FALSE /\ command = FALSE
  /\ running = Tasks
  /\ driver = [i \in Motors |-> TRUE] /\ frame = [i \in Motors |-> "off"]
  /\ bypass = FALSE /\ wired = 0 /\ quiet = FALSE
  /\ test = "IDLE" /\ testing = NoTest /\ testLeft = 0
  /\ system = "READY" /\ mode = "TERMINAL" /\ op = <<>>
  /\ args = [motor |-> 0, throttle |-> "off", left |-> 0] /\ draining = FALSE

(***************************************************************************)
(* Core 1: the transmitter, RxTask and PidTask.  The arm switch is read    *)
(* but does not gate the throttle.                                         *)
(***************************************************************************)
Transmitter ==
  /\ stick' = ~stick
  /\ UNCHANGED <<channel, arm, command, running, driver, frame, bypass, line, bench, system, serial>>

RxRun ==
  /\ "rx" \in running /\ channel' = stick
  /\ UNCHANGED <<stick, arm, command, running, driver, frame, bypass, line, bench, system, serial>>

PidRun ==
  /\ "pid" \in running /\ command' = channel /\ arm' \in BOOLEAN
  /\ UNCHANGED <<stick, channel, running, driver, frame, bypass, line, bench, system, serial>>

(***************************************************************************)
(* One iteration of MotorTask.                                             *)
(***************************************************************************)
Sent(f) == [i \in Motors |-> IF driver[i] THEN f[i] ELSE frame[i]]

TestFrames == [i \in Motors |-> IF i = testing.motor THEN testing.throttle ELSE "off"]
PidFrames  == [i \in Motors |-> IF command THEN "pid" ELSE "off"]
Off        == [i \in Motors |-> "off"]

Drives  == driver[0] /\ ~bypass
NeverExpires == FALSE   \* mutant of Expired
Expired == test = "TIMED" /\ testLeft = 0

LeftAfter == IF testLeft > 0 THEN testLeft - 1 ELSE 0

ClearTest == test' = "IDLE" /\ testing' = NoTest /\ testLeft' = 0

MotorTestEnds ==
  /\ Drives /\ Expired
  /\ ClearTest /\ frame' = Sent(Off)
  /\ UNCHANGED <<receiver, running, driver, bypass, line, system, serial>>

MotorTestRuns ==
  /\ Drives /\ test # "IDLE" /\ ~Expired
  /\ frame' = Sent(TestFrames)
  /\ testLeft' = LeftAfter
  /\ UNCHANGED <<receiver, running, driver, bypass, line, test, testing, system, serial>>

MotorFlies ==
  /\ Drives /\ test = "IDLE" /\ frame' = Sent(PidFrames)
  /\ UNCHANGED <<receiver, running, driver, bypass, line, bench, system, serial>>

MotorRun == MotorTestEnds \/ MotorTestRuns \/ MotorFlies

(***************************************************************************)
(* The serial task: what a line or a frame starts.                         *)
(***************************************************************************)
StopStores    == <<"idle">>
StartOver     == <<"fields", "spin">>   \* mutant of StartStores
StartStores   == <<"idle", "fields", "spin">>
EnterStores   == <<"passthrough", "suspendPid", "suspendRx", "bypass", "idle",
                   "wire", "modePassthrough">>
ReplyStores   == <<"reply">>
ExitHalf      == <<"ready", "resumePid", "drive", "unwire", "modeTerminal", "reply">>   \* mutant of ExitStores
ExitStores    == <<"ready", "resumePid", "resumeRx", "drive", "unwire",
                   "modeTerminal", "reply">>
DeviceStores  == <<"quiet", "reset", "connect", "transact", "loud", "reply">>
NoDevice      == <<"quiet", "loud", "reply">>
GivenUp       == <<"loud", "reply">>

Line == Idle /\ mode = "TERMINAL" /\ ~draining

Begin(stores) ==
  /\ op' = stores
  /\ UNCHANGED <<receiver, running, driver, frame, bypass, line, bench, system, mode, draining>>

\* "motor test": refused while the arm switch is seen on; no duration means endless
MotorTest ==
  /\ Line /\ ~arm
  /\ \E t \in Tests, d \in 0 .. Duration :
       args' = [motor |-> t.motor, throttle |-> t.throttle, left |-> d]
  /\ Begin(StartStores)

MotorStop == Line /\ Begin(StopStores) /\ UNCHANGED args

\* "esc_passthrough": refused when ARMED or IN_FLIGHT, which no code ever sets
EnterEscPassthrough ==
  /\ Line /\ system \notin {"ARMED", "IN_FLIGHT"}
  /\ Begin(EnterStores) /\ UNCHANGED args

\* "set motor.throttle": one frame, which the next iteration replaces
MotorThrottle ==
  /\ Line
  /\ \E i \in Motors : driver[i] /\ frame' = [frame EXCEPT ![i] = "raw"]
  /\ UNCHANGED <<receiver, running, driver, bypass, line, bench, system, serial>>

Reads4Way == Idle /\ (mode = "PASSTHROUGH" \/ draining)

\* cmd_InterfaceExit; the bytes behind it are still read by the same loop
FourWayExit ==
  /\ Reads4Way /\ op' = ExitStores /\ draining' = TRUE
  /\ UNCHANGED <<receiver, running, driver, frame, bypass, line, bench, system, mode, args>>

\* cmd_InterfaceTestAlive and the other questions, and any unknown command
FourWayQuery ==
  /\ Reads4Way /\ op' = ReplyStores
  /\ UNCHANGED <<receiver, running, driver, frame, bypass, line, bench, system, mode, args, draining>>

\* cmd_DeviceRead, cmd_DeviceWrite and cmd_DeviceEraseAll, for a motor there is
\* or for another
FourWayDevice ==
  /\ Reads4Way
  /\ \/ wired' \in Motors /\ op' = DeviceStores
     \/ wired' = wired /\ op' = NoDevice
  /\ UNCHANGED <<receiver, running, driver, frame, bypass, quiet, bench, system, mode, args, draining>>

Drained ==
  /\ Idle /\ draining /\ draining' = FALSE
  /\ UNCHANGED <<receiver, running, driver, frame, bypass, line, bench, system, mode, op, args>>

\* The header of an MSP request, and the silence that ends MSP mode
MspHeader ==
  /\ Line /\ mode' = "MSP"
  /\ UNCHANGED <<receiver, running, driver, frame, bypass, line, bench, system, op, args, draining>>

MspTimeout ==
  /\ mode = "MSP" /\ mode' = "TERMINAL"
  /\ UNCHANGED <<receiver, running, driver, frame, bypass, line, bench, system, op, args, draining>>

(***************************************************************************)
(* The stores, in the order the operation makes them.                      *)
(***************************************************************************)
Next1(store) == op # <<>> /\ Head(op) = store /\ op' = Tail(op)
Rest == <<receiver, args, draining>>

StoreIdle ==   \* stopMotorTest; the zero frames follow, if a test was on
  /\ op # <<>> /\ Head(op) = "idle"
  /\ op' = IF test = "IDLE" THEN Tail(op) ELSE [op EXCEPT ![1] = "zero"]
  /\ ClearTest
  /\ UNCHANGED <<Rest, running, driver, frame, bypass, line, system, mode>>

StoreZero ==
  /\ Next1("zero") /\ frame' = Sent(Off)
  /\ UNCHANGED <<Rest, running, driver, bypass, line, bench, system, mode>>

StoreFields ==
  /\ Next1("fields")
  /\ testing' = [motor |-> args.motor, throttle |-> args.throttle] /\ testLeft' = args.left
  /\ UNCHANGED <<Rest, running, driver, frame, bypass, line, test, system, mode>>

StoreSpin ==
  /\ Next1("spin") /\ test' = IF args.left > 0 THEN "TIMED" ELSE "CONTINUOUS"
  /\ UNCHANGED <<Rest, running, driver, frame, bypass, line, testing, testLeft, system, mode>>

StoreSystem ==
  /\ \/ Next1("passthrough") /\ system' = "ESC_PASSTHROUGH"
     \/ Next1("ready") /\ system' = "READY"
  /\ UNCHANGED <<Rest, running, driver, frame, bypass, line, bench, mode>>

StoreTasks ==
  /\ \/ Next1("suspendPid") /\ running' = running \ {"pid"}
     \/ Next1("suspendRx")  /\ running' = running \ {"rx"}
     \/ Next1("resumePid")  /\ running' = running \cup {"pid"}
     \/ Next1("resumeRx")   /\ running' = running \cup {"rx"}
  /\ UNCHANGED <<Rest, driver, frame, bypass, line, bench, system, mode>>

StoreBypass ==
  /\ \/ Next1("bypass") /\ bypass' = TRUE
     \/ Next1("drive")  /\ bypass' = FALSE
  /\ UNCHANGED <<Rest, running, driver, frame, line, bench, system, mode>>

\* _1wire_init takes motor 0 from its driver, _1wire_deinit gives the selected
\* motor a new one
StoreWire ==
  /\ \/ Next1("wire") /\ wired' = 0 /\ driver' = [driver EXCEPT ![0] = FALSE]
     \/ Next1("unwire") /\ wired' = wired /\ driver' = [driver EXCEPT ![wired] = TRUE]
  /\ UNCHANGED <<Rest, running, frame, bypass, quiet, bench, system, mode>>

\* The log is silenced while a device command is at work
StoreQuiet ==
  /\ \/ Next1("quiet") /\ quiet' = TRUE
     \/ Next1("loud")  /\ quiet' = FALSE
  /\ UNCHANGED <<Rest, running, driver, frame, bypass, wired, bench, system, mode>>

\* Bit by bit on the wire: an ESC that does not answer the reset or the
\* connect ends the command, and the answer to the transaction is not checked
WireStep ==
  /\ \/ Next1("reset") \/ Next1("connect") \/ Next1("transact")
     \/ op # <<>> /\ Head(op) \in {"reset", "connect"} /\ op' = GivenUp
  /\ UNCHANGED <<Rest, running, driver, frame, bypass, line, bench, system, mode>>

\* _send_passthrough_response
StoreReply ==
  /\ Next1("reply")
  /\ UNCHANGED <<Rest, running, driver, frame, bypass, line, bench, system, mode>>

StoreMode ==
  /\ \/ Next1("modePassthrough") /\ mode' = "PASSTHROUGH"
     \/ Next1("modeTerminal") /\ mode' = "TERMINAL"
  /\ UNCHANGED <<Rest, running, driver, frame, bypass, line, bench, system>>

SerialStore ==
  \/ StoreIdle \/ StoreZero \/ StoreFields \/ StoreSpin \/ StoreSystem
  \/ StoreTasks \/ StoreBypass \/ StoreWire \/ StoreMode
  \/ StoreQuiet \/ WireStep \/ StoreReply

Next ==
  \/ Transmitter \/ RxRun \/ PidRun \/ MotorRun
  \/ MotorTest \/ MotorStop \/ EnterEscPassthrough \/ MotorThrottle
  \/ FourWayExit \/ FourWayQuery \/ FourWayDevice \/ Drained \/ MspHeader \/ MspTimeout
  \/ SerialStore

\* FreeRTOS runs every task that is ready; nobody has to type or to fly
Fairness == WF_vars(MotorRun) /\ WF_vars(SerialStore) /\ WF_vars(Drained)

Spec == Init /\ [][Next]_vars /\ Fairness
-----------------------------------------------------------------------------
\* Between two serial operations the four parts that a switch-over touches one
\* after the other agree on whether the ESCs are bypassed, and the log speaks
\* again whatever the ESC has answered.
ModesAgree ==
  Idle => /\ (system = "ESC_PASSTHROUGH") <=> (mode = "PASSTHROUGH")
          /\ bypass <=> (mode = "PASSTHROUGH")
          /\ running = IF mode = "PASSTHROUGH" THEN {} ELSE Tasks
          /\ mode = "PASSTHROUGH" => test = "IDLE"
          /\ ~quiet

\* A test throttle is only ever seen by the motor of the test that is on, with
\* the throttle that was asked for, however the iterations of MotorTask fall
\* between the stores of starting, replacing and stopping a test.
TestDrivesItsMotor ==
  Idle => \A i \in Motors : frame[i] \in Throttles =>
            test # "IDLE" /\ i = args.motor /\ frame[i] = args.throttle

\* A timed test ends, by itself or because another operation stops it, as long
\* as motor 0 has its driver: MotorTask does nothing without it
\* (motor_task.cpp:81).  A passthrough takes it, and is left without giving it
\* back only when another motor was the one addressed last, which is given a
\* driver in its place (motor_task.cpp:471).
TimedTestEnds ==
  /\ test = "TIMED" ~> test # "TIMED" \/ ~driver[0]
  /\ [][mode = "PASSTHROUGH" /\ mode' # "PASSTHROUGH" /\ ~driver'[0] => wired # 0]_vars
=============================================================================
