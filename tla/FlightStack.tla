---------------------------- MODULE FlightStack ----------------------------
(***************************************************************************)
(* The tasks of main/main.cpp that turn the mission into servo positions   *)
(* and motor frames: nav_task steps the mission and publishes g_nav,       *)
(* control_task reads it and drives servos and ESC, the command handlers   *)
(* reach into both, and a reset may strike at any point.                   *)
(*                                                                         *)
(* The mission itself is MissionPromise.  fc_mutex is held while nav is    *)
(* "sealing", so nothing that takes it happens then.  One iteration of     *)
(* control_task is one unit of time; it runs at 100 Hz and the barometer    *)
(* at 50 Hz, so nav_task never runs ahead of it by more than NavLead.       *)
(***************************************************************************)
EXTENDS Integers

CONSTANTS
  ArmZero,       \* iterations of zero throttle before the ESC may spin
  SpinUp,        \* iterations of the ramp
  DropAfter,     \* iterations after which a stopped ESC gets no more frames
  BenchTime,     \* iterations a bench test lasts
  NavLead,       \* samples nav_task may process within one of its iterations
  Commands,      \* the commands the operator may send
  BaroMayFail    \* the barometer may stop delivering samples

ASSUME StackAssumption ==
  /\ {ArmZero, SpinUp, DropAfter, BenchTime, NavLead} \subseteq Nat \ {0}
  /\ Commands \subseteq {"LIFT", "CAL", "SIM", "ABORT", "CHUTE", "BENCH"}
  /\ BaroMayFail \in BOOLEAN

VARIABLES
  phase, arms, cut, suspended, lift, simulated, record,   \* the mission
  nav,        \* nav_task: "idle", or "sealing" with the record half written
  lead,       \* samples processed since control_task last acted
  baro,       \* the barometer delivers samples
  published,  \* g_nav.msn
  bench,      \* g_bench.mode # 0
  benchLeft,  \* iterations until g_bench.until_us
  manual,     \* g_manual_unlatch
  ctl,        \* control_task: "idle", or "acting" on what it has read
  seen,       \* its copy of g_nav.msn
  benchSeen,  \* its copy of g_bench.mode # 0
  esc,        \* EscState
  escFor,     \* iterations since st_t0
  servo       \* pulse last commanded: "locked" or "unlatched"

mission  == <<phase, arms, cut, suspended, lift, simulated, record>>
control  == <<ctl, seen, benchSeen>>
actuator == <<esc, escFor, servo>>
request  == <<bench, benchLeft, manual>>
vars     == <<mission, nav, lead, baro, published, request, control, actuator>>

Mission == INSTANCE MissionPromise

NoOutputs == [flying |-> FALSE, arms |-> FALSE, steering |-> FALSE, motors |-> FALSE]
Outputs   == [flying |-> Mission!Flying, arms |-> arms,
              steering |-> Mission!Steering, motors |-> Mission!Motors]
Spinning  == esc \in {"SPINUP", "RUNNING"}
MutexFree == nav = "idle"

AtMost(n, cap) == IF n > cap THEN cap ELSE n
LongestHold == ArmZero + SpinUp + DropAfter

Init ==
  /\ Mission!Init
  /\ nav = "idle" /\ lead = 0 /\ baro = TRUE /\ published = NoOutputs
  /\ bench = FALSE /\ benchLeft = 0 /\ manual = FALSE
  /\ ctl = "idle" /\ seen = NoOutputs /\ benchSeen = FALSE
  /\ esc = "SILENT" /\ escFor = 0 /\ servo = "locked"

(***************************************************************************)
(* nav_task: a barometer sample steps the mission and saves its fields;    *)
(* until the record is sealed its checksum only fits if nothing changed.   *)
(***************************************************************************)
NavStep ==
  /\ nav = "idle" /\ baro /\ lead < NavLead
  /\ Mission!Progress
  /\ nav' = "sealing" /\ lead' = lead + 1
  /\ \/ record' = [Mission!Current' EXCEPT !.valid = FALSE]
     \/ record' = Mission!Current' /\ record' = record
  /\ UNCHANGED <<baro, published, request, control, actuator>>

NavPublish ==
  /\ nav = "sealing"
  /\ nav' = "idle"
  /\ record' = Mission!Current
  /\ published' = Outputs
  /\ UNCHANGED <<phase, arms, cut, suspended, lift, simulated, lead, baro,
                 request, control, actuator>>

BaroFails ==
  /\ BaroMayFail /\ baro
  /\ baro' = FALSE
  /\ UNCHANGED <<mission, nav, lead, published, request, control, actuator>>

(***************************************************************************)
(* control_task: one critical section to read, then servos and motors      *)
(***************************************************************************)
BenchTimeout == benchLeft = 0   \* mutant: a launch does not end the bench test
BenchOver == benchLeft = 0 \/ published.flying

ControlRead ==
  /\ ctl = "idle" /\ MutexFree
  /\ seen' = published
  /\ bench' = (bench /\ ~BenchOver)
  /\ benchSeen' = bench'
  /\ ctl' = "acting"
  /\ UNCHANGED <<mission, nav, lead, baro, published, benchLeft, manual, actuator>>

Want == seen.motors \/ benchSeen

Held(n)  == escFor + 1 > n
Hold     == esc' = esc /\ escFor' = AtMost(escFor + 1, LongestHold)
Move(to) == esc' = to /\ escFor' = 0

EscIdles ==
  /\ ~Want
  /\ esc = "SILENT"
  /\ UNCHANGED <<esc, escFor>>
EscStarts ==
  /\ Want
  /\ \/ esc = "SILENT" /\ Move("ARMING")
     \/ esc = "STOPPED" /\ Move("SPINUP")
     \/ esc = "ARMING" /\ Held(ArmZero) /\ Move("SPINUP")
     \/ esc = "SPINUP" /\ Held(SpinUp) /\ Move("RUNNING")
     \/ esc = "ARMING" /\ ~Held(ArmZero) /\ Hold
     \/ esc = "SPINUP" /\ ~Held(SpinUp) /\ Hold
     \/ esc = "RUNNING" /\ UNCHANGED <<esc, escFor>>
EscStopsOnlyRunning ==   \* mutant: a ramp or an arming is not interrupted
  /\ ~Want
  /\ \/ esc = "RUNNING" /\ Move("STOPPED")
     \/ esc \in {"ARMING", "SPINUP"} /\ Hold
     \/ esc = "STOPPED" /\ ~seen.steering /\ Held(DropAfter) /\ Move("SILENT")
     \/ esc = "STOPPED" /\ ~(~seen.steering /\ Held(DropAfter)) /\ Hold
EscStops ==
  /\ ~Want
  /\ \/ esc \in {"ARMING", "SPINUP", "RUNNING"} /\ Move("STOPPED")
     \/ esc = "STOPPED" /\ ~seen.steering /\ Held(DropAfter) /\ Move("SILENT")
     \/ esc = "STOPPED" /\ ~(~seen.steering /\ Held(DropAfter)) /\ Hold

ControlAct ==
  /\ ctl = "acting"
  /\ servo' = IF seen.arms \/ manual THEN "unlatched" ELSE "locked"
  /\ EscIdles \/ EscStarts \/ EscStops
  /\ benchLeft' = IF benchLeft = 0 THEN 0 ELSE benchLeft - 1
  /\ ctl' = "idle" /\ lead' = 0
  /\ UNCHANGED <<mission, nav, baro, published, bench, manual, seen, benchSeen>>

(***************************************************************************)
(* Commands: all but CHUTE run under fc_mutex; g_nav keeps its contents    *)
(***************************************************************************)
Command(name) ==
  /\ name \in Commands
  /\ UNCHANGED <<nav, lead, baro, published, control, actuator>>

Lift(on) ==
  /\ Command("LIFT") /\ MutexFree
  /\ Mission!SelectLift(on)
  /\ manual' = FALSE
  /\ UNCHANGED <<bench, benchLeft>>

Cal ==
  /\ Command("CAL") /\ MutexFree
  /\ Mission!Calibrate
  /\ manual' = FALSE
  /\ UNCHANGED <<bench, benchLeft>>

Sim(on) ==
  /\ Command("SIM") /\ MutexFree
  /\ Mission!SelectSim(on)
  /\ UNCHANGED request

Abort ==
  /\ Command("ABORT") /\ MutexFree
  /\ Mission!Abort
  /\ bench' = FALSE
  /\ UNCHANGED <<benchLeft, manual>>

Chute ==
  /\ Command("CHUTE")
  /\ manual' = TRUE
  /\ UNCHANGED <<mission, bench, benchLeft>>

\* MTR, PID and the console's motor test
BenchStart ==
  /\ Command("BENCH") /\ MutexFree
  /\ ~Mission!Flying
  /\ bench' = TRUE /\ benchLeft' = BenchTime
  /\ UNCHANGED <<mission, manual>>

BenchStop ==
  /\ Command("BENCH") /\ MutexFree
  /\ bench /\ bench' = FALSE
  /\ UNCHANGED <<mission, benchLeft, manual>>

(***************************************************************************)
(* A brownout, watchdog or panic reset: only the record survives.  The     *)
(* servos start where the record says, and stay there by g_manual_unlatch  *)
(* until the first sample publishes the mission again.                     *)
(***************************************************************************)
ManualForgotten == FALSE         \* mutant: only the first pulse is set at boot
ManualAfterReset == record'.arms

Reset ==
  /\ Mission!ResetInFlight \/ Mission!ResetOnPad
  /\ nav' = "idle" /\ lead' = 0 /\ published' = NoOutputs
  /\ bench' = FALSE /\ benchLeft' = 0 /\ manual' = ManualAfterReset
  /\ ctl' = "idle" /\ seen' = NoOutputs /\ benchSeen' = FALSE
  /\ esc' = "SILENT" /\ escFor' = 0
  /\ servo' = IF record'.arms THEN "unlatched" ELSE "locked"
  /\ UNCHANGED baro

Next ==
  \/ NavStep
  \/ NavPublish
  \/ BaroFails
  \/ ControlRead
  \/ ControlAct
  \/ \E on \in BOOLEAN : Lift(on)
  \/ Cal
  \/ \E on \in BOOLEAN : Sim(on)
  \/ Abort
  \/ Chute
  \/ BenchStart
  \/ BenchStop
  \/ Reset

\* nav_task and control_task are periodic tasks under the task watchdog; the
\* barometer is asked for a sample at every period of sensor_task.
Fairness == WF_vars(NavStep) /\ WF_vars(NavPublish)
            /\ WF_vars(ControlRead) /\ WF_vars(ControlAct)

Spec == Init /\ [][Next]_vars /\ Fairness

(***************************************************************************)
(* Properties                                                              *)
(***************************************************************************)

InRealFlight == Mission!Flying /\ ~lift /\ ~simulated /\ phase # Mission!LANDED

\* "servos stay unlatched", "never re-latch arms mid-air": once the mission has
\* opened the latches in a real flight, no iteration of control_task and no
\* reset that resumes the flight closes them, although g_nav is empty until the
\* first sample after it.
ServosFollowMission ==
  [][InRealFlight /\ arms /\ servo = "unlatched" /\ Mission!Flying'
       => servo' = "unlatched"]_vars

\* A flight that control_task has read spins the motors only because the
\* mission enables them: a bench test started on the pad ends with the launch.
NoBenchInFlight ==
  [][ctl = "acting" /\ seen.flying /\ Spinning' /\ actuator' # actuator => seen.motors]_vars

\* Whatever takes the permission away (the cut-off altitude, ABORT, a tumble,
\* the landing, a command that returns to the pad, a reset), motors that the
\* mission does not enable stop, unless a bench test runs them or the barometer
\* falls silent before.
UnwantedMotorsStop ==
  ~Mission!Motors ~> (~Spinning \/ Mission!Motors \/ bench \/ benchSeen \/ ~baro)

\* "ABORT: motors off for the rest of the flight".
AbortStopsMotors == phase = Mission!STEERING /\ cut ~> (~Spinning \/ phase # Mission!STEERING)

\* "after a brownout / watchdog / panic reset in the air the firmware resumes":
\* the only way to lose a real flight is a reset between save() and seal(),
\* while the record does not fit its checksum.
FlightLostOnlyTorn ==
  [][InRealFlight /\ ~Mission!Flying' => nav = "sealing" /\ ~record.valid]_vars

\* Between save() and seal() fc_mutex hides the record, so that to everyone else
\* a sample is one step of the mission that ends with its record: the tasks
\* implement the mission that saves at once, but for a reset in between that
\* finds a record which does not fit its checksum.
Saved     == IF nav = "sealing" THEN Mission!Current ELSE record
Atomic    == INSTANCE MissionPromise WITH record <- Saved
TornReset == nav = "sealing" /\ ~record.valid /\ Mission!ResetOnPad
SavesAtOnce == Atomic!Init /\ [][Atomic!Next \/ TornReset]_(Atomic!vars)
=============================================================================
