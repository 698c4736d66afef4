------------------------- MODULE FlightStackProofs -------------------------
(***************************************************************************)
(* Proofs about nav_task, control_task and the commands of main/main.cpp,  *)
(* for every length of a ramp or a bench test and every set of commands.   *)
(***************************************************************************)
EXTENDS FlightStack, TLAPS

USE DEF Mission!PAD, Mission!ASCENT, Mission!DESCENT, Mission!ARMS_DEPLOY,
        Mission!STEERING, Mission!LANDED, Atomic!PAD, Atomic!ASCENT, Atomic!DESCENT,
        Atomic!ARMS_DEPLOY, Atomic!STEERING, Atomic!LANDED

(***************************************************************************)
(* The inductive invariant                                                 *)
(***************************************************************************)

OutputType == [flying : BOOLEAN, arms : BOOLEAN, steering : BOOLEAN, motors : BOOLEAN]

RecordType == [valid : BOOLEAN, phase : Mission!Phases, arms : BOOLEAN,
               cut : BOOLEAN, lift : BOOLEAN]

Flags ==
  /\ arms \in BOOLEAN /\ cut \in BOOLEAN /\ suspended \in BOOLEAN
  /\ lift \in BOOLEAN /\ simulated \in BOOLEAN

MissionOK == phase \in Mission!Phases /\ Flags /\ record \in RecordType

TasksOK ==
  /\ nav \in {"idle", "sealing"} /\ lead \in 0 .. NavLead
  /\ published \in OutputType /\ seen \in OutputType
  /\ ctl \in {"idle", "acting"} /\ baro \in BOOLEAN

RequestsOK ==
  /\ bench \in BOOLEAN /\ manual \in BOOLEAN /\ benchSeen \in BOOLEAN
  /\ benchLeft \in 0 .. BenchTime

ActuatorOK ==
  /\ esc \in {"SILENT", "ARMING", "SPINUP", "RUNNING", "STOPPED"}
  /\ escFor \in 0 .. LongestHold
  /\ servo \in {"locked", "unlatched"}

TypeOK == MissionOK /\ TasksOK /\ RequestsOK /\ ActuatorOK

\* In the air the record tells the flight, and outside save() and seal() it
\* fits its checksum.  A reset takes a flight that was steering to ARMS_DEPLOY.
RecordTellsFlight ==
  Mission!Flying =>
    /\ record.arms = arms /\ record.lift = lift
    /\ \/ record.phase = phase
       \/ record.phase = Mission!STEERING /\ phase = Mission!ARMS_DEPLOY
    /\ nav = "idle" => record.valid

\* A control iteration that knows of a flight runs no bench test.
BenchEndsWithLaunch == ctl = "acting" /\ seen.flying => ~benchSeen

\* What g_nav, the control iteration under way and the servos still hold of
\* latches opened before the mission went back to the pad: the next sample
\* corrects g_nav, the next iteration the servos, and by then the new flight has
\* not come to the point where it opens them itself.
OldLatchesForgotten ==
  /\ published.arms /\ ~arms =>
       \/ phase = Mission!PAD
       \/ phase = Mission!ASCENT /\ nav = "sealing"
  /\ ctl = "acting" /\ seen.arms /\ ~arms =>
       \/ phase = Mission!PAD
       \/ phase = Mission!ASCENT /\ lead = NavLead
  /\ servo = "unlatched" /\ ~manual /\ ~arms =>
       \/ phase \in {Mission!PAD, Mission!ASCENT}
       \/ phase = Mission!DESCENT /\ lead = NavLead

\* Servos that follow the latches of this flight do so because control_task is
\* told of them, now and in its next iteration.
OpenLatchesKnown ==
  /\ arms /\ ctl = "acting" /\ seen.arms => published.arms
  /\ arms /\ servo = "unlatched" /\ ~manual =>
       published.arms /\ (ctl = "acting" => seen.arms)

LatchInv == OldLatchesForgotten /\ OpenLatchesKnown

(***************************************************************************)
(* What the actions of nav_task and of the operator do to the mission      *)
(***************************************************************************)

\* A sample never takes a flight back to the pad, opens the latches only while
\* the phase goes on from DESCENT, and closes none.
LEMMA ProgressOrder ==
  ASSUME TypeOK, Mission!Progress
  PROVE  /\ phase' \in Mission!Phases /\ Flags'
         /\ lift' = lift /\ simulated' = simulated
         /\ phase' = phase \/ phase' > phase
         /\ phase = Mission!PAD => phase' \in {Mission!PAD, Mission!ASCENT}
         /\ phase = Mission!ASCENT => phase' \in {Mission!ASCENT, Mission!DESCENT}
         /\ phase # Mission!DESCENT => arms' = arms
         /\ arms => arms'
<1>1. phase \in Mission!Phases /\ Flags /\ UNCHANGED <<lift, simulated>>
  BY DEF TypeOK, MissionOK, Mission!Progress
<1>2. /\ phase' \in Mission!Phases
      /\ phase' = phase \/ phase' > phase
      /\ phase = Mission!PAD => phase' \in {Mission!PAD, Mission!ASCENT}
      /\ phase = Mission!ASCENT => phase' \in {Mission!ASCENT, Mission!DESCENT}
  <2>1. \/ phase' = phase
        \/ phase = Mission!PAD /\ phase' = Mission!ASCENT
        \/ phase = Mission!ASCENT /\ phase' = Mission!DESCENT
        \/ phase = Mission!DESCENT /\ phase' \in {Mission!ARMS_DEPLOY, Mission!LANDED}
        \/ phase = Mission!ARMS_DEPLOY /\ phase' \in {Mission!STEERING, Mission!LANDED}
        \/ phase = Mission!STEERING /\ phase' \in {Mission!STEERING, Mission!LANDED}
    BY DEF Mission!Progress, Mission!Remain, Mission!Launch,
       Mission!Release, Mission!Unlatch, Mission!Steer, Mission!Fly, Mission!Land
  <2> QED
    BY <1>1, <2>1 DEF Mission!Phases
<1>3. /\ arms' \in BOOLEAN /\ cut' \in BOOLEAN /\ suspended' \in BOOLEAN
      /\ phase # Mission!DESCENT => arms' = arms
      /\ arms => arms'
  BY <1>1, Zenon DEF Flags, Mission!Progress, Mission!Remain, Mission!Launch,
     Mission!Release, Mission!Unlatch, Mission!Steer, Mission!Fly, Mission!Land
<1> QED
  BY <1>1, <1>2, <1>3 DEF Flags

\* Every command that changes the mission returns it to the pad, and is refused
\* in a real flight; ABORT alone leaves it where it is and cuts the motors.
LEMMA CommandOrder ==
  ASSUME TypeOK,
         \/ \E on \in BOOLEAN : Mission!SelectLift(on) \/ Mission!SelectSim(on)
         \/ Mission!Calibrate
  PROVE  /\ phase' = Mission!PAD /\ Flags' /\ ~arms' /\ record' = record
         /\ ~(Mission!Flying /\ ~lift /\ ~simulated)
<1>1. Mission!BackToPad /\ lift' \in BOOLEAN /\ simulated' \in BOOLEAN
  BY Zenon DEF TypeOK, MissionOK, Flags, Mission!SelectLift, Mission!SelectSim, Mission!Calibrate
<1>2. phase' = Mission!PAD /\ Flags' /\ ~arms' /\ record' = record
  BY <1>1, Zenon DEF Mission!BackToPad, Flags
<1> QED
  BY <1>2 DEF Mission!SelectLift, Mission!SelectSim, Mission!Calibrate

\* A reset resumes the flight of a record that fits, and forgets any other.
LEMMA ResetOrder ==
  ASSUME TypeOK, Mission!ResetInFlight \/ Mission!ResetOnPad
  PROVE  /\ phase' \in Mission!Phases /\ Flags'
         /\ record' \in RecordType /\ arms' = record'.arms
         /\ Mission!Flying' => Mission!ResetInFlight
<1>1. CASE Mission!ResetInFlight
  <2>1. /\ record' = record /\ record \in RecordType
        /\ suspended' \in BOOLEAN /\ simulated' \in BOOLEAN
        /\ arms' = record.arms /\ cut' = record.cut /\ lift' = record.lift
    BY <1>1, Zenon DEF TypeOK, MissionOK, Mission!ResetInFlight
  <2>2. record.arms \in BOOLEAN /\ record.cut \in BOOLEAN /\ record.lift \in BOOLEAN
    BY <2>1 DEF RecordType
  <2>3. Flags'
    BY <2>1, <2>2, Zenon DEF Flags
  <2>4. phase' \in Mission!Phases
    <3>1. record.phase \in Mission!Phases
      BY <2>1 DEF RecordType
    <3>2. phase' = record.phase \/ phase' = Mission!ARMS_DEPLOY
      BY <1>1 DEF Mission!ResetInFlight
    <3> QED
      BY <3>1, <3>2 DEF Mission!Phases
  <2> QED
    BY <1>1, <2>1, <2>3, <2>4
<1>2. CASE Mission!ResetOnPad
  <2>1. Flags' /\ phase' = Mission!PAD /\ ~arms' /\ record' = Mission!NoRecord
    BY <1>2, Zenon DEF Flags, Mission!ResetOnPad
  <2>2. record' \in RecordType
    BY <2>1 DEF RecordType, Mission!Phases, Mission!NoRecord
  <2>4. arms' = record'.arms
    <3>1. ~record'.arms /\ record'.arms \in BOOLEAN
      BY <2>1, <2>2 DEF RecordType, Mission!NoRecord
    <3> QED
      BY <2>1, <3>1, Zenon DEF Flags
  <2>3. phase' \in Mission!Phases /\ ~Mission!Flying'
    BY <2>1 DEF Mission!Phases, Mission!Flying
  <2> QED
    BY <2>1, <2>2, <2>3, <2>4
<1> QED
  BY <1>1, <1>2

(***************************************************************************)
(* Types                                                                   *)
(***************************************************************************)

\* The records that a step and a power-on write, and what nav_task publishes,
\* have the type of a record and of a published state.
LEMMA WrittenTypes ==
  ASSUME MissionOK
  PROVE  /\ Mission!Current \in RecordType
         /\ [Mission!Current EXCEPT !.valid = FALSE] \in RecordType
         /\ Mission!NoRecord \in RecordType
         /\ Outputs \in OutputType /\ NoOutputs \in OutputType
<1>1. Mission!Current \in RecordType /\ Mission!NoRecord \in RecordType
  BY DEF MissionOK, Flags, RecordType, Mission!Phases, Mission!Current, Mission!NoRecord
<1>2. \A r \in RecordType, v \in BOOLEAN : [r EXCEPT !.valid = v] \in RecordType
  BY DEF RecordType
<1>3. Mission!Flying \in BOOLEAN /\ Mission!Steering \in BOOLEAN /\ Mission!Motors \in BOOLEAN
  BY Zenon DEF Mission!Flying, Mission!Steering, Mission!Motors
<1>4. Outputs \in OutputType /\ NoOutputs \in OutputType
  BY <1>3 DEF MissionOK, Flags, OutputType, Outputs, NoOutputs
<1> QED
  BY <1>1, <1>2, <1>4, Zenon

\* What an action leaves alone keeps its type.
LEMMA TypesUnchanged ==
  /\ MissionOK /\ UNCHANGED mission => MissionOK'
  /\ TasksOK /\ UNCHANGED <<nav, lead, published, seen, ctl, baro>> => TasksOK'
  /\ RequestsOK /\ UNCHANGED <<bench, manual, benchSeen, benchLeft>> => RequestsOK'
  /\ ActuatorOK /\ UNCHANGED actuator => ActuatorOK'
BY Zenon DEF MissionOK, Flags, TasksOK, RequestsOK, ActuatorOK, mission, actuator

\* A sample and the save of its result keep the types,
LEMMA TypeNavStep == ASSUME TypeOK, NavStep PROVE TypeOK'
<1>1. phase' \in Mission!Phases /\ Flags'
  BY ProgressOrder DEF NavStep
<1>2. /\ Mission!Current' \in RecordType
      /\ [Mission!Current' EXCEPT !.valid = FALSE] \in RecordType
  <2>1. Mission!Current' \in RecordType
    BY <1>1 DEF Flags, RecordType, Mission!Current
  <2>2. \A r \in RecordType, v \in BOOLEAN : [r EXCEPT !.valid = v] \in RecordType
    BY DEF RecordType
  <2> QED
    BY <2>1, <2>2, Zenon
<1>3. MissionOK'
  BY <1>1, <1>2, Zenon DEF NavStep, MissionOK
<1>4. TasksOK'
  BY StackAssumption DEF NavStep, TypeOK, TasksOK, control
<1> QED
  BY <1>3, <1>4, TypesUnchanged DEF NavStep, TypeOK, request, control

\* ... so do the seal and the publication,
LEMMA TypeNavPublish == ASSUME TypeOK, NavPublish PROVE TypeOK'
<1>1. MissionOK'
  BY WrittenTypes, Zenon DEF NavPublish, TypeOK, MissionOK, Flags
<1>2. TasksOK'
  BY WrittenTypes, Zenon DEF NavPublish, TypeOK, TasksOK, control
<1> QED
  BY <1>1, <1>2, TypesUnchanged DEF NavPublish, TypeOK, request, control

\* ... the servos and the ESC ramp,
LEMMA TypeControlAct == ASSUME TypeOK, ControlAct PROVE TypeOK'
<1>1. /\ LongestHold \in Nat
      /\ \A n \in 0 .. LongestHold : AtMost(n + 1, LongestHold) \in 0 .. LongestHold
  BY StackAssumption DEF LongestHold, AtMost
<1>2. escFor' \in 0 .. LongestHold
      /\ esc' \in {"SILENT", "ARMING", "SPINUP", "RUNNING", "STOPPED"}
  BY <1>1 DEF TypeOK, ActuatorOK, ControlAct, EscIdles, EscStarts, EscStops, Move, Hold
<1>3. ActuatorOK'
  BY <1>2 DEF ControlAct, ActuatorOK
<1>4. RequestsOK'
  <2>1. benchLeft' \in 0 .. BenchTime
    BY StackAssumption DEF TypeOK, RequestsOK, ControlAct
  <2> QED
    BY <2>1, Zenon DEF TypeOK, RequestsOK, ControlAct
<1>5. TasksOK'
  <2>1. lead' \in 0 .. NavLead
    BY StackAssumption DEF ControlAct
  <2> QED
    BY <2>1, Zenon DEF TypeOK, TasksOK, ControlAct
<1> QED
  BY <1>3, <1>4, <1>5, TypesUnchanged DEF TypeOK, ControlAct

\* ... the critical section that ends a bench test,
LEMMA TypeControlRead == ASSUME TypeOK, ControlRead PROVE TypeOK'
<1>1. RequestsOK' /\ TasksOK'
  BY Zenon DEF ControlRead, TypeOK, RequestsOK, TasksOK
<1> QED
  BY <1>1, TypesUnchanged DEF TypeOK, ControlRead

\* ... and every command.
LEMMA TypeCommand ==
  ASSUME TypeOK,
         \/ \E on \in BOOLEAN : Lift(on) \/ Sim(on)
         \/ Cal \/ Abort \/ Chute \/ BenchStart \/ BenchStop
  PROVE  TypeOK'
<1>1. TasksOK' /\ ActuatorOK'
  BY TypesUnchanged DEF TypeOK, Lift, Sim, Cal, Abort, Chute, BenchStart, BenchStop,
     Command, control
<1>2. RequestsOK'
  <2>1. BenchTime \in 0 .. BenchTime
    BY StackAssumption
  <2> QED
    BY <2>1, Zenon DEF TypeOK, RequestsOK, Lift, Sim, Cal, Abort, Chute, BenchStart,
       BenchStop, Command, control, request
<1>3. CASE Abort \/ Chute \/ BenchStart \/ BenchStop
  <2>1. MissionOK'
    BY <1>3, Zenon DEF TypeOK, MissionOK, Flags, Abort, Chute, BenchStart, BenchStop,
       Mission!Abort, mission
  <2> QED
    BY <1>1, <1>2, <2>1 DEF TypeOK
<1>4. CASE Cal \/ \E on \in BOOLEAN : Lift(on) \/ Sim(on)
  <2>1. phase' = Mission!PAD /\ Flags' /\ record' = record
    BY <1>4, CommandOrder DEF Cal, Lift, Sim
  <2>2. MissionOK'
    BY <2>1 DEF TypeOK, MissionOK, Mission!Phases
  <2> QED
    BY <1>1, <1>2, <2>2 DEF TypeOK
<1> QED
  BY <1>3, <1>4

\* The state after a power-on or any other reset, whatever the mission.
LEMMA TypeReset == ASSUME TypeOK, Reset PROVE TypeOK'
<1>1. NavLead \in Nat /\ BenchTime \in Nat /\ LongestHold \in Nat
  BY StackAssumption DEF LongestHold
<1>2. MissionOK'
  BY ResetOrder DEF Reset, MissionOK
<1>3. TasksOK'
  BY <1>1, WrittenTypes DEF Reset, TypeOK, TasksOK
<1>4. RequestsOK'
  <2>1. manual' \in BOOLEAN /\ 0 \in 0 .. BenchTime
    BY <1>1, <1>2 DEF Reset, ManualAfterReset, MissionOK, RecordType
  <2> QED
    BY <2>1, Zenon DEF Reset, RequestsOK
<1>5. ActuatorOK'
  BY <1>1 DEF Reset, ActuatorOK
<1> QED
  BY <1>2, <1>3, <1>4, <1>5 DEF TypeOK

\* The state of the tasks keeps its types.
THEOREM TypeCorrect == Spec => []TypeOK
<1>1. Init => TypeOK
  <2> SUFFICES ASSUME Init PROVE TypeOK
    OBVIOUS
  <2>1. NavLead \in Nat /\ BenchTime \in Nat /\ LongestHold \in Nat
    BY StackAssumption DEF LongestHold
  <2>2. Flags /\ phase = 0 /\ record = Mission!NoRecord
    BY Zenon DEF Init, Mission!Init, Flags
  <2>3. MissionOK
    BY <2>2 DEF MissionOK, Mission!Phases, Mission!NoRecord, RecordType
  <2>4. TasksOK
    BY <2>1, <2>3, WrittenTypes DEF Init, TasksOK
  <2>5. RequestsOK
    <3>1. 0 \in 0 .. BenchTime
      BY <2>1
    <3> QED
      BY <3>1, Zenon DEF Init, RequestsOK
  <2>6. ActuatorOK
    BY <2>1 DEF Init, ActuatorOK
  <2> QED
    BY <2>3, <2>4, <2>5, <2>6 DEF TypeOK
<1>2. TypeOK /\ [Next]_vars => TypeOK'
  <2> SUFFICES ASSUME TypeOK, [Next]_vars PROVE TypeOK'
    OBVIOUS
  <2>1. CASE BaroFails \/ UNCHANGED vars
    <3>1. TasksOK'
      BY <2>1, Zenon DEF BaroFails, TypeOK, TasksOK, vars, control
    <3> QED
      BY <2>1, <3>1, TypesUnchanged DEF BaroFails, TypeOK, vars, request, control
  <2> QED
    BY <2>1, TypeNavStep, TypeNavPublish, TypeControlRead, TypeControlAct,
       TypeCommand, TypeReset DEF Next
<1> QED
  BY <1>1, <1>2, PTL DEF Spec

(***************************************************************************)
(* A flight is lost only while its record is torn                          *)
(***************************************************************************)

\* What a step leaves in the record is the state it leaves.
LEMMA RecordStep ==
  ASSUME TypeOK, RecordTellsFlight, [Next]_vars
  PROVE  RecordTellsFlight'
<1> USE DEF RecordTellsFlight, Mission!Flying
<1>1. CASE NavStep \/ NavPublish
  <2>1. record'.phase = phase' /\ record'.arms = arms' /\ record'.lift = lift'
    <3>1. \/ record' = [Mission!Current' EXCEPT !.valid = FALSE]
          \/ record' = Mission!Current'
      BY <1>1, Zenon DEF NavStep, NavPublish, Mission!Current
    <3> QED
      BY <3>1 DEF Mission!Current
  <2>2. nav' = "idle" => record'.valid
    BY <1>1 DEF NavStep, NavPublish, Mission!Current
  <2> QED
    BY <2>1, <2>2
<1>2. CASE BaroFails \/ ControlRead \/ ControlAct \/ Chute \/ BenchStart \/ BenchStop \/ UNCHANGED vars
  BY <1>2 DEF BaroFails, ControlRead, ControlAct, Chute, BenchStart, BenchStop, Command,
     vars, mission
<1>3. CASE Abort
  BY <1>3 DEF Abort, Command, Mission!Abort
<1>4. CASE Cal \/ \E on \in BOOLEAN : Lift(on) \/ Sim(on)
  BY <1>4, CommandOrder DEF Cal, Lift, Sim
<1>5. CASE Reset
  BY <1>5, ResetOrder DEF Reset, TypeOK, MissionOK, RecordType, Mission!Phases,
     Mission!ResetInFlight, Mission!InFlight
<1> QED
  BY <1>1, <1>2, <1>3, <1>4, <1>5 DEF Next

\* The record of a flight is the state of that flight at every moment at which
\* it fits its checksum, and it fits whenever nav_task is not writing it.
THEOREM RecordCorrect == Spec => []RecordTellsFlight
<1>1. Init => RecordTellsFlight
  BY DEF Init, Mission!Init, RecordTellsFlight, Mission!Flying
<1> QED
  BY <1>1, RecordStep, TypeCorrect, PTL DEF Spec

\* "after a brownout / watchdog / panic reset in the air the firmware resumes":
\* no command, no sample and no reset ends a real flight, except a reset between
\* save() and seal() with a record that does not fit its checksum.
THEOREM FlightKept == Spec => FlightLostOnlyTorn
<1>1. ASSUME TypeOK, RecordTellsFlight, [Next]_vars, InRealFlight, ~Mission!Flying'
      PROVE  nav = "sealing" /\ ~record.valid
  <2> USE <1>1 DEF InRealFlight, Mission!Flying
  <2>1. ~NavStep
    BY ProgressOrder DEF NavStep, TypeOK, MissionOK, Mission!Phases
  <2>2. ~(NavPublish \/ BaroFails \/ ControlRead \/ ControlAct \/ Chute \/ BenchStart
          \/ BenchStop \/ UNCHANGED vars)
    BY DEF NavPublish, BaroFails, ControlRead, ControlAct, Chute, BenchStart,
       BenchStop, Command, vars, mission
  <2>3. ~(Abort \/ Cal \/ \E on \in BOOLEAN : Lift(on) \/ Sim(on))
    BY CommandOrder DEF Abort, Cal, Lift, Sim, Command, Mission!Abort
  <2>4. Reset
    BY <2>1, <2>2, <2>3 DEF Next
  <2>5. ~Mission!InFlight
    BY <2>4 DEF Reset, Mission!ResetInFlight, Mission!ResetOnPad, Mission!InFlight
  <2> QED
    BY <2>5 DEF TypeOK, TasksOK, RecordTellsFlight, Mission!InFlight
<1>2. TypeOK /\ RecordTellsFlight /\ [Next]_vars =>
        [InRealFlight /\ ~Mission!Flying' => nav = "sealing" /\ ~record.valid]_vars
  BY <1>1
<1> QED
  BY <1>2, RecordCorrect, TypeCorrect, PTL DEF Spec, FlightLostOnlyTorn

(***************************************************************************)
(* No bench test in flight                                                 *)
(***************************************************************************)

\* A flight that control_task has read spins the motors only because the
\* mission enables them: the read that sees the flight ends the bench test, and
\* none can begin before the motors have been set.
THEOREM FlightEndsBench == Spec => NoBenchInFlight
<1>1. Init => BenchEndsWithLaunch
  BY DEF Init, BenchEndsWithLaunch
<1>2. TypeOK /\ BenchEndsWithLaunch /\ [Next]_vars => BenchEndsWithLaunch'
  <2> SUFFICES ASSUME TypeOK, BenchEndsWithLaunch, [Next]_vars
               PROVE  BenchEndsWithLaunch'
    OBVIOUS
  <2>1. CASE ControlRead
    BY <2>1, Zenon DEF ControlRead, BenchOver, BenchEndsWithLaunch
  <2>2. CASE ControlAct \/ Reset
    BY <2>2 DEF ControlAct, Reset, BenchEndsWithLaunch
  <2> QED
    BY <2>1, <2>2 DEF Next, BenchEndsWithLaunch, NavStep, NavPublish, BaroFails,
       Lift, Cal, Sim, Abort, Chute, BenchStart, BenchStop, Command, vars, control
<1>3. ASSUME TypeOK, BenchEndsWithLaunch, [Next]_vars
      PROVE  [ctl = "acting" /\ seen.flying /\ Spinning' /\ actuator' # actuator
                => seen.motors]_vars
  <2> SUFFICES ASSUME ctl = "acting", seen.flying, Spinning', actuator' # actuator
               PROVE  seen.motors
    OBVIOUS
  <2>1. CASE ControlAct
    <3>1. ~EscIdles /\ ~EscStops
      BY <2>1, <1>3 DEF EscIdles, EscStops, Spinning, Move, Hold
    <3> QED
      BY <1>3, <2>1, <3>1 DEF ControlAct, EscStarts, Want, BenchEndsWithLaunch
  <2>2. ~Reset
    BY DEF Reset, Spinning
  <2> QED
    BY <1>3, <2>1, <2>2 DEF Next, NavStep, NavPublish, BaroFails, ControlRead,
       Lift, Cal, Sim, Abort, Chute, BenchStart, BenchStop, Command, vars
<1> QED
  BY <1>1, <1>2, <1>3, TypeCorrect, PTL DEF Spec, NoBenchInFlight

(***************************************************************************)
(* The servos follow the mission                                           *)
(***************************************************************************)

\* control_task runs at 100 Hz, the barometer of nav_task at 50 Hz: between two
\* iterations of control_task falls one sample at most.
OneSample == NavLead = 1

\* Old latches are forgotten before the flight opens its own, and its own stay
\* known to control_task.
LEMMA LatchStep ==
  ASSUME OneSample, TypeOK, LatchInv, [Next]_vars
  PROVE  LatchInv'
<1> USE DEF LatchInv, OldLatchesForgotten, OpenLatchesKnown
<1>1. CASE NavStep
  <2>1. lead = 0 /\ lead' = 1 /\ nav' = "sealing" /\ nav = "idle"
    BY <1>1 DEF NavStep, OneSample, TypeOK, TasksOK
  <2>2. UNCHANGED <<published, seen, ctl, servo, manual>>
    BY <1>1 DEF NavStep, request, control, actuator
  <2> QED
    BY <1>1, <2>1, <2>2, ProgressOrder DEF NavStep, OneSample, TypeOK, MissionOK,
       Mission!Phases
<1>2. CASE NavPublish
  BY <1>2 DEF NavPublish, Outputs, request, control, actuator
<1>3. CASE ControlRead
  BY <1>3 DEF ControlRead, MutexFree, mission, actuator
<1>4. CASE ControlAct
  <2>1. servo' = "unlatched" /\ ~manual' => seen.arms
    BY <1>4 DEF ControlAct
  <2>2. UNCHANGED <<phase, arms, nav, published, seen, manual>> /\ ctl' = "idle"
    BY <1>4 DEF ControlAct, mission
  <2> QED
    BY <1>4, <2>1, <2>2 DEF ControlAct
<1>5. CASE Cal \/ \E on \in BOOLEAN : Lift(on) \/ Sim(on)
  <2>1. phase' = Mission!PAD /\ ~arms'
    BY <1>5, CommandOrder DEF Cal, Lift, Sim
  <2> QED
    BY <2>1
<1>6. CASE BaroFails \/ Abort \/ BenchStart \/ BenchStop \/ UNCHANGED vars
  BY <1>6 DEF BaroFails, Abort, BenchStart, BenchStop, Command, Mission!Abort, vars,
     mission, request, control, actuator
<1>7. CASE Chute
  BY <1>7 DEF Chute, Command, mission, control, actuator
<1>8. CASE Reset
  BY <1>8, ResetOrder DEF Reset, ManualAfterReset, NoOutputs
<1> QED
  BY <1>1, <1>2, <1>3, <1>4, <1>5, <1>6, <1>7, <1>8 DEF Next

\* "servos stay unlatched", "never re-latch arms mid-air": neither an iteration
\* of control_task, whatever it has read and when, nor a reset that resumes the
\* flight closes latches that the mission has opened in a real flight.
THEOREM LatchesStayOpen ==
  ASSUME OneSample
  PROVE  Spec => ServosFollowMission
<1>1. Init => LatchInv
  BY DEF Init, Mission!Init, LatchInv, OldLatchesForgotten, OpenLatchesKnown, NoOutputs
<1>2. TypeOK /\ LatchInv /\ [Next]_vars => LatchInv'
  BY LatchStep
<1>3. ASSUME TypeOK, RecordTellsFlight, LatchInv, [Next]_vars, InRealFlight, arms,
             servo = "unlatched", Mission!Flying'
      PROVE  servo' = "unlatched"
  <2>1. CASE ControlAct
    BY <1>3, <2>1 DEF ControlAct, LatchInv, OpenLatchesKnown
  <2>2. CASE Reset
    BY <1>3, <2>2, ResetOrder DEF Reset, InRealFlight, RecordTellsFlight,
       Mission!ResetInFlight
  <2> QED
    BY <1>3, <2>1, <2>2 DEF Next, NavStep, NavPublish, BaroFails, ControlRead,
       Lift, Cal, Sim, Abort, Chute, BenchStart, BenchStop, Command, vars, actuator
<1>4. TypeOK /\ RecordTellsFlight /\ LatchInv /\ [Next]_vars =>
        [InRealFlight /\ arms /\ servo = "unlatched" /\ Mission!Flying'
           => servo' = "unlatched"]_vars
  BY <1>3
<1> QED
  BY <1>1, <1>2, <1>4, TypeCorrect, RecordCorrect, PTL
     DEF Spec, ServosFollowMission

(***************************************************************************)
(* The mission that saves at once                                          *)
(***************************************************************************)

\* Between save and seal the record is that of the mission, but for its checksum.
HalfWritten ==
  nav = "sealing" =>
    \/ record = Mission!Current
    \/ record = [Mission!Current EXCEPT !.valid = FALSE]

\* Only nav_task writes the record, and nothing changes the mission before it is sealed.
LEMMA HalfWrittenStep == ASSUME HalfWritten, [Next]_vars PROVE HalfWritten'
<1>1. CASE NavStep
  <2>1. \/ record' = Mission!Current'
        \/ record' = [Mission!Current' EXCEPT !.valid = FALSE]
    BY <1>1 DEF NavStep
  <2> QED
    BY <2>1 DEF HalfWritten
<1>2. CASE NavPublish \/ Reset
  BY <1>2 DEF NavPublish, Reset, HalfWritten
<1>3. CASE Cal \/ (\E on \in BOOLEAN : Lift(on) \/ Sim(on)) \/ Abort
  <2>1. nav' = "idle"
    BY <1>3 DEF Cal, Lift, Sim, Abort, Command, MutexFree
  <2> QED
    BY <2>1 DEF HalfWritten
<1>4. CASE BaroFails \/ ControlRead \/ ControlAct \/ Chute \/ BenchStart \/ BenchStop \/ UNCHANGED vars
  <2>1. UNCHANGED mission /\ nav' = nav
    BY <1>4 DEF BaroFails, ControlRead, ControlAct, Chute, BenchStart, BenchStop, Command, vars
  <2>2. record' = record /\ Mission!Current' = Mission!Current
    BY <2>1 DEF mission, Mission!Current
  <2> QED
    BY <2>1, <2>2 DEF HalfWritten
<1> QED
  BY <1>1, <1>2, <1>3, <1>4 DEF Next

\* A step that leaves the record alone is the same step of the mission that
\* saves at once.
LEMMA SameMission ==
  /\ Mission!Progress => Atomic!Progress
  /\ Mission!Current = Atomic!Current
<1>1. Mission!Progress => Atomic!Progress
  BY Zenon DEF Mission!Progress, Mission!Remain, Mission!Launch, Mission!Release, Mission!Unlatch,
     Mission!Steer, Mission!Fly, Mission!Land,
     Atomic!Progress, Atomic!Remain, Atomic!Launch, Atomic!Release, Atomic!Unlatch,
     Atomic!Steer, Atomic!Fly, Atomic!Land
<1> QED
  BY <1>1 DEF Mission!Current, Atomic!Current

\* Under fc_mutex the record is whole.
LEMMA WholeRecord ==
  ASSUME MutexFree, nav' = "idle"
  PROVE  Saved = record /\ Saved' = record'
BY DEF MutexFree, Saved

\* Commands take fc_mutex, so that the record they leave alone is whole.
LEMMA AtomicCommand ==
  ASSUME Cal \/ (\E on \in BOOLEAN : Lift(on) \/ Sim(on)) \/ Abort
  PROVE  Atomic!Next
<1>1. MutexFree /\ nav' = "idle"
  BY DEF Cal, Lift, Sim, Abort, Command, MutexFree
<1>2. Saved = record /\ Saved' = record'
  BY <1>1, WholeRecord
<1>3. CASE Cal
  BY <1>2, <1>3 DEF Cal, Mission!Calibrate, Mission!BackToPad, Mission!Flying,
     Atomic!Calibrate, Atomic!BackToPad, Atomic!Flying, Atomic!Next
<1>4. ASSUME NEW on \in BOOLEAN, Lift(on) PROVE Atomic!Next
  <2>1. Atomic!SelectLift(on)
    BY <1>2, <1>4 DEF Lift, Mission!SelectLift, Mission!BackToPad, Mission!Flying,
       Atomic!SelectLift, Atomic!BackToPad, Atomic!Flying
  <2> QED
    BY <2>1 DEF Atomic!Next
<1>5. ASSUME NEW on \in BOOLEAN, Sim(on) PROVE Atomic!Next
  <2>1. Atomic!SelectSim(on)
    BY <1>2, <1>5 DEF Sim, Mission!SelectSim, Mission!BackToPad, Mission!Flying,
       Atomic!SelectSim, Atomic!BackToPad, Atomic!Flying
  <2> QED
    BY <2>1 DEF Atomic!Next
<1>6. CASE Abort
  BY <1>2, <1>6 DEF Abort, Mission!Abort, Atomic!Abort, Atomic!Next
<1> QED
  BY <1>3, <1>4, <1>5, <1>6

\* A reset finds the record of the last step, sealed or as good as sealed, or one
\* that does not fit its checksum.
LEMMA AtomicReset ==
  ASSUME HalfWritten, Reset
  PROVE  Atomic!Next \/ TornReset
<1>1. nav' = "idle" /\ Saved' = record'
  BY DEF Reset, Saved
<1>2. CASE nav = "sealing" /\ record = [Mission!Current EXCEPT !.valid = FALSE]
  <2>1. ~record.valid
    BY <1>2 DEF Mission!Current
  <2> QED
    BY <1>2, <2>1 DEF Reset, Mission!ResetInFlight, Mission!InFlight, TornReset
<1>3. CASE ~(nav = "sealing" /\ record = [Mission!Current EXCEPT !.valid = FALSE])
  <2>1. Saved = record
    BY <1>3 DEF HalfWritten, Saved
  <2>2. CASE Mission!ResetInFlight
    BY <1>1, <2>1, <2>2 DEF Mission!ResetInFlight, Mission!InFlight,
       Atomic!ResetInFlight, Atomic!InFlight, Atomic!Next
  <2>3. CASE Mission!ResetOnPad
    BY <1>1, <2>1, <2>3 DEF Mission!ResetOnPad, Mission!InFlight, Mission!NoRecord,
       Atomic!ResetOnPad, Atomic!InFlight, Atomic!NoRecord, Atomic!Next
  <2> QED
    BY <2>2, <2>3 DEF Reset
<1> QED
  BY <1>2, <1>3

\* SavesAtOnce: the tasks implement the mission that ends each step with its
\* record, but for a reset between save and seal.
THEOREM StepsAreAtomic == Spec => SavesAtOnce
<1>1. Init => Atomic!Init /\ HalfWritten
  BY DEF Init, HalfWritten, Mission!Init, Mission!NoRecord, Saved, Atomic!Init, Atomic!NoRecord
<1>2. HalfWritten /\ [Next]_vars => [Atomic!Next \/ TornReset]_(Atomic!vars)
  <2> SUFFICES ASSUME HalfWritten, [Next]_vars
               PROVE  Atomic!Next \/ TornReset \/ UNCHANGED Atomic!vars
    OBVIOUS
  <2>1. CASE NavStep
    <3>1. Saved' = Mission!Current'
      BY <2>1 DEF NavStep, Saved
    <3>2. Atomic!Progress /\ Saved' = Atomic!Current'
      BY <2>1, <3>1, SameMission DEF NavStep, Mission!Current, Atomic!Current
    <3> QED
      BY <3>2 DEF Atomic!Step, Atomic!Next
  <2>2. CASE NavPublish
    <3>1. nav = "sealing" /\ nav' = "idle" /\ record' = Mission!Current
      BY <2>2 DEF NavPublish
    <3>2. Saved' = Saved
      BY <3>1 DEF Saved
    <3> QED
      BY <2>2, <3>2 DEF NavPublish, Atomic!vars
  <2>3. CASE BaroFails \/ ControlRead \/ ControlAct \/ Chute \/ BenchStart \/ BenchStop \/ UNCHANGED vars
    <3>1. UNCHANGED mission /\ nav' = nav
      BY <2>3 DEF BaroFails, ControlRead, ControlAct, Chute, BenchStart, BenchStop, Command, vars
    <3>2. Saved' = Saved
      BY <3>1 DEF mission, Mission!Current, Saved
    <3> QED
      BY <3>1, <3>2 DEF mission, Atomic!vars
  <2>4. CASE Cal \/ (\E on \in BOOLEAN : Lift(on) \/ Sim(on)) \/ Abort
    BY <2>4, AtomicCommand
  <2>5. CASE Reset
    BY <2>5, AtomicReset
  <2> QED
    BY <2>1, <2>2, <2>3, <2>4, <2>5 DEF Next
<1>3. HalfWritten /\ [Next]_vars => HalfWritten'
  BY HalfWrittenStep
<1> QED
  BY <1>1, <1>2, <1>3, PTL DEF Spec, SavesAtOnce
=============================================================================
