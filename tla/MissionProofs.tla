--------------------------- MODULE MissionProofs ---------------------------
(***************************************************************************)
(* Proofs about the mission state machine, for every table of thresholds,  *)
(* every set of inputs and every duration the assumptions admit: its       *)
(* types, its inductive invariant, what follows from it in every state and *)
(* in every step, and that it implements MissionPromise; and what its      *)
(* timers say about what the vehicle has really done: a lasting tumble     *)
(* stops the motors, only a lasting recovery brings them back, a carried   *)
(* CanSat releases nothing, and a launch is confirmed inside its window.   *)
(***************************************************************************)
EXTENDS MissionInvariant, MissionHistory, TLAPS

USE DEF PAD, ASCENT, DESCENT, ARMS_DEPLOY, STEERING, LANDED

(***************************************************************************)
(* Types                                                                   *)
(***************************************************************************)

\* The row of the threshold table in use has the types of the table.
LEMMA RowType ==
  ASSUME TypeOK
  PROVE  Th \in Rows /\ Th.landedS > StepGapMax
<1>1. Profile \in Profiles
  BY DEF Profile, Profiles
<1> QED
  BY <1>1, ThresholdsAssumption DEF Th

\* A timer keeps its type whatever its condition and its limit.
LEMMA TimerType ==
  ASSUME TypeOK, NEW k \in Timers, NEW on, NEW dt \in Nat, NEW limit \in Nat
  PROVE  Timer(k, on, dt, limit) \in Nat
BY DEF Timer, AtMost, TypeOK, TimersOK

\* The time a step accounts for is between one period and the longest gap.
LEMMA StepDtType ==
  ASSUME TypeOK, age["step"] # 0
  PROVE  StepDt \in 1 .. StepGapMax
BY TimesAssumption DEF StepDt, TypeOK, TimersOK, Stamps, Never

\* An accumulated sample interval is at least one period.
LEMMA AccelDtType ==
  ASSUME TypeOK, age["accel"] # 0
  PROVE  AccelDt \in Nat
BY TimesAssumption DEF AccelDt, TypeOK, TimersOK, Stamps, Never

\* Setting stamps to zero keeps the type of the ages.
LEMMA SteppedType ==
  ASSUME TypeOK, NEW stamped, Stepped(stamped)
  PROVE  age' \in [Stamps -> {Never} \cup 0 .. AgeCap]
BY TimesAssumption DEF Stepped, TypeOK, TimersOK, Stamps

\* Altitude and peak after a step in flight, and what such a step leaves alone.
LEMMA AirborneType ==
  ASSUME TypeOK, NEW in \in Inputs, Airborne(in)
  PROVE  /\ agl' \in Int /\ hMax' \in Int
         /\ padRef' \in Int /\ liftDeploy' \in LiftDeploys \cup {0}
         /\ {flightStarted', aborted', sim', baroSim', padRefInit'} \subseteq BOOLEAN
<1>1. in.h \in Int
  BY InputsAssumption DEF Inputs
<1>2. agl' \in Int /\ hMax' \in Int
  BY <1>1 DEF Airborne, AtLeast, TypeOK, DataOK
<1>3. padRef' \in Int /\ liftDeploy' \in LiftDeploys \cup {0}
  BY DEF Airborne, TypeOK, DataOK, modes, pad
<1>4. {flightStarted', aborted', sim', baroSim', padRefInit'} \subseteq BOOLEAN
  BY DEF Airborne, TypeOK, FlagsOK, modes, pad
<1> QED
  BY <1>2, <1>3, <1>4

\* The landing timer is a natural number, and landing changes only the phase.
LEMMA SettledType ==
  ASSUME TypeOK, age["step"] # 0, NEW in, NEW p \in Phases
  PROVE  Settled(in) \in Nat /\ LandOr(p, in) \in {p, LANDED}
<1>1. Th.landedS \in Nat
  BY RowType DEF Rows
<1>2. Settled(in) \in Nat
  BY <1>1, StepDtType, TimerType, TimesAssumption DEF Settled, Timers
<1> QED
  BY <1>2 DEF LandOr

\* A step keeps the types.
LEMMA TypeStep ==
  ASSUME TypeOK, NEW in \in Inputs, Step(in)
  PROVE  TypeOK'
<1>1. age["step"] # 0 /\ persist' = Saved'
  BY DEF Step
<1>2. StepDt \in Nat /\ Settled(in) \in Nat
      /\ \A p \in Phases : LandOr(p, in) \in Phases
  <2>1. StepDt \in Nat
    BY <1>1, StepDtType, TimesAssumption
  <2> QED
    BY <1>1, <2>1, SettledType DEF Phases
<1>3. /\ in.h \in Int /\ in.v \in Int
      /\ timer \in [Timers -> Nat]
  BY InputsAssumption DEF Inputs, TypeOK, TimersOK
<1>4. ASSUME FlagsOK', TimersOK', phase' \in Phases,
             liftDeploy' \in LiftDeploys \cup {0},
             padRef' \in Int, hMax' \in Int, agl' \in Int
      PROVE  TypeOK'
  BY <1>1, <1>4 DEF TypeOK, DataOK, FlagsOK, Saved
<1>5. CASE PadStep(in)
  <2>1. Timer("climb", agl' >= Th.launchGain /\ in.v >= Th.climbV,
              StepDt, Th.climbS) \in Nat
    BY <1>2, RowType, TimerType DEF Timers, Rows
  <2>2. timer' \in [Timers -> Nat]
    BY <1>3, <1>5, <2>1 DEF PadStep
  <2>3. padRef' \in Int /\ agl' \in Int
    BY <1>3, <1>5 DEF PadStep, PadRefs, TypeOK, DataOK
  <2>4. age' \in [Stamps -> {Never} \cup 0 .. AgeCap]
    BY <1>5, TimesAssumption DEF PadStep, TypeOK, TimersOK, Stamps
  <2>5. phase' \in Phases /\ hMax' \in Int /\ liftDeploy' \in LiftDeploys \cup {0}
    BY <1>5 DEF PadStep, TypeOK, DataOK, Phases, modes
  <2>6. FlagsOK'
    BY <1>5 DEF PadStep, TypeOK, FlagsOK, modes
  <2> QED
    BY <1>4, <2>2, <2>3, <2>4, <2>5, <2>6 DEF TimersOK
<1>6. CASE AscentStep(in)
  <2>1. /\ Timer("sink", agl' <= hMax' - Th.releaseDrop /\ in.v <= -Th.sinkV,
                 StepDt, Th.sinkS) \in Nat
        /\ Timer("fall", agl' <= hMax' - FallbackDrop /\ in.v <= -FallbackV,
                 StepDt, FallbackS) \in Nat
    BY <1>2, RowType, TimerType, TimesAssumption DEF Timers, Rows
  <2>2. timer' \in [Timers -> Nat]
    BY <1>2, <1>3, <1>6, <2>1 DEF AscentStep
  <2>3. phase' \in Phases /\ age' \in [Stamps -> {Never} \cup 0 .. AgeCap]
    BY <1>2, <1>6, SteppedType DEF AscentStep, Phases
  <2>4. FlagsOK'
    BY <1>6, AirborneType DEF AscentStep, TypeOK, FlagsOK
  <2> QED
    BY <1>4, <1>6, <2>2, <2>3, <2>4, AirborneType DEF AscentStep, TimersOK
<1>7. CASE DescentStep(in)
  <2>1. timer' \in [Timers -> Nat]
    BY <1>2, <1>3, <1>7 DEF DescentStep
  <2>2. phase' \in Phases /\ age' \in [Stamps -> {Never} \cup 0 .. AgeCap]
    BY <1>2, <1>7, SteppedType DEF DescentStep, Phases
  <2>3. FlagsOK'
    BY <1>7, AirborneType DEF DescentStep, TypeOK, FlagsOK
  <2> QED
    BY <1>4, <1>7, <2>1, <2>2, <2>3, AirborneType DEF DescentStep, TimersOK
<1>8. CASE ArmsStep(in)
  <2>1. timer' \in [Timers -> Nat]
    BY <1>2, <1>3, <1>8 DEF ArmsStep
  <2>2. phase' \in Phases /\ age' \in [Stamps -> {Never} \cup 0 .. AgeCap]
    BY <1>2, <1>8, SteppedType DEF ArmsStep, Phases
  <2>3. FlagsOK'
    BY <1>8, AirborneType DEF ArmsStep, TypeOK, FlagsOK
  <2> QED
    BY <1>4, <1>8, <2>1, <2>2, <2>3, AirborneType DEF ArmsStep, TimersOK
<1>9. CASE SteeringStep(in)
  <2>1. /\ Timer("tumble", Tumbling(in.att), StepDt, TumbleS) \in Nat
        /\ Timer("recover", Recovered(in.att), StepDt, RecoverS) \in Nat
    BY <1>2, TimerType, TimesAssumption DEF Timers
  <2>2. timer' \in [Timers -> Nat]
    <3>1. CASE Watch(in)
      BY <1>2, <1>3, <2>1, <3>1 DEF Watch
    <3>2. CASE Recover(in)
      BY <1>2, <1>3, <2>1, <3>2 DEF Recover
    <3> QED
      BY <1>9, <3>1, <3>2 DEF SteeringStep
  <2>3. suspended' \in BOOLEAN /\ motorsCutLow' \in BOOLEAN
    <3>1. Watch(in) => suspended' \in BOOLEAN
      BY <2>1, TimesAssumption DEF Watch
    <3>2. Recover(in) => suspended' \in BOOLEAN
      BY <2>1, TimesAssumption DEF Recover
    <3>3. SteeringStep(in) => motorsCutLow' \in BOOLEAN
      BY Zenon DEF SteeringStep
    <3> QED
      BY <1>9, <3>1, <3>2, <3>3 DEF SteeringStep
  <2>4. phase' \in Phases /\ age' \in [Stamps -> {Never} \cup 0 .. AgeCap]
    BY <1>2, <1>9, SteppedType DEF SteeringStep, Phases
  <2>5. FlagsOK'
    BY <1>9, <2>3, AirborneType DEF SteeringStep, TypeOK, FlagsOK
  <2> QED
    BY <1>4, <1>9, <2>2, <2>4, <2>5, AirborneType DEF SteeringStep, TimersOK
<1>10. CASE LandedStep(in)
  <2>1. FlagsOK'
    BY <1>10, AirborneType DEF LandedStep, TypeOK, FlagsOK
  <2> QED
    BY <1>4, <1>10, <2>1, AirborneType, SteppedType
       DEF LandedStep, TypeOK, DataOK, TimersOK
<1> QED
  BY <1>5, <1>6, <1>7, <1>8, <1>9, <1>10 DEF Step

\* A command that resets the mission leaves well-typed values behind.
LEMMA TypeReset ==
  ASSUME TypeOK, ResetMission
  PROVE  /\ TimersOK'
         /\ phase' \in Phases /\ padRef' \in Int /\ hMax' \in Int /\ agl' \in Int
         /\ {flightStarted', armsUnlatched', motorsCutLow', suspended', aborted',
             padRefInit'} \subseteq BOOLEAN
         /\ persist' = persist
<1>1. TimersOK'
  BY TimesAssumption DEF ResetMission, Fresh, TypeOK, TimersOK
<1>2. phase' \in Phases /\ padRef' \in Int /\ hMax' \in Int /\ agl' \in Int
  BY DEF ResetMission, Fresh, TypeOK, DataOK, Phases
<1>3. {flightStarted', armsUnlatched', motorsCutLow', suspended', aborted',
       padRefInit'} \subseteq BOOLEAN
  BY DEF ResetMission, Fresh
<1> QED
  BY <1>1, <1>2, <1>3 DEF ResetMission

\* Every action keeps the types.
LEMMA TypeNext ==
  ASSUME TypeOK, [Next]_vars
  PROVE  TypeOK'
<1>1. CASE Tick
  <2>1. age' \in [Stamps -> {Never} \cup 0 .. AgeCap]
    BY <1>1, TimesAssumption DEF Tick, TypeOK, TimersOK, AtMost, Never
  <2> QED
    BY <1>1, <2>1 DEF Tick, TypeOK, FlagsOK, DataOK, TimersOK, flags, modes, pad
<1>2. ASSUME NEW f \in AccelSamples, IngestAccel(f) PROVE TypeOK'
  <2>1. AccelDt \in Nat
    BY <1>2, AccelDtType DEF IngestAccel
  <2>2. \A on : /\ Timer("accelHi", on, AccelDt, LaunchAccelS) \in Nat
                /\ Timer("freefall", on, AccelDt, FreefallS) \in Nat
    BY <2>1, TimerType, TimesAssumption DEF Timers
  <2>3. timer' \in [Timers -> Nat]
    BY <1>2, <2>2 DEF IngestAccel, TypeOK, TimersOK, Timers
  <2>4. age' \in [Stamps -> {Never} \cup 0 .. AgeCap]
    BY <1>2, TimesAssumption DEF IngestAccel, TypeOK, TimersOK, Stamps, Never
  <2> QED
    BY <1>2, <2>3, <2>4
       DEF IngestAccel, TypeOK, FlagsOK, DataOK, TimersOK, flags, modes, pad
<1>3. ASSUME NEW in \in Inputs, Step(in) PROVE TypeOK'
  BY <1>3, TypeStep
<1>4. ASSUME NEW deploy \in LiftDeploys \cup {0}, LiftCommand(deploy) PROVE TypeOK'
  BY <1>4, TypeReset DEF LiftCommand, TypeOK, FlagsOK, DataOK
<1>5. CASE CalCommand
  BY <1>5, TypeReset DEF CalCommand, TypeOK, FlagsOK, DataOK
<1>6. ASSUME NEW enable \in SimRequests, SimCommand(enable) PROVE TypeOK'
  BY <1>6, TypeReset, InputsAssumption DEF SimCommand, TypeOK, FlagsOK, DataOK
<1>7. CASE AbortCommand
  BY <1>7 DEF AbortCommand, TypeOK, FlagsOK, DataOK, TimersOK, modes, pad
<1>8. CASE Resume
  <2>1. FlagsOK'
    BY <1>8 DEF Resume, TypeOK, FlagsOK, DataOK
  <2>2. DataOK'
    BY <1>8 DEF Resume, TypeOK, DataOK, Phases
  <2>3. TimersOK'
    BY <1>8, TimesAssumption DEF Resume, TimersOK
  <2> QED
    BY <2>1, <2>2, <2>3 DEF TypeOK
<1>9. CASE ColdBoot
  <2>1. FlagsOK'
    BY <1>9 DEF ColdBoot, Fresh, FlagsOK
  <2>2. DataOK'
    BY <1>9 DEF ColdBoot, Fresh, NoRecord, DataOK, Phases
  <2>3. TimersOK'
    BY <1>9, TimesAssumption DEF ColdBoot, Fresh, TimersOK
  <2> QED
    BY <2>1, <2>2, <2>3 DEF TypeOK
<1>10. CASE UNCHANGED vars
  BY <1>10 DEF vars, TypeOK, FlagsOK, DataOK, TimersOK, flags, modes, pad
<1> QED
  BY <1>1, <1>2, <1>3, <1>4, <1>5, <1>6, <1>7, <1>8, <1>9, <1>10 DEF Next

\* Every reachable state has the types that TypeOK names.
THEOREM TypeCorrect == Spec => []TypeOK
<1>1. Init => TypeOK
  <2> SUFFICES ASSUME Init PROVE TypeOK
    OBVIOUS
  <2>1. FlagsOK
    BY DEF Init, FlagsOK
  <2>2. DataOK
    BY DEF Init, DataOK, Phases, NoRecord
  <2>3. TimersOK
    BY TimesAssumption DEF Init, TimersOK
  <2> QED
    BY <2>1, <2>2, <2>3 DEF TypeOK
<1>2. TypeOK /\ [Next]_vars => TypeOK'
  BY TypeNext
<1> QED
  BY <1>1, <1>2, PTL DEF Spec

(***************************************************************************)
(* What single operations do to the invariant                              *)
(***************************************************************************)

\* The landing timer of a step that follows no landing time: too short to land.
LEMMA FirstLandingTime ==
  ASSUME TypeOK, age["step"] # 0, timer["landed"] = 0, NEW in, NEW p
  PROVE  LandOr(p, in) = p
<1>1. StepDt \in Nat /\ StepDt < Th.landedS /\ Th.landedS \in Nat
  BY RowType, StepDtType, TimesAssumption DEF Rows
<1>2. Settled(in) \in {0, StepDt}
  BY <1>1 DEF Settled, Timer, AtMost
<1> QED
  BY <1>1, <1>2 DEF LandOr

\* A stamp that is not renewed keeps its age in a step, and a renewed one is new.
LEMMA SteppedAge ==
  ASSUME TypeOK, NEW stamped \in SUBSET Stamps, Stepped(stamped)
  PROVE  /\ "arms" \notin stamped => age'["arms"] = age["arms"]
         /\ "arms" \in stamped => age'["arms"] = 0
BY DEF Stepped, TypeOK, TimersOK, Stamps

\* The record part of the invariant after a step, which saves what it leaves.
LEMMA SavedIsResumable ==
  ASSUME persist' = Saved', PhaseTellsLatches'
  PROVE  RecordIsResumable'
BY DEF Saved, RecordIsResumable, PhaseTellsLatches

\* Every step of nav_task keeps the invariant.
LEMMA InvStep ==
  ASSUME TypeOK, MissionInv, NEW in \in Inputs, Step(in)
  PROVE  MissionInv'
<1>1. age["step"] # 0 /\ persist' = Saved'
  BY DEF Step
<1>2. \A p \in Phases : LandOr(p, in) \in {p, LANDED}
  BY <1>1, SettledType
<1>3. SUFFICES PhaseTellsLatches' /\ SteersHighAndOpen' /\ NotLandingYet'
  BY <1>1, SavedIsResumable DEF MissionInv
<1>4. CASE PadStep(in)
  <2>1. phase' \in {PAD, ASCENT} /\ (flightStarted' <=> phase' # PAD)
    BY <1>4 DEF PadStep, MissionInv, PhaseTellsLatches
  <2>2. timer'["landed"] = timer["landed"]
    BY <1>4 DEF PadStep, TypeOK, TimersOK, Timers
  <2> QED
    BY <1>4, <2>1, <2>2
       DEF PadStep, MissionInv, PhaseTellsLatches, SteersHighAndOpen, NotLandingYet
<1>5. CASE AscentStep(in)
  <2>1. timer["landed"] = 0
    BY <1>5 DEF AscentStep, MissionInv, NotLandingYet
  <2>2. phase' \in {ASCENT, DESCENT}
    BY <1>1, <1>5, <2>1, FirstLandingTime DEF AscentStep
  <2>3. phase' = ASCENT => timer'["landed"] = 0
    BY <1>1, <1>5, <2>1, FirstLandingTime DEF AscentStep, TypeOK, TimersOK, Timers
  <2> QED
    BY <1>5, <2>2, <2>3 DEF AscentStep, Airborne, MissionInv, PhaseTellsLatches,
       SteersHighAndOpen, NotLandingYet
<1>6. CASE DescentStep(in)
  <2>1. /\ phase' \in {DESCENT, ARMS_DEPLOY, LANDED}
        /\ phase' = ARMS_DEPLOY => armsUnlatched'
    BY <1>2, <1>6 DEF DescentStep, Phases
  <2> QED
    BY <1>6, <2>1 DEF DescentStep, Airborne, MissionInv, PhaseTellsLatches,
       SteersHighAndOpen, NotLandingYet
<1>7. CASE ArmsStep(in)
  <2>1. /\ phase' \in {ARMS_DEPLOY, STEERING, LANDED}
        /\ phase' = STEERING => MaySteer(in)
    BY <1>2, <1>7 DEF ArmsStep, Phases
  <2>2. age'["arms"] = age["arms"]
    BY <1>7, SteppedAge DEF ArmsStep
  <2>3. MaySteer(in) => agl' > Th'.cutoff
    <3>1. Th \in Rows /\ Th' = Th
      BY <1>7, RowType DEF ArmsStep, Airborne, modes, Th, Profile, Lift
    <3>2. agl' \in Int
      BY <1>7, AirborneType DEF ArmsStep
    <3> QED
      BY <3>1, <3>2 DEF MaySteer, Rows
  <2> QED
    BY <1>7, <2>1, <2>2, <2>3 DEF ArmsStep, Airborne, MissionInv,
       PhaseTellsLatches, SteersHighAndOpen, NotLandingYet, Since, MaySteer
<1>8. CASE SteeringStep(in)
  <2>1. phase' \in {STEERING, LANDED}
    BY <1>2, <1>8 DEF SteeringStep, Phases
  <2>2. age'["arms"] = age["arms"]
    BY <1>8, SteppedAge DEF SteeringStep
  <2>3. motorsCutLow' \/ agl' > Th'.cutoff
    <3>1. Th \in Rows /\ Th' = Th
      BY <1>8, RowType DEF SteeringStep, Airborne, modes, Th, Profile, Lift
    <3>2. agl' \in Int
      BY <1>8, AirborneType DEF SteeringStep
    <3>3. motorsCutLow' \/ ~(agl' <= Th.cutoff)
      BY <1>8, Zenon DEF SteeringStep
    <3> QED
      BY <3>1, <3>2, <3>3 DEF Rows
  <2>4. aborted' => motorsCutLow'
    BY <1>8 DEF SteeringStep, Airborne, MissionInv, PhaseTellsLatches
  <2> QED
    BY <1>8, <2>1, <2>2, <2>3, <2>4 DEF SteeringStep, Airborne, MissionInv,
       PhaseTellsLatches, SteersHighAndOpen, NotLandingYet, Since
<1>9. CASE LandedStep(in)
  BY <1>9 DEF LandedStep, Airborne, MissionInv, PhaseTellsLatches,
     SteersHighAndOpen, NotLandingYet
<1> QED
  BY <1>4, <1>5, <1>6, <1>7, <1>8, <1>9 DEF Step

\* A command that resets the mission, and a power-on, leave the invariant.
LEMMA InvFresh ==
  ASSUME MissionInv, Fresh, persist' \in {persist, NoRecord}
  PROVE  MissionInv'
BY DEF Fresh, NoRecord, Timers, MissionInv, PhaseTellsLatches, SteersHighAndOpen,
   NotLandingYet, RecordIsResumable

\* The invariant is inductive.
LEMMA InvNext ==
  ASSUME TypeOK, MissionInv, [Next]_vars
  PROVE  MissionInv'
<1>1. CASE Tick
  <2>1. Since("arms", OpenS) => Since("arms", OpenS)'
    BY <1>1, TimesAssumption
       DEF Tick, Since, AtMost, TypeOK, TimersOK, Stamps, Never
  <2> QED
    BY <1>1, <2>1 DEF Tick, flags, modes, pad, MissionInv, PhaseTellsLatches,
       SteersHighAndOpen, NotLandingYet, RecordIsResumable, Th, Profile, Lift
<1>2. ASSUME NEW f \in AccelSamples, IngestAccel(f) PROVE MissionInv'
  <2>1. timer'["landed"] = timer["landed"] /\ age'["arms"] = age["arms"]
    BY <1>2 DEF IngestAccel, TypeOK, TimersOK, Timers, Stamps
  <2> QED
    BY <1>2, <2>1 DEF IngestAccel, flags, modes, pad, MissionInv,
       PhaseTellsLatches, SteersHighAndOpen, NotLandingYet, RecordIsResumable,
       Th, Profile, Lift, Since
<1>3. ASSUME NEW in \in Inputs, Step(in) PROVE MissionInv'
  BY <1>3, InvStep
<1>4. ASSUME NEW deploy \in LiftDeploys \cup {0}, LiftCommand(deploy)
      PROVE  MissionInv'
  BY <1>4, InvFresh DEF LiftCommand, ResetMission
<1>5. CASE CalCommand
  BY <1>5, InvFresh DEF CalCommand, ResetMission
<1>6. ASSUME NEW enable \in SimRequests, SimCommand(enable) PROVE MissionInv'
  BY <1>6, InvFresh DEF SimCommand, ResetMission
<1>7. CASE AbortCommand
  BY <1>7 DEF AbortCommand, modes, pad, MissionInv, PhaseTellsLatches,
     SteersHighAndOpen, NotLandingYet, RecordIsResumable, Th, Profile, Lift, Since
<1>8. CASE Resume
  <2>1. /\ persist.phase \in {ASCENT, DESCENT, ARMS_DEPLOY, STEERING}
        /\ persist' = persist /\ persist.valid
    BY <1>8 DEF Resume, InFlightRecord, TypeOK, DataOK, Phases
  <2>2. phase' \in {ASCENT, DESCENT, ARMS_DEPLOY} /\ timer'["landed"] = 0
    BY <1>8, <2>1 DEF Resume, Timers
  <2> QED
    BY <1>8, <2>1, <2>2 DEF Resume, MissionInv, PhaseTellsLatches,
       SteersHighAndOpen, NotLandingYet, RecordIsResumable
<1>9. CASE ColdBoot
  BY <1>9, InvFresh DEF ColdBoot
<1>10. CASE UNCHANGED vars
  BY <1>10 DEF vars, flags, modes, pad, MissionInv, PhaseTellsLatches,
     SteersHighAndOpen, NotLandingYet, RecordIsResumable, Th, Profile, Lift, Since
<1> QED
  BY <1>1, <1>2, <1>3, <1>4, <1>5, <1>6, <1>7, <1>8, <1>9, <1>10 DEF Next

\* Phase, latches, timers and reset record never contradict each other.
THEOREM Consistent == Spec => []MissionInv
<1>1. Init => MissionInv
  BY DEF Init, NoRecord, Timers, MissionInv, PhaseTellsLatches, SteersHighAndOpen,
     NotLandingYet, RecordIsResumable
<1>2. TypeOK /\ MissionInv /\ [Next]_vars => MissionInv'
  BY InvNext
<1> QED
  BY <1>1, <1>2, TypeCorrect, PTL DEF Spec

(***************************************************************************)
(* Safety                                                                  *)
(***************************************************************************)

\* Motors spin only in a latched flight, with the arms out long enough and
\* above the cut-off altitude, after any commands and resets.
THEOREM MotorsAlwaysSafe == Spec => []MotorsSafe
<1>1. MissionInv => MotorsSafe
  BY DEF MissionInv, PhaseTellsLatches, SteersHighAndOpen, MotorsSafe,
     MotorsEnabled, SteeringActive
<1> QED
  BY <1>1, Consistent, PTL

(***************************************************************************)
(* What a step may never do                                                *)
(***************************************************************************)

\* In a real flight between launch and landing, the mission only moves forward
\* and the arms stay unlatched; a lift ride stays one until it is on the pad.
LEMMA Monotone ==
  ASSUME TypeOK, MissionInv, [Next]_vars
  PROVE  /\ InRealFlight => phase' >= phase \/ (phase = STEERING /\ phase' = ARMS_DEPLOY)
         /\ InRealFlight /\ armsUnlatched => armsUnlatched'
         /\ Lift /\ phase # PAD /\ liftDeploy' = 0 => phase' = PAD
<1> DEFINE Forward == phase' >= phase \/ (phase = STEERING /\ phase' = ARMS_DEPLOY)
           Kept == armsUnlatched => armsUnlatched'
<1>1. ASSUME UNCHANGED <<phase, armsUnlatched, liftDeploy>>
      PROVE  Forward /\ Kept /\ (Lift => liftDeploy' # 0)
  BY <1>1 DEF Lift, TypeOK, DataOK, Phases
<1>2. ASSUME NEW in \in Inputs, Step(in)
      PROVE  Forward /\ Kept /\ (Lift => liftDeploy' # 0)
  <2>1. \A p \in Phases : LandOr(p, in) \in {p, LANDED}
    BY <1>2, SettledType DEF Step
  <2>2. liftDeploy' = liftDeploy
    BY <1>2 DEF Step, PadStep, AscentStep, DescentStep, ArmsStep, SteeringStep,
       LandedStep, Airborne, modes
  <2>3. phase' >= phase /\ phase \in Phases
    BY <1>2, <2>1 DEF Step, PadStep, AscentStep, DescentStep, ArmsStep,
       SteeringStep, LandedStep, TypeOK, DataOK, Phases
  <2>4. Kept
    BY <1>2 DEF Step, PadStep, AscentStep, DescentStep, ArmsStep, SteeringStep,
       LandedStep
  <2> QED
    BY <2>2, <2>3, <2>4 DEF Lift, TypeOK, DataOK
<1>3. ASSUME ResetMission
      PROVE  phase' = PAD
  BY <1>3 DEF ResetMission, Fresh
<1>4. ASSUME \/ \E deploy \in LiftDeploys \cup {0} : LiftCommand(deploy)
             \/ CalCommand
             \/ \E enable \in SimRequests : SimCommand(enable)
      PROVE  ~InRealFlight /\ phase' = PAD
  <2>1. phase' = PAD
    BY <1>3, <1>4 DEF LiftCommand, CalCommand, SimCommand
  <2>2. ~InRealFlight
    BY <1>4 DEF LiftCommand, CalCommand, SimCommand, InRealFlight, RealFlight
  <2> QED
    BY <2>1, <2>2
<1>5. CASE Resume
  <2>1. CASE phase = PAD
    BY <1>5, <2>1 DEF Resume, InRealFlight, RealFlight, MissionInv, PhaseTellsLatches
  <2>2. CASE phase # PAD
    <3>1. Forward
      BY <1>5, <2>2 DEF Resume, InFlightRecord, MissionInv, RecordIsResumable,
         TypeOK, DataOK, Phases
    <3>2. Kept
      BY <1>5, <2>2 DEF Resume, MissionInv, RecordIsResumable
    <3>3. liftDeploy' = liftDeploy
      BY <1>5, <2>2 DEF Resume, MissionInv, RecordIsResumable
    <3> QED
      BY <3>1, <3>2, <3>3 DEF Lift, TypeOK, DataOK
  <2> QED
    BY <2>1, <2>2
<1>6. CASE ColdBoot
  <2>1. phase' = PAD
    BY <1>6 DEF ColdBoot, Fresh
  <2>2. phase \in {PAD, LANDED}
    BY <1>6 DEF ColdBoot, InFlightRecord, MissionInv, RecordIsResumable,
       TypeOK, DataOK, Phases
  <2>3. ~InRealFlight
    BY <2>2 DEF InRealFlight, RealFlight, MissionInv, PhaseTellsLatches
  <2> QED
    BY <2>1, <2>3
<1>7. ASSUME Tick \/ (\E f \in AccelSamples : IngestAccel(f)) \/ AbortCommand
             \/ UNCHANGED vars
      PROVE  UNCHANGED <<phase, armsUnlatched, liftDeploy>>
  BY <1>7 DEF Tick, IngestAccel, AbortCommand, vars, flags, modes
<1> QED
  BY <1>1, <1>2, <1>4, <1>5, <1>6, <1>7 DEF Next

\* No command and no mid-air reset sends a real flight back.
THEOREM FlightMovesForward == Spec => ForwardOnly
<1>1. TypeOK /\ MissionInv /\ [Next]_vars
        => [InRealFlight => \/ phase' >= phase
                            \/ phase = STEERING /\ phase' = ARMS_DEPLOY]_vars
  BY Monotone
<1> QED
  BY <1>1, TypeCorrect, Consistent, PTL DEF Spec, ForwardOnly

\* No command and no reset re-latches the arms of a real flight.
THEOREM ArmsNeverRelatch == Spec => ArmsStayUnlatched
<1>1. TypeOK /\ MissionInv /\ [Next]_vars
        => [InRealFlight /\ armsUnlatched => armsUnlatched']_vars
  BY Monotone
<1> QED
  BY <1>1, TypeCorrect, Consistent, PTL DEF Spec, ArmsStayUnlatched

\* The motor inhibit of a lift ride survives everything but a return to the pad.
THEOREM LiftRideStaysInhibited == Spec => LiftInhibitKept
<1>1. TypeOK /\ MissionInv /\ [Next]_vars
        => [Lift /\ phase # PAD /\ liftDeploy' = 0 => phase' = PAD]_vars
  BY Monotone
<1> QED
  BY <1>1, TypeCorrect, Consistent, PTL DEF Spec, LiftInhibitKept

(***************************************************************************)
(* The refinement                                                          *)
(***************************************************************************)

USE DEF Promise!PAD, Promise!ASCENT, Promise!DESCENT, Promise!ARMS_DEPLOY,
        Promise!STEERING, Promise!LANDED

\* The record as the promise sees it.
Seen(r) == [valid |-> r.valid, phase |-> r.phase, arms |-> r.arms,
            cut |-> r.cutLow, lift |-> r.lift > 0]

\* The record of a power-on is an empty one.
LEMMA SeenEmpty == Seen(NoRecord) = Promise!NoRecord
<1>1. (0 > 0) = FALSE
  OBVIOUS
<1> QED
  BY <1>1 DEF Seen, NoRecord, Promise!NoRecord

\* What a step saves is what the promise saves.
LEMMA SeenSaved ==
  ASSUME persist' = Saved'
  PROVE  Seen(persist)' = Promise!Current'
BY DEF Seen, Saved, Promise!Current, Lift

\* Every step of nav_task is a step of the promise.
LEMMA RefineStep ==
  ASSUME TypeOK, MissionInv, NEW in \in Inputs, Step(in)
  PROVE  Promise!Step
<1>1. age["step"] # 0 /\ Seen(persist)' = Promise!Current'
  BY SeenSaved DEF Step
<1>2. \A p \in Phases : LandOr(p, in) \in {p, LANDED}
  BY <1>1, SettledType
<1>3. UNCHANGED <<liftDeploy, baroSim>>
  BY DEF Step, PadStep, AscentStep, DescentStep, ArmsStep, SteeringStep,
     LandedStep, Airborne, modes
<1>4. UNCHANGED <<Lift, baroSim>>
  BY <1>3 DEF Lift
<1>5. SUFFICES \/ Promise!Remain \/ Promise!Launch \/ Promise!Release
               \/ Promise!Unlatch \/ Promise!Steer \/ Promise!Fly \/ Promise!Land
  BY <1>1, <1>4 DEF Promise!Step, Promise!Progress, Seen
<1>6. CASE PadStep(in)
  BY <1>6 DEF PadStep, Promise!Remain, Promise!Launch
<1>7. CASE AscentStep(in)
  <2>1. LandOr(DESCENT, in) = DESCENT
    BY <1>1, <1>7, FirstLandingTime DEF AscentStep, MissionInv, NotLandingYet
  <2> QED
    BY <1>7, <2>1 DEF AscentStep, Promise!Remain, Promise!Release
<1>8. CASE DescentStep(in)
  BY <1>2, <1>8 DEF DescentStep, Phases, Promise!Remain, Promise!Unlatch,
     Promise!Land
<1>9. CASE ArmsStep(in)
  <2>1. MaySteer(in) => ~motorsCutLow
    BY DEF MaySteer
  <2>2. /\ phase' \in {ARMS_DEPLOY, STEERING, LANDED}
        /\ phase' = STEERING => MaySteer(in)
    BY <1>2, <1>9 DEF ArmsStep, Phases
  <2> QED
    BY <1>9, <2>1, <2>2 DEF ArmsStep, Promise!Remain, Promise!Steer, Promise!Land
<1>10. CASE SteeringStep(in)
  <2>1. phase' \in {STEERING, LANDED}
    BY <1>2, <1>10 DEF SteeringStep, Phases
  <2>2. suspended' \in BOOLEAN
    BY TypeStep DEF TypeOK, FlagsOK
  <2>3. motorsCutLow' \in {motorsCutLow, TRUE}
    <3>1. motorsCutLow \in BOOLEAN /\ motorsCutLow' \in BOOLEAN
      BY TypeStep DEF TypeOK, FlagsOK
    <3>2. motorsCutLow => motorsCutLow'
      BY <1>10 DEF SteeringStep
    <3> QED
      BY <3>1, <3>2
  <2> QED
    BY <1>10, <2>1, <2>2, <2>3 DEF SteeringStep, Promise!Fly
<1>11. CASE LandedStep(in)
  BY <1>11 DEF LandedStep, Promise!Remain
<1> QED
  BY <1>6, <1>7, <1>8, <1>9, <1>10, <1>11 DEF Step

\* The commands are the commands of the promise, refused in the same phases.
LEMMA RefineCommands ==
  ASSUME TypeOK, MissionInv
  PROVE  /\ \A deploy \in LiftDeploys \cup {0} :
              LiftCommand(deploy) => Promise!SelectLift(deploy > 0)
         /\ CalCommand => Promise!Calibrate
         /\ \A enable \in SimRequests :
              SimCommand(enable) => Promise!SelectSim(enable)
         /\ AbortCommand => Promise!Abort
<1>1. flightStarted <=> Promise!Flying
  BY DEF MissionInv, PhaseTellsLatches, Promise!Flying
<1>2. ResetMission => Promise!BackToPad
  BY DEF ResetMission, Fresh, Promise!BackToPad
<1>3. ASSUME NEW deploy \in LiftDeploys \cup {0}, LiftCommand(deploy)
      PROVE  Promise!SelectLift(deploy > 0)
  BY <1>1, <1>2, <1>3 DEF LiftCommand, RealFlight, Lift, Promise!SelectLift
<1>4. CalCommand => Promise!Calibrate
  BY <1>1, <1>2 DEF CalCommand, RealFlight, Lift, Promise!Calibrate
<1>5. ASSUME NEW enable \in SimRequests, SimCommand(enable)
      PROVE  Promise!SelectSim(enable)
  BY <1>1, <1>2, <1>5 DEF SimCommand, Lift, Promise!SelectSim
<1>6. AbortCommand => Promise!Abort
  BY DEF AbortCommand, modes, Lift, Promise!Abort
<1> QED
  BY <1>3, <1>4, <1>5, <1>6

\* The detailed mission implements the promise: every behaviour of nav_task, of
\* the commands and of the resets is one that MissionPromise allows.
THEOREM PromiseKept == Spec => KeepsPromise
<1>1. Init => Promise!Init
  <2> SUFFICES ASSUME Init PROVE Promise!Init
    OBVIOUS
  <2>1. Seen(persist) = Promise!NoRecord
    BY SeenEmpty DEF Init
  <2>2. Lift = FALSE
    BY DEF Init, Lift
  <2> QED
    BY <2>1, <2>2 DEF Init, Seen, Promise!Init
<1>2. TypeOK /\ MissionInv /\ [Next]_vars => [Promise!Next]_(Promise!vars)
  <2> SUFFICES ASSUME TypeOK, MissionInv, [Next]_vars
               PROVE  Promise!Next \/ UNCHANGED Promise!vars
    OBVIOUS
  <2>1. ASSUME Tick \/ (\E f \in AccelSamples : IngestAccel(f)) \/ UNCHANGED vars
        PROVE  UNCHANGED Promise!vars
    BY <2>1 DEF Tick, IngestAccel, vars, flags, modes, Lift, Promise!vars
  <2>2. ASSUME NEW in \in Inputs, Step(in) PROVE Promise!Next
    BY <2>2, RefineStep DEF Promise!Next
  <2>3. ASSUME NEW deploy \in LiftDeploys \cup {0}, LiftCommand(deploy)
        PROVE  Promise!Next
    <3>1. (deploy > 0) \in BOOLEAN
      BY InputsAssumption
    <3> QED
      BY <2>3, <3>1, RefineCommands DEF Promise!Next
  <2>4. ASSUME NEW enable \in SimRequests, SimCommand(enable) PROVE Promise!Next
    BY <2>4, RefineCommands, InputsAssumption DEF Promise!Next
  <2>5. ASSUME CalCommand \/ AbortCommand PROVE Promise!Next
    BY <2>5, RefineCommands DEF Promise!Next
  <2>6. ASSUME Resume PROVE Promise!Next
    BY <2>6 DEF Resume, InFlightRecord, Lift, Promise!ResetInFlight,
       Promise!InFlight, Promise!Next
  <2>7. ASSUME ColdBoot PROVE Promise!Next
    <3>1. Seen(persist)' = Promise!NoRecord
      BY <2>7, SeenEmpty DEF ColdBoot, Seen, NoRecord
    <3>2. Lift' = FALSE
      BY <2>7 DEF ColdBoot, Lift
    <3> QED
      BY <2>7, <3>1, <3>2 DEF ColdBoot, Fresh, InFlightRecord, Seen,
         Promise!ResetOnPad, Promise!InFlight, Promise!Next
  <2> QED
    BY <2>1, <2>2, <2>3, <2>4, <2>5, <2>6, <2>7 DEF Next
<1> QED
  BY <1>1, <1>2, TypeCorrect, Consistent, PTL DEF Spec, KeepsPromise, Promise!Spec

\* The motor output of the mission is the motor output of the promise.
THEOREM OutputsOfPromise == Spec => []OutputsAgree
<1>1. MissionInv => OutputsAgree
  BY DEF MissionInv, PhaseTellsLatches, OutputsAgree, MotorsEnabled,
     SteeringActive, Promise!Motors, Promise!Steering
<1> QED
  BY <1>1, Consistent, PTL
-----------------------------------------------------------------------------
(***************************************************************************)
(* Invariants                                                              *)
(***************************************************************************)

\* What the vehicle has done has its type.
HistoryOK == uprightFor \in Nat /\ tumblingFor \in Nat /\ carried \in BOOLEAN

\* The tumble failsafe has not begun before steering; while the motors run, its
\* timer has seen all of the tumble and the tumble is still short; while they
\* are suspended, the recovery it has counted is one that really lasted.
WatchInv ==
  /\ phase \notin {STEERING, LANDED} => timer["tumble"] = 0 /\ ~suspended
  /\ phase = STEERING /\ ~suspended =>
       tumblingFor <= timer["tumble"] /\ timer["tumble"] < TumbleS
  /\ phase = STEERING /\ suspended => timer["recover"] <= uprightFor

\* No trace of a release: no free fall or shock, and no fast sink under way.
Calm == timer["freefall"] = 0 /\ timer["fall"] = 0 /\ age["evidence"] = Never

\* On the pad there is no trace of a release, and a carried flight, whatever
\* resets have interrupted it, is still climbing without one; a record in
\* flight that the pad has not yet overwritten is that of a lift ride.
CarriedInv ==
  /\ ~sim /\ ~baroSim
  /\ phase = PAD => Calm /\ ~armsUnlatched
  /\ phase = PAD /\ InFlightRecord => persist.lift > 0
  /\ carried /\ phase # PAD /\ ~Lift => phase = ASCENT /\ ~armsUnlatched /\ Calm

\* On a pad whose altitude is known, the last barometer sample has dropped a
\* boost candidate that was older than the confirmation window.
CandidateInv ==
  phase = PAD /\ padRefInit =>
    /\ age["step"] # Never
    /\ age["cand"] # Never => age["cand"] <= ConfirmS + age["step"]

(***************************************************************************)
(* The history variables                                                   *)
(***************************************************************************)

\* Forgetting the history, every step is a step of the mission.
LEMMA HistoryOnly ==
  ASSUME [HNext]_hvars
  PROVE  [Next]_vars
BY DEF HNext, HStep, HAccel, HOther, hvars, Next

\* So every behaviour with history is one of the mission.
LEMMA HistoryIsMission == HSpec => Spec
<1>1. HInit => Init
  BY DEF HInit
<1>2. [HNext]_hvars => [Next]_vars
  BY HistoryOnly
<1> QED
  BY <1>1, <1>2, PTL DEF HSpec, Spec

\* A duration that is counted on keeps its type and stays under its cap.
LEMMA LastedType ==
  ASSUME NEW so \in Nat, NEW on, NEW cap \in Nat, StepDt \in Nat
  PROVE  Lasted(so, on, cap) \in Nat
BY DEF Lasted, AtMost

\* Whether a flight has been carried is a truth value.
LEMMA CarriedType ==
  ASSUME NEW shaken
  PROVE  Carried(shaken) \in BOOLEAN
BY Zenon DEF Carried

\* A step counts at least one period, and no more than the longest gap.
LEMMA StepTakesTime ==
  ASSUME TypeOK, NEW in, Step(in)
  PROVE  StepDt \in Nat /\ StepDt >= 1
<1>1. age["step"] # 0
  BY DEF Step
<1> QED
  BY <1>1, StepDtType, TimesAssumption

\* Every action keeps the types of the history.
LEMMA HistoryNext ==
  ASSUME TypeOK, HistoryOK, [HNext]_hvars
  PROVE  HistoryOK'
<1>1. ASSUME NEW in \in Inputs, HStep(in) PROVE HistoryOK'
  <2>1. StepDt \in Nat
    BY <1>1, StepTakesTime DEF HStep
  <2>2. uprightFor' \in Nat /\ tumblingFor' \in Nat
    BY <1>1, <2>1, LastedType, TimesAssumption DEF HStep, HistoryOK
  <2>3. carried' \in BOOLEAN
    BY <1>1, CarriedType DEF HStep
  <2> QED
    BY <2>2, <2>3 DEF HistoryOK
<1>2. ASSUME NEW f \in AccelSamples, HAccel(f) PROVE HistoryOK'
  <2>1. carried' \in BOOLEAN
    BY <1>2, CarriedType DEF HAccel
  <2> QED
    BY <1>2, <2>1 DEF HAccel, HistoryOK
<1>3. CASE HOther
  <2>1. carried' \in BOOLEAN
    BY <1>3, CarriedType DEF HOther
  <2> QED
    BY <1>3, <2>1 DEF HOther, HistoryOK
<1>4. CASE UNCHANGED hvars
  BY <1>4 DEF hvars, history, HistoryOK
<1> QED
  BY <1>1, <1>2, <1>3, <1>4 DEF HNext

\* In every behaviour with history, mission and history are well typed and the
\* mission keeps its invariant.
LEMMA HistoryCorrect == HSpec => [](TypeOK /\ MissionInv /\ HistoryOK)
<1>1. HInit => HistoryOK
  BY DEF HInit, HistoryOK
<1>2. TypeOK /\ HistoryOK /\ [HNext]_hvars => HistoryOK'
  BY HistoryNext
<1> QED
  BY <1>1, <1>2, HistoryIsMission, TypeCorrect, Consistent, PTL DEF HSpec

(***************************************************************************)
(* The tumble failsafe                                                     *)
(***************************************************************************)

\* While the motors run, the failsafe sees all of the tumble: suspended in the
\* sample in which it has lasted, with the recovery timer restarted.
LEMMA WatchSeesTumble ==
  ASSUME TypeOK, HistoryOK, NEW in \in Inputs, StepDt \in Nat,
         tumblingFor <= timer["tumble"], Watch(in),
         tumblingFor' = Lasted(tumblingFor, Tumbling(in.att), TumbleS)
  PROVE  /\ ~suspended' => tumblingFor' <= timer'["tumble"] /\ timer'["tumble"] < TumbleS
         /\ suspended' => timer'["recover"] = 0
<1> DEFINE tumbled == Timer("tumble", Tumbling(in.att), StepDt, TumbleS)
<1>1. /\ timer["tumble"] \in Nat /\ tumblingFor \in Nat /\ TumbleS \in Nat
      /\ timer \in [Timers -> Nat] /\ "tumble" \in Timers /\ "recover" \in Timers
  BY TimesAssumption DEF TypeOK, TimersOK, Timers, HistoryOK
<1>2. tumbled \in Nat /\ tumblingFor' <= tumbled
  BY <1>1 DEF Timer, Lasted, AtMost
<1>3. timer'["tumble"] = tumbled /\ (suspended' => timer'["recover"] = 0)
  BY <1>1 DEF Watch
<1>4. suspended' <=> tumbled >= TumbleS
  BY DEF Watch
<1> QED
  BY <1>1, <1>2, <1>3, <1>4

\* While they are suspended, the recovery that is counted really lasted, and
\* the motors come back only at its end, with no tumble behind them.
LEMMA RecoverSeesUpright ==
  ASSUME TypeOK, HistoryOK, NEW in \in Inputs, StepDt \in Nat,
         timer["recover"] <= uprightFor, Recover(in),
         uprightFor' = Lasted(uprightFor, Recovered(in.att), RecoverS),
         tumblingFor' = Lasted(tumblingFor, Tumbling(in.att), TumbleS)
  PROVE  /\ suspended' => timer'["recover"] <= uprightFor'
         /\ ~suspended' => /\ uprightFor' >= RecoverS
                           /\ tumblingFor' = 0 /\ timer'["tumble"] = 0
<1> DEFINE recovered == Timer("recover", Recovered(in.att), StepDt, RecoverS)
<1>1. /\ timer["recover"] \in Nat /\ uprightFor \in Nat /\ RecoverS \in Nat \ {0}
      /\ timer \in [Timers -> Nat] /\ "tumble" \in Timers /\ "recover" \in Timers
  BY TimesAssumption DEF TypeOK, TimersOK, Timers, HistoryOK
<1>2. recovered \in Nat /\ recovered <= uprightFor' /\ uprightFor' \in Nat
  BY <1>1 DEF Timer, Lasted, AtMost
<1>3. timer'["recover"] = recovered /\ (~suspended' => timer'["tumble"] = 0)
  BY <1>1 DEF Recover
<1>4. suspended' <=> recovered < RecoverS
  BY DEF Recover
<1>5. recovered >= RecoverS => Recovered(in.att)
  BY <1>1 DEF Timer
<1>6. Recovered(in.att) => ~Tumbling(in.att)
  BY DEF Recovered, Tumbling
<1>7. ~Tumbling(in.att) => tumblingFor' = 0
  BY DEF Lasted
<1> QED
  BY <1>1, <1>2, <1>3, <1>4, <1>5, <1>6, <1>7

\* Every step of nav_task keeps the invariant of the failsafe.
LEMMA WatchStep ==
  ASSUME TypeOK, HistoryOK, WatchInv, NEW in \in Inputs, HStep(in)
  PROVE  WatchInv'
<1>1. /\ Step(in) /\ StepDt \in Nat
      /\ uprightFor' = Lasted(uprightFor, Recovered(in.att), RecoverS)
      /\ tumblingFor' = Lasted(tumblingFor, Tumbling(in.att), TumbleS)
  BY StepTakesTime DEF HStep
<1>2. \A p \in Phases : LandOr(p, in) \in {p, LANDED}
  BY <1>1, SettledType DEF Step
<1>3. /\ timer \in [Timers -> Nat] /\ TumbleS \in Nat \ {0} /\ tumblingFor \in Nat
      /\ {"climb", "sink", "fall", "landed", "tumble", "recover"} \subseteq Timers
  BY TimesAssumption DEF TypeOK, TimersOK, Timers, HistoryOK
<1>4. ASSUME phase \notin {STEERING, LANDED}, phase' # STEERING,
             suspended' = suspended, timer'["tumble"] = timer["tumble"]
      PROVE  WatchInv'
  BY <1>4 DEF WatchInv
<1>5. CASE PadStep(in)
  BY <1>3, <1>4, <1>5 DEF PadStep
<1>6. CASE AscentStep(in)
  <2>1. phase' \in {ASCENT, DESCENT, LANDED}
    BY <1>2, <1>6 DEF AscentStep, Phases
  <2> QED
    BY <1>3, <1>4, <1>6, <2>1 DEF AscentStep
<1>7. CASE DescentStep(in)
  <2>1. phase' \in {DESCENT, ARMS_DEPLOY, LANDED}
    BY <1>2, <1>7 DEF DescentStep, Phases
  <2> QED
    BY <1>3, <1>4, <1>7, <2>1 DEF DescentStep
<1>8. CASE ArmsStep(in)
  <2>1. phase' \in {ARMS_DEPLOY, STEERING, LANDED} /\ (phase' = STEERING => MaySteer(in))
    BY <1>2, <1>8 DEF ArmsStep, Phases
  <2>2. timer'["tumble"] = timer["tumble"] /\ ~suspended' /\ timer["tumble"] = 0
    BY <1>3, <1>8 DEF ArmsStep, WatchInv
  <2>3. MaySteer(in) => tumblingFor' = 0
    BY <1>1 DEF MaySteer, Sane, Tumbling, Lasted
  <2> QED
    BY <1>3, <2>1, <2>2, <2>3 DEF WatchInv
<1>9. CASE SteeringStep(in)
  <2>1. phase' \in {STEERING, LANDED}
    BY <1>2, <1>9 DEF SteeringStep, Phases
  <2>2. CASE Watch(in)
    <3>1. tumblingFor <= timer["tumble"]
      BY <1>9, <2>2 DEF SteeringStep, Watch, WatchInv
    <3>2. uprightFor' \in Nat
      BY <1>1, LastedType, TimesAssumption DEF HistoryOK
    <3> QED
      BY <1>1, <2>1, <2>2, <3>1, <3>2, WatchSeesTumble DEF WatchInv
  <2>3. CASE Recover(in)
    <3>1. timer["recover"] <= uprightFor
      BY <1>9, <2>3 DEF SteeringStep, Recover, WatchInv
    <3>2. ~suspended' => tumblingFor' <= timer'["tumble"] /\ timer'["tumble"] < TumbleS
      BY <1>1, <1>3, <2>3, <3>1, RecoverSeesUpright
    <3> QED
      BY <1>1, <2>1, <2>3, <3>1, <3>2, RecoverSeesUpright DEF WatchInv
  <2> QED
    BY <1>9, <2>2, <2>3 DEF SteeringStep
<1>10. CASE LandedStep(in)
  BY <1>10 DEF LandedStep, WatchInv
<1> QED
  BY <1>1, <1>5, <1>6, <1>7, <1>8, <1>9, <1>10 DEF Step

\* Every action keeps the invariant of the failsafe.
LEMMA WatchNext ==
  ASSUME TypeOK, MissionInv, HistoryOK, WatchInv, [HNext]_hvars
  PROVE  WatchInv'
<1>1. ASSUME NEW in \in Inputs, HStep(in) PROVE WatchInv'
  BY <1>1, WatchStep
<1>2. ASSUME NEW f \in AccelSamples, HAccel(f) PROVE WatchInv'
  <2>1. timer'["tumble"] = timer["tumble"] /\ timer'["recover"] = timer["recover"]
    BY <1>2 DEF HAccel, IngestAccel, TypeOK, TimersOK, Timers
  <2> QED
    BY <1>2, <2>1 DEF HAccel, IngestAccel, flags, WatchInv
<1>3. ASSUME Fresh PROVE WatchInv'
  BY <1>3 DEF Fresh, WatchInv, Timers
<1>4. ASSUME UNCHANGED <<phase, suspended, timer, uprightFor, tumblingFor>>
      PROVE  WatchInv'
  BY <1>4 DEF WatchInv
<1>5. CASE HOther
  <2>1. ASSUME \/ \E deploy \in LiftDeploys \cup {0} : LiftCommand(deploy)
               \/ \E enable \in SimRequests : SimCommand(enable)
               \/ CalCommand \/ ColdBoot
        PROVE  WatchInv'
    BY <1>3, <2>1 DEF LiftCommand, SimCommand, CalCommand, ResetMission, ColdBoot
  <2>2. ASSUME Tick \/ AbortCommand PROVE WatchInv'
    BY <1>4, <1>5, <2>2 DEF HOther, Tick, AbortCommand, flags
  <2>3. CASE Resume
    <3>1. phase' \notin {STEERING, LANDED}
      BY <2>3 DEF Resume, InFlightRecord
    <3> QED
      BY <2>3, <3>1 DEF Resume, WatchInv, Timers
  <2> QED
    BY <1>5, <2>1, <2>2, <2>3 DEF HOther
<1>6. CASE UNCHANGED hvars
  BY <1>4, <1>6 DEF hvars, history, vars, flags
<1> QED
  BY <1>1, <1>2, <1>5, <1>6 DEF HNext

\* The failsafe never loses sight of the vehicle, whatever is commanded or reset.
LEMMA WatchCorrect == HSpec => []WatchInv
<1>1. HInit => WatchInv
  BY DEF HInit, Init, WatchInv, Timers
<1>2. TypeOK /\ MissionInv /\ HistoryOK /\ WatchInv /\ [HNext]_hvars => WatchInv'
  BY WatchNext
<1> QED
  BY <1>1, <1>2, HistoryCorrect, PTL DEF HSpec

\* Once every step has seen a tumble for TumbleS, the motors are off, however
\* often they were suspended and resumed before.
THEOREM TumbleStops == HSpec => []TumbleStopsMotors
<1>1. TypeOK /\ HistoryOK /\ WatchInv => TumbleStopsMotors
  BY TimesAssumption DEF TypeOK, TimersOK, Timers, HistoryOK, WatchInv,
     TumbleStopsMotors, MotorsEnabled, SteeringActive
<1> QED
  BY <1>1, HistoryCorrect, WatchCorrect, PTL

\* Motors that were suspended in steering come back only when every step of the
\* last RecoverS has seen the vehicle upright.
THEOREM ResumeIsEarned == HSpec => ResumeNeedsRecovery
<1>1. ASSUME TypeOK, HistoryOK, WatchInv, [HNext]_hvars,
             phase = STEERING, suspended, ~suspended', phase' = STEERING
      PROVE  uprightFor' >= RecoverS
  <2>1. ASSUME NEW in \in Inputs, HStep(in) PROVE uprightFor' >= RecoverS
    <3>1. /\ Step(in) /\ StepDt \in Nat
          /\ uprightFor' = Lasted(uprightFor, Recovered(in.att), RecoverS)
          /\ tumblingFor' = Lasted(tumblingFor, Tumbling(in.att), TumbleS)
      BY <1>1, <2>1, StepTakesTime DEF HStep
    <3>2. Recover(in)
      BY <1>1, <3>1 DEF Step, PadStep, AscentStep, DescentStep, ArmsStep,
         SteeringStep, LandedStep, Watch
    <3>3. timer["recover"] <= uprightFor
      BY <1>1 DEF WatchInv
    <3> QED
      BY <1>1, <3>1, <3>2, <3>3, RecoverSeesUpright
  <2>2. ASSUME NEW f \in AccelSamples, HAccel(f) PROVE FALSE
    BY <1>1, <2>2 DEF HAccel, IngestAccel, flags
  <2>3. CASE HOther
    <3>1. Fresh \/ Resume => phase' # STEERING
      BY DEF Fresh, Resume, InFlightRecord
    <3>2. Tick \/ AbortCommand => suspended' = suspended
      BY DEF Tick, AbortCommand, flags
    <3> QED
      BY <1>1, <2>3, <3>1, <3>2 DEF HOther, LiftCommand, SimCommand, CalCommand,
         ResetMission, ColdBoot
  <2>4. CASE UNCHANGED hvars
    BY <1>1, <2>4 DEF hvars, vars, flags
  <2> QED
    BY <1>1, <2>1, <2>2, <2>3, <2>4 DEF HNext
<1>2. TypeOK /\ HistoryOK /\ WatchInv /\ [HNext]_hvars
        => [phase = STEERING /\ suspended /\ ~suspended' /\ phase' = STEERING
              => uprightFor' >= RecoverS]_hvars
  BY <1>1
<1> QED
  BY <1>2, HistoryCorrect, WatchCorrect, PTL DEF HSpec, ResumeNeedsRecovery

(***************************************************************************)
(* A carried CanSat                                                        *)
(***************************************************************************)

\* No simulated flight: SIM may be switched off but never on (a bench command;
\* a simulated flight that a reset interrupts goes on as a real one).
NoSimulation == SimRequests \subseteq {FALSE}

\* The row thresholds() returns for a real flight asks for release evidence
\* (its needEvidence is !sim_).
FlightNeedsEvidence == Thresholds["flight"].needEvidence

\* A carried flight that does not sink fast is not released.
LEMMA CarriedAscent ==
  ASSUME FlightNeedsEvidence, TypeOK, NEW in \in Inputs, AscentStep(in), StepDt \in Nat,
         Calm, ~Lift, ~sim, ~(in.v <= -FallbackV)
  PROVE  phase' = ASCENT /\ Calm'
<1> DEFINE sunk == Timer("sink", agl' <= hMax' - Th.releaseDrop /\ in.v <= -Th.sinkV,
                         StepDt, Th.sinkS)
           fallen == Timer("fall", agl' <= hMax' - FallbackDrop /\ in.v <= -FallbackV,
                           StepDt, FallbackS)
           released == \/ sunk >= Th.sinkS /\ (Evidence \/ ~Th.needEvidence)
                       \/ fallen >= FallbackS
<1>1. fallen = 0 /\ FallbackS \in Nat \ {0}
  BY TimesAssumption DEF Timer
<1>2. ~Evidence /\ Th.needEvidence
  BY DEF Evidence, Calm, Th, Profile, FlightNeedsEvidence
<1>3. ~released
  BY <1>1, <1>2
<1>4. /\ phase' = ASCENT /\ Stepped({})
      /\ timer' = [timer EXCEPT !["sink"] = sunk, !["fall"] = fallen]
  BY <1>3 DEF AscentStep
<1>5. age'["evidence"] = Never
  BY <1>4 DEF Stepped, Calm, Stamps
<1>6. timer'["fall"] = 0 /\ timer'["freefall"] = 0
  BY <1>1, <1>4 DEF Calm, TypeOK, TimersOK, Timers
<1> QED
  BY <1>4, <1>5, <1>6 DEF Calm

\* Every step of nav_task keeps a carried CanSat closed.
LEMMA CarriedStep ==
  ASSUME FlightNeedsEvidence, TypeOK, MissionInv, CarriedInv,
         NEW in \in Inputs, HStep(in)
  PROVE  CarriedInv'
<1>1. /\ Step(in) /\ StepDt \in Nat /\ persist' = Saved'
      /\ carried' = Carried(in.v <= -FallbackV)
  BY StepTakesTime DEF HStep, Step
<1>2. UNCHANGED <<sim, baroSim, liftDeploy>>
  BY <1>1 DEF Step, PadStep, AscentStep, DescentStep, ArmsStep, SteeringStep,
     LandedStep, Airborne, modes
<1>3. phase' = PAD => ~InFlightRecord'
  BY <1>1 DEF Saved, InFlightRecord
<1>4. CASE PadStep(in)
  <2>1. phase' \in {PAD, ASCENT} /\ armsUnlatched' = armsUnlatched
    BY <1>4 DEF PadStep
  <2>2. timer'["freefall"] = timer["freefall"] /\ timer'["fall"] = timer["fall"]
    BY <1>4 DEF PadStep, TypeOK, TimersOK, Timers
  <2>3. age'["evidence"] = age["evidence"]
    BY <1>4 DEF PadStep, TypeOK, TimersOK, Stamps
  <2>4. Calm' /\ ~armsUnlatched'
    BY <1>4, <2>1, <2>2, <2>3 DEF PadStep, CarriedInv, Calm
  <2> QED
    BY <1>2, <1>3, <2>1, <2>4 DEF CarriedInv
<1>5. CASE ~PadStep(in)
  <2>1. /\ phase # PAD /\ phase' # PAD /\ flightStarted' = flightStarted
    <3>1. \A p \in Phases : LandOr(p, in) \in {p, LANDED}
      BY <1>1, SettledType DEF Step
    <3> QED
      BY <1>1, <1>5, <3>1 DEF Step, AscentStep, DescentStep, ArmsStep,
         SteeringStep, LandedStep, Airborne, Phases
  <2>2. carried' => carried /\ ~(in.v <= -FallbackV)
    BY <1>1, <2>1 DEF Carried, MissionInv, PhaseTellsLatches
  <2>3. ASSUME carried', ~Lift' PROVE phase' = ASCENT /\ ~armsUnlatched' /\ Calm'
    <3>1. ~Lift /\ ~sim /\ phase = ASCENT /\ ~armsUnlatched /\ Calm
      BY <1>2, <2>1, <2>2, <2>3 DEF CarriedInv, Lift
    <3>2. AscentStep(in)
      BY <1>1, <3>1 DEF Step, PadStep, AscentStep, DescentStep, ArmsStep,
         SteeringStep, LandedStep
    <3> QED
      BY <1>1, <2>2, <2>3, <3>1, <3>2, CarriedAscent DEF AscentStep
  <2> QED
    BY <1>2, <2>1, <2>3 DEF CarriedInv
<1> QED
  BY <1>4, <1>5

\* Every action keeps it closed: without a shock or a free fall no sample of the
\* accelerometer is evidence, and a reset resumes the climb it interrupted.
LEMMA CarriedNext ==
  ASSUME NoSimulation, FlightNeedsEvidence, TypeOK, MissionInv, HistoryOK,
         CarriedInv, [HNext]_hvars
  PROVE  CarriedInv'
<1>1. ASSUME NEW in \in Inputs, HStep(in) PROVE CarriedInv'
  BY <1>1, CarriedStep
<1>2. ASSUME UNCHANGED <<phase, flightStarted, armsUnlatched, sim, baroSim,
                         liftDeploy, persist>>,
             Calm /\ (flightStarted => carried') => Calm',
             flightStarted /\ carried' => carried
      PROVE  CarriedInv'
  BY <1>2 DEF CarriedInv, Lift, InFlightRecord, MissionInv, PhaseTellsLatches
<1>3. ASSUME NEW f \in AccelSamples, HAccel(f) PROVE CarriedInv'
  <2>1. /\ UNCHANGED <<phase, flightStarted, armsUnlatched, sim, baroSim,
                       liftDeploy, persist>>
        /\ flightStarted /\ carried' => carried /\ f \notin {"boost", "freefall"}
    BY <1>3 DEF HAccel, IngestAccel, flags, modes, Carried
  <2>2. ASSUME Calm, flightStarted => carried' PROVE Calm'
    <3>1. flightStarted => f # "freefall" /\ f # "boost"
      BY <2>1, <2>2
    <3>2. timer'["fall"] = 0
      BY <1>3, <2>2 DEF HAccel, IngestAccel, Calm, TypeOK, TimersOK, Timers
    <3>3. timer'["freefall"] = 0
      BY <1>3, <2>2, <3>1
         DEF HAccel, IngestAccel, Calm, TypeOK, TimersOK, Timers, Timer
    <3>4. age'["evidence"] = Never
      BY <1>3, <2>2, <3>1, TimesAssumption
         DEF HAccel, IngestAccel, Calm, TypeOK, TimersOK, Stamps, Timer
    <3> QED
      BY <3>2, <3>3, <3>4 DEF Calm
  <2> QED
    BY <1>2, <2>1, <2>2
<1>4. ASSUME Fresh, age'["evidence"] = Never PROVE phase' = PAD /\ Calm' /\ ~armsUnlatched'
  BY <1>4 DEF Fresh, Calm, Timers
<1>5. ASSUME \/ \E deploy \in LiftDeploys \cup {0} : LiftCommand(deploy)
             \/ \E enable \in SimRequests : SimCommand(enable)
             \/ CalCommand
      PROVE  CarriedInv'
  <2>1. ResetMission /\ ~sim' /\ ~baroSim'
    <3>1. ASSUME NEW enable \in SimRequests, SimCommand(enable)
          PROVE  ResetMission /\ ~sim' /\ ~baroSim'
      BY <3>1 DEF SimCommand, NoSimulation
    <3>2. ASSUME NEW deploy, LiftCommand(deploy)
          PROVE  ResetMission /\ ~sim' /\ ~baroSim'
      BY <3>2 DEF LiftCommand, CarriedInv
    <3>3. CalCommand => ResetMission /\ ~sim' /\ ~baroSim'
      BY DEF CalCommand, CarriedInv
    <3> QED
      BY <1>5, <3>1, <3>2, <3>3
  <2>2. phase' = PAD /\ Calm' /\ ~armsUnlatched' /\ persist' = persist
    BY <1>4, <2>1 DEF ResetMission, Stamps
  <2>3. phase # PAD => Lift
    BY <1>5 DEF LiftCommand, SimCommand, CalCommand, RealFlight, CarriedInv,
       MissionInv, PhaseTellsLatches
  <2>4. InFlightRecord => persist.lift > 0
    BY <2>3 DEF CarriedInv, Lift, MissionInv, RecordIsResumable
  <2> QED
    BY <2>1, <2>2, <2>4 DEF CarriedInv, InFlightRecord
<1>6. CASE HOther
  <2>1. flightStarted' => (carried' <=> carried)
    BY <1>6 DEF HOther, Carried, HistoryOK
  <2>2. CASE Tick
    <3>1. Calm => Calm'
      BY <2>2 DEF Tick, Calm, Stamps
    <3> QED
      BY <1>2, <2>1, <2>2, <3>1 DEF Tick, flags, modes
  <2>3. CASE AbortCommand
    BY <1>2, <2>1, <2>3 DEF AbortCommand, modes, Calm
  <2>4. CASE ColdBoot
    BY <1>4, <2>4 DEF ColdBoot, Stamps, CarriedInv, NoRecord, InFlightRecord
  <2>5. CASE Resume
    <3>1. ~sim' /\ ~baroSim' /\ phase' # PAD /\ Calm'
      BY <2>5 DEF Resume, InFlightRecord, Calm, Timers, Stamps
    <3>2. ASSUME carried', ~Lift' PROVE phase' = ASCENT /\ ~armsUnlatched'
      <4>1. carried /\ ~(persist.lift > 0)
        BY <2>1, <2>5, <3>2 DEF Resume, Lift
      <4>2. phase # PAD
        BY <2>5, <4>1 DEF CarriedInv, Resume
      <4>3. phase = ASCENT /\ ~armsUnlatched
        BY <4>1, <4>2 DEF CarriedInv, MissionInv, RecordIsResumable, Lift
      <4> QED
        BY <2>5, <4>3 DEF Resume, MissionInv, RecordIsResumable
    <3> QED
      BY <3>1, <3>2 DEF CarriedInv
  <2> QED
    BY <1>5, <1>6, <2>2, <2>3, <2>4, <2>5 DEF HOther
<1>7. CASE UNCHANGED hvars
  BY <1>2, <1>7 DEF hvars, history, vars, flags, modes, Calm
<1> QED
  BY <1>1, <1>3, <1>6, <1>7 DEF HNext

\* Without a shock, a free fall or a fast sink since a real flight began, nothing
\* is released and the arms stay latched, whatever resets interrupt the climb.
THEOREM CarriedStaysClosed ==
  ASSUME NoSimulation, FlightNeedsEvidence
  PROVE  HSpec => []CarrierKeepsCanSat
<1>1. HInit => CarriedInv
  BY DEF HInit, Init, CarriedInv, Calm, Timers, Stamps, NoRecord, InFlightRecord
<1>2. TypeOK /\ MissionInv /\ HistoryOK /\ CarriedInv /\ [HNext]_hvars => CarriedInv'
  BY CarriedNext
<1>3. MissionInv /\ CarriedInv => CarrierKeepsCanSat
  BY DEF MissionInv, PhaseTellsLatches, CarriedInv, CarrierKeepsCanSat
<1> QED
  BY <1>1, <1>2, <1>3, HistoryCorrect, PTL DEF HSpec

(***************************************************************************)
(* The launch is confirmed in its window                                   *)
(***************************************************************************)

\* A launch has to be confirmed by a gain of altitude at all.
GainPositive == ConfirmGain > 0

\* A sample on the pad drops a candidate whose window is over, unless it is the
\* sample that confirms it.
LEMMA CandidatePadStep ==
  ASSUME TypeOK, NEW in \in Inputs, PadStep(in), phase' = PAD
  PROVE  age'["step"] = 0 /\ (age'["cand"] # Never => age'["cand"] <= ConfirmS)
<1> DEFINE climbed == Timer("climb", agl' >= Th.launchGain /\ in.v >= Th.climbV,
                            StepDt, Th.climbS)
           boosted == age["cand"] # Never /\ agl' >= ConfirmGain
           bump    == ~boosted /\ WindowOver
           launched == boosted \/ climbed >= Th.climbS
<1>1. /\ age \in [Stamps -> {Never} \cup 0 .. AgeCap] /\ ConfirmS \in Nat
      /\ {"step", "cand", "launch"} \subseteq Stamps
  BY TimesAssumption DEF TypeOK, TimersOK, Stamps
<1>2. /\ age' = [age EXCEPT !["step"] = 0,
                            !["cand"] = IF bump THEN Never ELSE @,
                            !["launch"] = IF launched THEN 0 ELSE @]
      /\ ~launched
  BY DEF PadStep
<1>3. age'["step"] = 0 /\ age'["cand"] = IF bump THEN Never ELSE age["cand"]
  BY <1>1, <1>2
<1>4. WindowOver \/ age["cand"] = Never \/ age["cand"] <= ConfirmS
  BY <1>1 DEF WindowOver, Since, Never
<1>5. ~boosted
  BY <1>2
<1> QED
  BY <1>3, <1>4, <1>5

\* A launch that the climb rule does not explain has a candidate, on a pad whose
\* altitude was known before.
LEMMA LaunchIsBoosted ==
  ASSUME GainPositive, TypeOK, age["step"] # 0, NEW in \in Inputs, PadStep(in),
         phase' = ASCENT, timer'["climb"] < Th.climbS
  PROVE  padRefInit /\ age["cand"] # Never
<1> DEFINE climbed == Timer("climb", agl' >= Th.launchGain /\ in.v >= Th.climbV,
                            StepDt, Th.climbS)
           boosted == age["cand"] # Never /\ agl' >= ConfirmGain
           launched == boosted \/ climbed >= Th.climbS
<1>1. timer' = [timer EXCEPT !["climb"] = climbed] /\ launched
  BY DEF PadStep
<1>2. timer'["climb"] = climbed
  BY <1>1 DEF TypeOK, TimersOK, Timers
<1>3. climbed \in Nat /\ Th.climbS \in Nat
  <2>1. StepDt \in Nat
    BY StepDtType, TimesAssumption
  <2>2. Th.climbS \in Nat
    BY RowType DEF Rows
  <2> QED
    BY <2>1, <2>2, TimerType DEF Timers
<1>4. boosted
  BY <1>1, <1>2, <1>3
<1>5. ~padRefInit => agl' = 0
  <2> SUFFICES ASSUME ~padRefInit PROVE agl' = 0
    OBVIOUS
  <2>1. in.h \in Int
    BY InputsAssumption DEF Inputs
  <2>2. \A h, r \in Int : ~(Abs(h - r) < Abs(h - h))
    BY DEF Abs
  <2>3. PadRefs(in) \subseteq {in.h}
    BY <2>1, <2>2 DEF PadRefs
  <2> QED
    BY <2>1, <2>3 DEF PadStep
<1>6. ~(0 >= ConfirmGain)
  BY TimesAssumption DEF GainPositive
<1> QED
  BY <1>4, <1>5, <1>6

\* Every action keeps the candidate inside its window.
LEMMA CandidateNext ==
  ASSUME TypeOK, CandidateInv, [Next]_vars
  PROVE  CandidateInv'
<1>1. /\ age \in [Stamps -> {Never} \cup 0 .. AgeCap] /\ ConfirmS \in Nat
      /\ {"step", "cand", "accel", "evidence"} \subseteq Stamps /\ AgeCap \in Nat
  BY TimesAssumption DEF TypeOK, TimersOK, Stamps
<1>2. ASSUME phase' # PAD \/ ~padRefInit' PROVE CandidateInv'
  BY <1>2 DEF CandidateInv
<1>3. CASE Tick
  <2>1. \A k \in {"step", "cand"} :
          age'[k] = IF age[k] = Never THEN Never ELSE AtMost(age[k] + 1, AgeCap)
    BY <1>3, <1>1 DEF Tick
  <2>2. \A c, s \in 0 .. AgeCap :
          c <= ConfirmS + s => AtMost(c + 1, AgeCap) <= ConfirmS + AtMost(s + 1, AgeCap)
    BY <1>1 DEF AtMost
  <2>3. \A c \in 0 .. AgeCap : AtMost(c + 1, AgeCap) # Never
    BY <1>1 DEF AtMost, Never
  <2>4. phase' = phase /\ padRefInit' = padRefInit
    BY <1>3 DEF Tick, pad
  <2> QED
    BY <1>1, <2>1, <2>2, <2>3, <2>4 DEF CandidateInv
<1>4. ASSUME NEW f \in AccelSamples, IngestAccel(f) PROVE CandidateInv'
  <2>1. age'["step"] = age["step"] /\ age'["cand"] \in {0, age["cand"]}
    BY <1>1, <1>4 DEF IngestAccel
  <2>2. phase' = phase /\ padRefInit' = padRefInit
    BY <1>4 DEF IngestAccel, pad
  <2> QED
    BY <1>1, <2>1, <2>2 DEF CandidateInv, Never
<1>5. ASSUME NEW in \in Inputs, Step(in) PROVE CandidateInv'
  <2>1. CASE PadStep(in)
    BY <1>1, <2>1, CandidatePadStep DEF CandidateInv, Never
  <2>2. CASE ~PadStep(in)
    <3>1. \A p \in Phases : LandOr(p, in) \in {p, LANDED}
      BY <1>5, SettledType DEF Step
    <3> QED
      BY <1>2, <1>5, <2>2, <3>1 DEF Step, AscentStep, DescentStep, ArmsStep,
         SteeringStep, LandedStep, Phases
  <2> QED
    BY <2>1, <2>2
<1>6. Fresh \/ Resume => phase' # PAD \/ ~padRefInit'
  BY DEF Fresh, Resume, InFlightRecord
<1>7. ASSUME AbortCommand \/ UNCHANGED vars PROVE CandidateInv'
  BY <1>7 DEF AbortCommand, vars, pad, CandidateInv
<1> QED
  BY <1>2, <1>3, <1>4, <1>5, <1>6, <1>7
     DEF Next, LiftCommand, SimCommand, CalCommand, ResetMission, ColdBoot

\* A launch that the climb rule does not explain has a boost candidate that was
\* inside the confirmation window at the last barometer sample.
THEOREM LaunchInWindow ==
  ASSUME GainPositive
  PROVE  Spec => ConfirmedInTime
<1>1. Init => CandidateInv
  BY DEF Init, CandidateInv
<1>2. TypeOK /\ CandidateInv /\ [Next]_vars => CandidateInv'
  BY CandidateNext
<1>3. ASSUME TypeOK, CandidateInv, [Next]_vars, Launches, timer'["climb"] < Th.climbS
      PROVE  age["cand"] <= ConfirmS + age["step"]
  <2>1. PICK in \in Inputs : age["step"] # 0 /\ PadStep(in)
    <3>1. ~(Fresh \/ Resume)
      BY <1>3, TimesAssumption DEF Launches, Fresh, Resume, Stamps
    <3>2. ~(Tick \/ AbortCommand \/ UNCHANGED vars)
      BY <1>3 DEF Launches, Tick, AbortCommand, vars
    <3>3. ~(\E f \in AccelSamples : IngestAccel(f))
      BY <1>3 DEF Launches, IngestAccel
    <3> QED
      BY <1>3, <3>1, <3>2, <3>3 DEF Launches, Next, LiftCommand, SimCommand,
         CalCommand, ResetMission, ColdBoot, Step, AscentStep, DescentStep,
         ArmsStep, SteeringStep, LandedStep
  <2> QED
    BY <1>3, <2>1, LaunchIsBoosted DEF Launches, CandidateInv
<1>4. TypeOK /\ CandidateInv /\ [Next]_vars
        => [Launches /\ timer'["climb"] < Th.climbS
              => age["cand"] <= ConfirmS + age["step"]]_vars
  BY <1>3
<1> QED
  BY <1>1, <1>2, <1>4, TypeCorrect, PTL DEF Spec, ConfirmedInTime
=============================================================================
