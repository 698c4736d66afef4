------------------------- MODULE MissionSupervisor -------------------------
(***************************************************************************)
(* The mission state machine of components/nav/include/nav/mission.hpp     *)
(* (class MissionSupervisor), driven as nav_task of main/main.cpp          *)
(* drives it: every IMU sample is ingested, every barometer sample runs    *)
(* step(), and the record a mid-air reset resumes from is saved after      *)
(* every step.                                                             *)
(*                                                                         *)
(* One Tick is one 10 ms iteration of nav_task.  Heights and speeds are    *)
(* integers in an arbitrary unit; accelerations and attitudes are reduced  *)
(* to the classes that the comparisons of the code tell apart.             *)
(***************************************************************************)
EXTENDS Integers

CONSTANTS
  Heights,        \* filtered altitudes the vertical filter may report
  PadHeights,     \* ... and at the first sample of a mission (baro is zeroed)
  Speeds,         \* filtered vertical speeds, up positive
  AccelSamples,   \* classes of specific force the IMU may report
  LiftDeploys,    \* deploy altitudes the LIFT command may select (all > 0)
  SimRequests,    \* what the SIM command may ask for, a subset of BOOLEAN
  Thresholds,     \* the table thresholds() returns, one row per profile
  LaunchAccelS,   \* boost must last this long to become a launch candidate
  ConfirmGain,    \* altitude gain that confirms a launch candidate
  ConfirmS,       \* ... within this time
  FreefallS,      \* free fall must last this long to be release evidence
  ShockBlackoutS, \* a shock this soon after launch is still the boost
  EvidenceS,      \* release evidence must be this recent
  FallbackDrop,   \* release without evidence: this far below the peak,
  FallbackV,      \* ... sinking at least this fast,
  FallbackS,      \* ... for this long
  AfterReleaseS,  \* arms stay latched this long after the release
  OpenS,          \* time the arms take to swing out
  TumbleS,        \* a tumble this long suspends the motors
  RecoverS,       \* an upright attitude this long resumes them
  PadStillV, PadStillH,       \* pad drift is followed inside these limits
  AccelGapMax, StepGapMax,    \* sample gaps longer than this are not time
  AgeCap          \* ages saturate here, above every age threshold

(***************************************************************************)
(* Values                                                                  *)
(***************************************************************************)
PAD         == 0
ASCENT      == 1
DESCENT     == 2
ARMS_DEPLOY == 3
STEERING    == 4
LANDED      == 5
Phases      == PAD .. LANDED

Profiles == {"flight", "sim", "lift"}

\* |f| >= 3 g, |f| below the free-fall limit, anything between
Accels == {"boost", "calm", "freefall"}

\* Every combination of the three tests step() makes on tilt, rate and
\* attitude_ok: "level" and "slanted" may start the motors, "level" and
\* "spinning" count as recovered, "tumbling" is tilt > 65 or no attitude.
Attitudes == {"level", "spinning", "slanted", "leaning", "tumbling"}

Inputs == [h : Heights, v : Speeds, att : Attitudes]

Timers == {"accelHi", "climb", "sink", "fall", "freefall", "tumble",
           "recover", "landed"}
Stamps == {"cand", "evidence", "launch", "release", "arms", "accel", "step"}
Never  == -1

ASSUME InputsAssumption ==
  /\ PadHeights \subseteq Heights /\ Heights \subseteq Int /\ Speeds \subseteq Int
  /\ AccelSamples \subseteq Accels
  /\ LiftDeploys \subseteq Nat \ {0} /\ SimRequests \subseteq BOOLEAN

Rows == [launchGain : Int, climbV : Int, climbS : Nat \ {0},
         releaseDrop : Int, sinkV : Int, sinkS : Nat \ {0},
         needEvidence : BOOLEAN, deploy : Int, cutoff : Int, steerMargin : Nat,
         landedAlt : Int, landedV : Int, landedS : Nat \ {0}]
ASSUME ThresholdsAssumption ==
  /\ Thresholds \in [Profiles -> Rows]
  /\ \A p \in Profiles : Thresholds[p].landedS > StepGapMax

ASSUME TimesAssumption ==
  /\ {LaunchAccelS, FreefallS, FallbackS, TumbleS, RecoverS} \subseteq Nat \ {0}
  /\ {ConfirmS, ShockBlackoutS, EvidenceS, AfterReleaseS, OpenS} \subseteq Nat
  /\ {ConfirmGain, FallbackDrop, FallbackV, PadStillV, PadStillH} \subseteq Int
  /\ {AccelGapMax, StepGapMax} \subseteq Nat \ {0}
  /\ AgeCap \in Nat
  /\ \A s \in {ConfirmS, ShockBlackoutS, EvidenceS, AfterReleaseS, OpenS,
               AccelGapMax, StepGapMax} : s < AgeCap

VARIABLES
  phase,          \* phase_
  flightStarted,  \* flight_started_
  armsUnlatched,  \* arms_unlatched_
  motorsCutLow,   \* motors_cut_low_
  suspended,      \* suspended_
  aborted,        \* aborted_
  sim,            \* sim_
  liftDeploy,     \* lift_deploy_, 0 when no lift test is selected
  padRefInit,     \* pad_ref_init_
  padRef,         \* pad_ref_
  hMax,           \* h_max_
  agl,            \* altitude above the pad at the last step (Outputs::agl_m)
  timer,          \* the *_s_ accumulators
  age,            \* time since the t_* stamps, and since the last samples
  baroSim,        \* BMP585 driver: simulated pressure selected
  persist         \* g_persist (RTC no-init RAM), valid when sealed

flags == <<flightStarted, armsUnlatched, motorsCutLow, suspended, aborted>>
modes == <<sim, liftDeploy, baroSim>>
pad   == <<padRefInit, padRef>>
vars  == <<phase, flags, modes, pad, hMax, agl, timer, age, persist>>

(***************************************************************************)
(* Helpers                                                                 *)
(***************************************************************************)
AtMost(n, cap) == IF n > cap THEN cap ELSE n
AtLeast(n, m)  == IF n < m THEN m ELSE n
Abs(n)         == IF n < 0 THEN -n ELSE n

Lift    == liftDeploy > 0
Profile == IF Lift THEN "lift" ELSE IF sim THEN "sim" ELSE "flight"
Th      == Thresholds[Profile]
Deploy  == IF Lift THEN liftDeploy ELSE Th.deploy

\* An accumulator that restarts when its condition fails.  It is only ever
\* compared with >= limit, so it may stop counting there.
Timer(k, on, dt, limit) == IF on THEN AtMost(timer[k] + dt, limit) ELSE 0

\* step() counts a gap of more than a second, and its first sample, as one
\* nominal period; ingest_accel() skips a sample after more than half a second.
StepDtUnset == IF age["step"] > StepGapMax THEN 1 ELSE age["step"]   \* mutant
StepDt  == IF age["step"] = Never \/ age["step"] > StepGapMax THEN 1
           ELSE age["step"]
AccelDt == IF age["accel"] = Never THEN 1 ELSE age["accel"]

Since(k, s) == age[k] # Never /\ age[k] >= s

Sane(att)      == att \in {"level", "slanted"}
Recovered(att) == att \in {"level", "spinning"}
Tumbling(att)  == att = "tumbling"

\* Outputs of step(), as functions of the state it leaves
SteeringActive == phase = STEERING /\ ~motorsCutLow /\ ~aborted
MotorsEnabled  == SteeringActive /\ ~suspended /\ ~Lift

SavedButArms == [valid |-> TRUE, phase |-> phase, arms |-> FALSE,   \* mutant
  cutLow |-> motorsCutLow, padRef |-> padRef, hMax |-> hMax, lift |-> liftDeploy]
Saved == [valid |-> TRUE, phase |-> phase, arms |-> armsUnlatched,
          cutLow |-> motorsCutLow, padRef |-> padRef, hMax |-> hMax,
          lift |-> liftDeploy]
NoRecord == [valid |-> FALSE, phase |-> PAD, arms |-> FALSE, cutLow |-> FALSE,
             padRef |-> 0, hMax |-> 0, lift |-> 0]

(***************************************************************************)
(* Initial state: a power-on, which also clears the reset record           *)
(***************************************************************************)
Init ==
  /\ phase = PAD
  /\ flightStarted = FALSE /\ armsUnlatched = FALSE /\ motorsCutLow = FALSE
  /\ suspended = FALSE /\ aborted = FALSE
  /\ sim = FALSE /\ liftDeploy = 0 /\ baroSim = FALSE
  /\ padRefInit = FALSE /\ padRef = 0 /\ hMax = 0 /\ agl = 0
  /\ timer = [k \in Timers |-> 0]
  /\ age = [k \in Stamps |-> Never]
  /\ persist = NoRecord

(***************************************************************************)
(* Time passes: one iteration of nav_task                                  *)
(***************************************************************************)
Tick ==
  /\ age' = [k \in Stamps |->
               IF age[k] = Never THEN Never ELSE AtMost(age[k] + 1, AgeCap)]
  /\ UNCHANGED <<phase, flags, modes, pad, hMax, agl, timer, persist>>

(***************************************************************************)
(* ingest_accel                                                            *)
(***************************************************************************)
IngestAccel(f) ==
  /\ age["accel"] # 0
  /\ LET counted == AccelDt <= AccelGapMax
         onPad   == counted /\ phase = PAD /\ ~Lift
         flying  == counted /\ flightStarted
         boost   == IF onPad THEN Timer("accelHi", f = "boost", AccelDt, LaunchAccelS)
                    ELSE timer["accelHi"]
         fell    == IF flying THEN Timer("freefall", f = "freefall", AccelDt, FreefallS)
                    ELSE timer["freefall"]
         shock   == f = "boost" /\ Since("launch", ShockBlackoutS + 1)
     IN /\ timer' = [timer EXCEPT !["accelHi"] = boost, !["freefall"] = fell]
        /\ age' = [age EXCEPT
             !["accel"] = 0,
             !["cand"] = IF onPad /\ boost >= LaunchAccelS /\ @ = Never THEN 0 ELSE @,
             !["evidence"] = IF flying /\ (fell >= FreefallS \/ shock) THEN 0 ELSE @]
  /\ UNCHANGED <<phase, flags, modes, pad, hMax, agl, persist>>

(***************************************************************************)
(* step(), one action per phase it is called in.  nav_task saves and seals *)
(* the reset record in the same critical section, so the record always     *)
(* holds the state the step leaves.                                        *)
(***************************************************************************)
Stepped(stamped) ==
  age' = [k \in Stamps |-> IF k \in stamped \cup {"step"} THEN 0 ELSE age[k]]

\* The pad reference creeps towards the sample while the vehicle sits still
PadRefs(in) ==
  LET ref == IF padRefInit THEN padRef ELSE in.h
  IN IF Abs(in.v) < PadStillV /\ Abs(in.h - ref) < PadStillH
     THEN {ref} \cup {r \in {ref - 1, ref + 1} : Abs(in.h - r) < Abs(in.h - ref)}
     ELSE {ref}

\* A boost that brings no altitude within the window was a bump
WindowNeverOver == FALSE   \* mutant: a candidate is kept for good
WindowOver == Since("cand", ConfirmS + 1)

PadStep(in) ==
  /\ phase = PAD
  /\ padRefInit \/ in.h \in PadHeights
  /\ padRefInit' = TRUE
  /\ padRef' \in PadRefs(in)
  /\ agl' = in.h - padRef'
  /\ LET climbed == Timer("climb", agl' >= Th.launchGain /\ in.v >= Th.climbV,
                          StepDt, Th.climbS)
         boosted == age["cand"] # Never /\ agl' >= ConfirmGain
         bump    == ~boosted /\ WindowOver
         launched == boosted \/ climbed >= Th.climbS
     IN /\ timer' = [timer EXCEPT !["climb"] = climbed]
        /\ age' = [age EXCEPT !["step"] = 0,
                              !["cand"] = IF bump THEN Never ELSE @,
                              !["launch"] = IF launched THEN 0 ELSE @]
        /\ \/ /\ launched
              /\ phase' = ASCENT /\ flightStarted' = TRUE /\ hMax' = 0
           \/ /\ ~launched
              /\ UNCHANGED <<phase, flightStarted, hMax>>
  /\ UNCHANGED <<armsUnlatched, motorsCutLow, suspended, aborted, modes>>

\* Altitude above the pad and its peak, in every phase after the launch
Airborne(in) ==
  /\ agl' = in.h - padRef
  /\ hMax' = AtLeast(hMax, agl')
  /\ UNCHANGED <<flightStarted, aborted, modes, pad>>

\* The landing test that follows the switch, in the phase the switch left
Settled(in) ==
  Timer("landed", agl' <= Th.landedAlt /\ Abs(in.v) <= Th.landedV,
        StepDt, Th.landedS)
LandOr(p, in) == IF Settled(in) >= Th.landedS THEN LANDED ELSE p

EvidenceUnchecked == age["evidence"] <= EvidenceS   \* mutant: unset stamp
Evidence == age["evidence"] # Never /\ age["evidence"] <= EvidenceS

AscentStep(in) ==
  /\ phase = ASCENT
  /\ Airborne(in)
  /\ LET sunk   == Timer("sink", agl' <= hMax' - Th.releaseDrop /\ in.v <= -Th.sinkV,
                         StepDt, Th.sinkS)
         fallen == Timer("fall", agl' <= hMax' - FallbackDrop /\ in.v <= -FallbackV,
                         StepDt, FallbackS)
         released == \/ sunk >= Th.sinkS /\ (Evidence \/ ~Th.needEvidence)
                     \/ fallen >= FallbackS
     IN \/ /\ released
           /\ timer' = [timer EXCEPT !["sink"] = sunk, !["fall"] = fallen,
                                     !["landed"] = Settled(in)]
           /\ phase' = LandOr(DESCENT, in)
           /\ Stepped({"release"})
        \/ /\ ~released
           /\ timer' = [timer EXCEPT !["sink"] = sunk, !["fall"] = fallen]
           /\ phase' = ASCENT
           /\ Stepped({})
  /\ UNCHANGED <<armsUnlatched, motorsCutLow, suspended>>

DescentStep(in) ==
  /\ phase = DESCENT
  /\ Airborne(in)
  /\ timer' = [timer EXCEPT !["landed"] = Settled(in)]
  /\ \/ /\ agl' <= Deploy /\ Since("release", AfterReleaseS)
        /\ armsUnlatched' = TRUE
        /\ phase' = LandOr(ARMS_DEPLOY, in)
        /\ Stepped({"arms"})
     \/ /\ ~(agl' <= Deploy /\ Since("release", AfterReleaseS))
        /\ phase' = LandOr(DESCENT, in)
        /\ Stepped({})
        /\ UNCHANGED armsUnlatched
  /\ UNCHANGED <<motorsCutLow, suspended>>

MaySteerAtOnce(in) ==       \* mutant: the arms are not given time to open
  Sane(in.att) /\ agl' > Th.cutoff + Th.steerMargin /\ ~motorsCutLow
MaySteerAfterAbort(in) ==   \* mutant: the motor cut is not looked at
  Since("arms", OpenS) /\ Sane(in.att) /\ agl' > Th.cutoff + Th.steerMargin
MaySteer(in) ==
  /\ Since("arms", OpenS)
  /\ Sane(in.att)
  /\ agl' > Th.cutoff + Th.steerMargin
  /\ ~motorsCutLow

ArmsStep(in) ==
  /\ phase = ARMS_DEPLOY
  /\ Airborne(in)
  /\ timer' = [timer EXCEPT !["landed"] = Settled(in)]
  /\ phase' = LandOr(IF MaySteer(in) THEN STEERING ELSE ARMS_DEPLOY, in)
  /\ Stepped({})
  /\ UNCHANGED <<armsUnlatched, motorsCutLow, suspended>>

\* The tumble failsafe: the motors are suspended by a lasting tumble and
\* resumed by a lasting recovery; each change restarts the other timer.
WatchKeepsRecovery(in) ==   \* mutant: the recovery time is not restarted
  /\ ~suspended
  /\ LET tumbled == Timer("tumble", Tumbling(in.att), StepDt, TumbleS)
     IN /\ suspended' = (tumbled >= TumbleS)
        /\ timer' = [timer EXCEPT !["landed"] = Settled(in), !["tumble"] = tumbled]
WatchStrictly(in) ==        \* mutant: > for >=
  /\ ~suspended
  /\ LET tumbled == Timer("tumble", Tumbling(in.att), StepDt, TumbleS)
     IN /\ suspended' = (tumbled > TumbleS)
        /\ timer' = [timer EXCEPT !["landed"] = Settled(in), !["tumble"] = tumbled,
                                  !["recover"] = IF suspended' THEN 0 ELSE @]
Watch(in) ==
  /\ ~suspended
  /\ LET tumbled == Timer("tumble", Tumbling(in.att), StepDt, TumbleS)
     IN /\ suspended' = (tumbled >= TumbleS)
        /\ timer' = [timer EXCEPT !["landed"] = Settled(in), !["tumble"] = tumbled,
                                  !["recover"] = IF suspended' THEN 0 ELSE @]

Recover(in) ==
  /\ suspended
  /\ LET recovered == Timer("recover", Recovered(in.att), StepDt, RecoverS)
     IN /\ suspended' = (recovered < RecoverS)
        /\ timer' = [timer EXCEPT !["landed"] = Settled(in), !["recover"] = recovered,
                                  !["tumble"] = IF suspended' THEN @ ELSE 0]

SteeringStep(in) ==
  /\ phase = STEERING
  /\ Airborne(in)
  /\ motorsCutLow' = (motorsCutLow \/ agl' <= Th.cutoff)
  /\ Watch(in) \/ Recover(in)
  /\ phase' = LandOr(STEERING, in)
  /\ Stepped({})
  /\ UNCHANGED armsUnlatched

LandedStep(in) ==
  /\ phase = LANDED
  /\ Airborne(in)
  /\ Stepped({})
  /\ UNCHANGED <<phase, armsUnlatched, motorsCutLow, suspended, timer>>

Step(in) ==
  /\ age["step"] # 0
  /\ \/ PadStep(in)
     \/ AscentStep(in)
     \/ DescentStep(in)
     \/ ArmsStep(in)
     \/ SteeringStep(in)
     \/ LandedStep(in)
  /\ persist' = Saved'

(***************************************************************************)
(* Commands.  Each runs under fc_mutex, and none of them saves the record. *)
(***************************************************************************)
Fresh ==
  /\ phase' = PAD
  /\ flightStarted' = FALSE /\ armsUnlatched' = FALSE /\ motorsCutLow' = FALSE
  /\ suspended' = FALSE /\ aborted' = FALSE
  /\ padRefInit' = FALSE /\ padRef' = 0 /\ hMax' = 0
  /\ timer' = [k \in Timers |-> 0]

\* reset(): everything but lift_deploy_; last_step_t belongs to nav_task
ResetMission ==
  /\ Fresh
  /\ age' = [k \in Stamps |-> IF k = "step" THEN age[k] ELSE Never]
  /\ UNCHANGED <<agl, persist>>

RealFlight == flightStarted /\ ~Lift

LiftCommand(deploy) ==
  /\ ~RealFlight
  /\ liftDeploy' = deploy
  /\ sim' = FALSE
  /\ ResetMission
  /\ UNCHANGED baroSim

CalCommand ==
  /\ ~RealFlight
  /\ sim' = FALSE
  /\ ResetMission
  /\ UNCHANGED <<liftDeploy, baroSim>>

SimCommand(enable) ==
  /\ ~(flightStarted /\ ~baroSim)
  /\ baroSim' = enable
  /\ sim' = enable
  /\ ResetMission
  /\ UNCHANGED liftDeploy

AbortCommand ==
  /\ aborted' = TRUE
  /\ motorsCutLow' = TRUE
  /\ UNCHANGED <<phase, flightStarted, armsUnlatched, suspended, modes, pad,
                 hMax, agl, timer, age, persist>>

(***************************************************************************)
(* A brownout, watchdog or panic reset.  The record survives; main_fc      *)
(* resumes from it when it was saved between launch and landing and starts *)
(* on the pad otherwise.                                                   *)
(***************************************************************************)
DescentRecord  == persist.valid /\ persist.phase \notin {PAD, ASCENT, LANDED}   \* mutant
InFlightRecord == persist.valid /\ persist.phase \notin {PAD, LANDED}

Resume ==
  /\ InFlightRecord
  /\ phase' = IF persist.phase = STEERING THEN ARMS_DEPLOY ELSE persist.phase
  /\ flightStarted' = TRUE
  /\ armsUnlatched' = persist.arms
  /\ motorsCutLow' = persist.cutLow
  /\ suspended' = FALSE /\ aborted' = FALSE
  /\ sim' = FALSE /\ liftDeploy' = persist.lift /\ baroSim' = FALSE
  /\ padRefInit' = TRUE /\ padRef' = persist.padRef /\ hMax' = persist.hMax
  /\ agl' = 0
  /\ timer' = [k \in Timers |-> 0]
  /\ age' = [k \in Stamps |-> IF k \in {"launch", "release", "arms"} THEN AgeCap ELSE Never]
  /\ UNCHANGED persist

ColdBoot ==
  /\ ~InFlightRecord
  /\ Fresh
  /\ sim' = FALSE /\ liftDeploy' = 0 /\ baroSim' = FALSE
  /\ agl' = 0
  /\ age' = [k \in Stamps |-> Never]
  /\ persist' = NoRecord

Next ==
  \/ Tick
  \/ \E f \in AccelSamples : IngestAccel(f)
  \/ \E in \in Inputs : Step(in)
  \/ \E deploy \in LiftDeploys \cup {0} : LiftCommand(deploy)
  \/ CalCommand
  \/ \E enable \in SimRequests : SimCommand(enable)
  \/ AbortCommand
  \/ Resume
  \/ ColdBoot

Spec == Init /\ [][Next]_vars

(***************************************************************************)
(* Properties                                                              *)
(***************************************************************************)

\* Every variable stays in the range its C++ type and its uses give it: flags
\* are Booleans, altitudes are numbers, accumulators are never negative.
FlagsOK ==
  {flightStarted, armsUnlatched, motorsCutLow, suspended, aborted, sim, baroSim,
   padRefInit} \subseteq BOOLEAN
DataOK ==
  /\ phase \in Phases /\ liftDeploy \in LiftDeploys \cup {0}
  /\ padRef \in Int /\ hMax \in Int /\ agl \in Int
  /\ persist \in [valid : BOOLEAN, phase : Phases, arms : BOOLEAN,
                  cutLow : BOOLEAN, padRef : Int, hMax : Int,
                  lift : LiftDeploys \cup {0}]
TimersOK ==
  /\ timer \in [Timers -> Nat]
  /\ age \in [Stamps -> {Never} \cup 0 .. AgeCap]
TypeOK == FlagsOK /\ DataOK /\ TimersOK

\* Motors may spin only with the arms unlatched long enough to have swung out,
\* above the cut-off altitude, in a flight that has been latched (the rules in
\* the header of mission.hpp), whatever was commanded or reset on the way.
MotorsSafe ==
  MotorsEnabled => /\ flightStarted /\ armsUnlatched
                   /\ Since("arms", OpenS)
                   /\ agl > Th.cutoff

\* Between launch and landing of a real flight the mission only moves forward:
\* no command and no mid-air reset sends it back ("All flags are latching",
\* "a reset mid-air resumes the mission"), except that a reset while steering
\* must qualify the attitude again.
InRealFlight == RealFlight /\ ~baroSim /\ phase # LANDED
ForwardOnly ==
  [][InRealFlight => \/ phase' >= phase
                     \/ phase = STEERING /\ phase' = ARMS_DEPLOY]_vars

\* Nothing re-latches the arm servos in a real flight: neither a command nor a
\* reset between any two steps.
ArmsStayUnlatched ==
  [][InRealFlight /\ armsUnlatched => armsUnlatched']_vars

\* A lift ride never turns into a real flight: the inhibit of the motors goes
\* away only together with a return to the pad, even when a reset interrupts
\* the ride (lift_deploy_m is part of the reset record).
LiftInhibitKept ==
  [][Lift /\ phase # PAD /\ liftDeploy' = 0 => phase' = PAD]_vars

\* "confirmed by >= 10 m gain within 4 s": a launch that the climb rule does not
\* explain has a boost candidate that was inside the window at the last sample;
\* when the barometer has been silent the window is as much longer.  (A reset
\* that resumes the record of an abandoned lift ride is not a launch.)
Launches == phase = PAD /\ phase' = ASCENT /\ age'["launch"] = 0
ConfirmedInTime ==
  [][Launches /\ timer'["climb"] < Th.climbS
       => age["cand"] <= ConfirmS + age["step"]]_vars
=============================================================================
