--------------------------- MODULE MissionHistory ---------------------------
(***************************************************************************)
(* MissionSupervisor with history variables: what the vehicle has really   *)
(* done, kept apart from the timers that mission.hpp uses to remember it.  *)
(***************************************************************************)
EXTENDS MissionSupervisor

VARIABLES
  uprightFor,   \* how long every step has seen a recovered attitude
  tumblingFor,  \* how long every step has seen a tumble
  carried       \* neither a shock, a free fall nor a fast sink in this flight

history == <<uprightFor, tumblingFor, carried>>
hvars   == <<vars, history>>

HInit ==
  /\ Init
  /\ uprightFor = 0 /\ tumblingFor = 0 /\ carried = TRUE

\* A flight that begins has been calm so far
Carried(shaken) == ~ flightStarted' \/ (carried /\ ~ (flightStarted /\ shaken))

Lasted(so, on, cap) == IF on THEN AtMost(so + StepDt, cap) ELSE 0

HStep(in) ==
  /\ Step(in)
  /\ uprightFor'  = Lasted(uprightFor, Recovered(in.att), RecoverS)
  /\ tumblingFor' = Lasted(tumblingFor, Tumbling(in.att), TumbleS)
  /\ carried' = Carried(in.v <= -FallbackV)

HAccel(f) ==
  /\ IngestAccel(f)
  /\ carried' = Carried(f \in {"boost", "freefall"})
  /\ UNCHANGED <<uprightFor, tumblingFor>>

\* Commands and resets leave what the vehicle has done as it is
HOther ==
  /\ \/ \E deploy \in LiftDeploys \cup {0} : LiftCommand(deploy)
     \/ \E enable \in SimRequests : SimCommand(enable)
     \/ Tick \/ CalCommand \/ AbortCommand \/ ColdBoot \/ Resume
  /\ carried' = Carried(FALSE)
  /\ UNCHANGED <<uprightFor, tumblingFor>>

HNext == (\E in \in Inputs : HStep(in)) \/ (\E f \in AccelSamples : HAccel(f)) \/ HOther

HSpec == HInit /\ [][HNext]_hvars

\* "Tilt > 65 deg for 0.3 s or attitude invalid -> motors suspended": once every
\* step has seen a tumble for that long, the motors are off.
TumbleStopsMotors == tumblingFor >= TumbleS => ~MotorsEnabled

\* "resume after < 30 deg for 1 s": in steering, suspended motors come back only
\* when every step of the last RecoverS has seen the vehicle upright, however
\* often they were suspended before.
ResumeNeedsRecovery ==
  [][phase = STEERING /\ suspended /\ ~suspended' /\ phase' = STEERING
       => uprightFor' >= RecoverS]_hvars

\* "A carrier that descends slowly with the CanSat still attached never
\* satisfies the release rule, so the arms cannot open inside the carrier":
\* without a shock, a free fall or a fast sink since the flight began, whatever
\* resets interrupt it, nothing is released.
CarrierKeepsCanSat ==
  carried /\ flightStarted /\ ~ Lift /\ ~ sim => phase <= ASCENT /\ ~armsUnlatched
=============================================================================
