--------------------------- MODULE MissionPromise ---------------------------
(***************************************************************************)
(* What the mission supervisor promises to the rest of the firmware,       *)
(* without timers, altitudes or attitudes: in which order the phases, the  *)
(* arm latches, the motor cut and the tumble suspension may change, what   *)
(* the operator may do in which phase, and what survives a reset.          *)
(***************************************************************************)
EXTENDS Integers

PAD         == 0
ASCENT      == 1
DESCENT     == 2
ARMS_DEPLOY == 3
STEERING    == 4
LANDED      == 5
Phases      == PAD .. LANDED

VARIABLES
  phase,      \* mission phase
  arms,       \* arm latches commanded open
  cut,        \* motors off for good (below cut-off altitude, or ABORT)
  suspended,  \* motors held off by the tumble failsafe
  lift,       \* lift test: motors inhibited
  simulated,  \* hardware-in-the-loop: simulated pressure
  record      \* what a reset resumes from

vars == <<phase, arms, cut, suspended, lift, simulated, record>>

NoRecord == [valid |-> FALSE, phase |-> PAD, arms |-> FALSE, cut |-> FALSE,
             lift |-> FALSE]
Current == [valid |-> TRUE, phase |-> phase, arms |-> arms, cut |-> cut,
            lift |-> lift]

Steering == phase = STEERING /\ ~cut
Motors   == Steering /\ ~suspended /\ ~lift

Init ==
  /\ phase = PAD /\ arms = FALSE /\ cut = FALSE /\ suspended = FALSE
  /\ lift = FALSE /\ simulated = FALSE
  /\ record = NoRecord

(***************************************************************************)
(* One step of the mission: each ends with the record of the state it      *)
(* leaves                                                                  *)
(***************************************************************************)
Remain ==
  /\ phase # STEERING
  /\ UNCHANGED <<phase, arms, cut, suspended>>

Launch ==
  /\ phase = PAD
  /\ phase' = ASCENT
  /\ UNCHANGED <<arms, cut, suspended>>

Release ==
  /\ phase = ASCENT
  /\ phase' = DESCENT
  /\ UNCHANGED <<arms, cut, suspended>>

Unlatch ==
  /\ phase = DESCENT
  /\ phase' \in {ARMS_DEPLOY, LANDED}
  /\ arms' = TRUE
  /\ UNCHANGED <<cut, suspended>>

Steer ==
  /\ phase = ARMS_DEPLOY
  /\ ~cut
  /\ phase' = STEERING
  /\ UNCHANGED <<arms, cut, suspended>>

\* While steering the motors may be cut, suspended or resumed, and the
\* landing may be detected in the same step
Fly ==
  /\ phase = STEERING
  /\ phase' \in {STEERING, LANDED}
  /\ cut' \in {cut, TRUE}
  /\ suspended' \in BOOLEAN
  /\ UNCHANGED arms

Land ==
  /\ phase \in {DESCENT, ARMS_DEPLOY}
  /\ phase' = LANDED
  /\ UNCHANGED <<arms, cut, suspended>>

Progress ==
  /\ Remain \/ Launch \/ Release \/ Unlatch \/ Steer \/ Fly \/ Land
  /\ UNCHANGED <<lift, simulated>>

Step == Progress /\ record' = Current'

(***************************************************************************)
(* Commands                                                                *)
(***************************************************************************)
Flying == phase # PAD

BackToPad ==
  /\ phase' = PAD /\ arms' = FALSE /\ cut' = FALSE /\ suspended' = FALSE
  /\ UNCHANGED record

SelectLift(on) ==
  /\ ~(Flying /\ ~lift)
  /\ lift' = on
  /\ BackToPad
  /\ UNCHANGED simulated

Calibrate ==
  /\ ~(Flying /\ ~lift)
  /\ BackToPad
  /\ UNCHANGED <<lift, simulated>>

SelectSim(on) ==
  /\ ~(Flying /\ ~simulated)
  /\ simulated' = on
  /\ BackToPad
  /\ UNCHANGED lift

Abort ==
  /\ cut' = TRUE
  /\ UNCHANGED <<phase, arms, suspended, lift, simulated, record>>

(***************************************************************************)
(* Resets                                                                  *)
(***************************************************************************)
InDescent == record.valid /\ record.phase \notin {PAD, ASCENT, LANDED}   \* mutant
InFlight == record.valid /\ record.phase \notin {PAD, LANDED}

ResetInFlight ==
  /\ InFlight
  /\ phase' = IF record.phase = STEERING THEN ARMS_DEPLOY ELSE record.phase
  /\ arms' = record.arms /\ cut' = record.cut /\ lift' = record.lift
  /\ suspended' = FALSE /\ simulated' = FALSE
  /\ UNCHANGED record

ResetOnPad ==
  /\ ~InFlight
  /\ phase' = PAD /\ arms' = FALSE /\ cut' = FALSE /\ suspended' = FALSE
  /\ lift' = FALSE /\ simulated' = FALSE
  /\ record' = NoRecord

Next ==
  \/ Step
  \/ \E on \in BOOLEAN : SelectLift(on)
  \/ Calibrate
  \/ \E on \in BOOLEAN : SelectSim(on)
  \/ Abort
  \/ ResetInFlight
  \/ ResetOnPad

Spec == Init /\ [][Next]_vars
=============================================================================
