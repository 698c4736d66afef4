------------------------------ MODULE BaroPath ------------------------------
(***************************************************************************)
(* A pressure sample from the barometer to the mission: sensor_task reads  *)
(* the chip, or the simulated pressure in its place, and publishes the     *)
(* altitude (bmp585.cpp, main.cpp); nav_task copies it and then uses the   *)
(* copy under fc_mutex; CAL, LIFT, SIM and SIMP come in between.           *)
(*                                                                         *)
(* A sample is "none" (the read failed), "current", or "old": taken against*)
(* another zero, or of the other source, than what is read now.  A command *)
(* that changes the zero or the source starts the mission again, but does  *)
(* not take back the samples under way.                                    *)
(***************************************************************************)
EXTENDS Naturals

VARIABLES
  simulated,  \* sim_enabled_
  taken,      \* sensor_task's sample, or "idle"
  newest,     \* latest_baro: its kind, and nav_task did not copy it yet
  copied,     \* nav_task: "idle", or its copy if it is new ("nothing" if not)
  injected,   \* on_simp's sample, or "idle"
  zeroing,    \* CAL is averaging, with fc_mutex
  airborne,   \* flight_started_
  lifting,    \* a lift test
  zero,       \* pad_ref_: "unset", or the kind of sample it was set from
  ghosts      \* old samples the mission used since it was started (observer)

baroVars == <<simulated, taken, newest, copied, injected, zeroing, airborne, lifting, zero, ghosts>>

\* Ghosts beyond this number are not counted.
Crowd == 6

BaroInit ==
  /\ simulated = FALSE /\ taken = "idle" /\ newest = [of |-> "none", fresh |-> FALSE]
  /\ copied = "idle" /\ injected = "idle" /\ zeroing = FALSE
  /\ airborne = FALSE /\ lifting = FALSE /\ zero = "unset" /\ ghosts = 0

-----------------------------------------------------------------------------
\* The samples

\* read: the chip may not answer or be out of range, the simulation always does
\* Mutant of Readings: a read that fails returns the sample of the last one.
ReadingsKept == IF simulated THEN {"current"} ELSE {"old", "current"}
Readings == IF simulated THEN {"current"} ELSE {"none", "current"}

SensorReads ==
  /\ taken = "idle" /\ taken' \in Readings
  /\ UNCHANGED <<simulated, newest, copied, injected, zeroing, airborne, lifting, zero, ghosts>>

SensorPublishes ==
  /\ taken # "idle" /\ taken' = "idle"
  /\ newest' = IF taken = "none" THEN newest ELSE [of |-> taken, fresh |-> TRUE]
  /\ UNCHANGED <<simulated, copied, injected, zeroing, airborne, lifting, zero, ghosts>>

\* SIMP: the command's own read, published even when it failed
SimpReads ==
  /\ injected = "idle" /\ injected' \in Readings
  /\ UNCHANGED <<simulated, taken, newest, copied, zeroing, airborne, lifting, zero, ghosts>>

SimpPublishes ==
  /\ injected # "idle" /\ injected' = "idle"
  /\ newest' = [of |-> injected, fresh |-> injected # "none"]
  /\ UNCHANGED <<simulated, taken, copied, zeroing, airborne, lifting, zero, ghosts>>

\* nav_task, under sensor_mutex
NavCopies ==
  /\ copied = "idle"
  /\ copied' = IF newest.fresh THEN newest.of ELSE "nothing"
  /\ newest' = [newest EXCEPT !.fresh = FALSE]
  /\ UNCHANGED <<simulated, taken, injected, zeroing, airborne, lifting, zero, ghosts>>

\* nav_task, under fc_mutex: the first sample is the pad's altitude
NavSteps ==
  /\ copied # "idle" /\ ~ zeroing /\ copied' = "idle"
  /\ IF copied = "nothing" THEN UNCHANGED <<airborne, zero, ghosts>>
     ELSE /\ zero' = IF zero = "unset" THEN copied ELSE zero
          /\ airborne' \in {airborne, TRUE}
          /\ ghosts' = IF copied = "old" /\ ghosts < Crowd THEN ghosts + 1 ELSE ghosts
  /\ UNCHANGED <<simulated, taken, newest, injected, zeroing, lifting>>

-----------------------------------------------------------------------------
\* The commands, under fc_mutex

\* What was under way when the zero or the source changed
Aged(kind) == IF kind = "current" THEN "old" ELSE kind
AllAged ==
  /\ taken' = Aged(taken) /\ injected' = Aged(injected) /\ copied' = Aged(copied)
  /\ newest' = [newest EXCEPT !.of = Aged(@)]
NoneAged == UNCHANGED <<taken, injected, copied, newest>>

MissionReset == airborne' = FALSE /\ zero' = "unset" /\ ghosts' = 0

\* on_cal; without a valid sample the zero stays
CalBegins ==
  /\ ~ zeroing /\ (airborne => lifting)
  /\ IF newest.of = "none"
     THEN MissionReset /\ UNCHANGED zeroing
     ELSE zeroing' = TRUE /\ UNCHANGED <<airborne, zero, ghosts>>
  /\ NoneAged /\ UNCHANGED <<simulated, lifting>>

\* auto_calibrate_baseline: the zero changes if a read was good
CalEnds ==
  /\ zeroing /\ zeroing' = FALSE
  /\ ("none" \in Readings /\ NoneAged) \/ AllAged
  /\ MissionReset /\ UNCHANGED <<simulated, lifting>>

\* on_sim: enabled, the simulation goes on from the pressure it replaces
Sim ==
  /\ ~ zeroing /\ (airborne => simulated)
  /\ \E enable \in BOOLEAN :
       /\ simulated' = enable
       /\ IF simulated = enable \/ (enable /\ newest.of = "current") THEN NoneAged ELSE AllAged
  /\ MissionReset /\ UNCHANGED <<zeroing, lifting>>

\* on_lift
Lift ==
  /\ ~ zeroing /\ (airborne => lifting)
  /\ lifting' \in BOOLEAN
  /\ NoneAged /\ MissionReset /\ UNCHANGED <<simulated, zeroing>>

BaroNext == \/ SensorReads \/ SensorPublishes \/ SimpReads \/ SimpPublishes
            \/ NavCopies \/ NavSteps \/ CalBegins \/ CalEnds \/ Sim \/ Lift

-----------------------------------------------------------------------------
\* Properties

\* A mission started again sees few samples of the one before: the one that
\* nav_task copied before it had fc_mutex, the published one, sensor_task's and
\* SIMP's; whatever fails or is switched afterwards, no fifth one.
GhostsAreFew == ghosts <= 4
=============================================================================
