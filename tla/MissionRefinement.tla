------------------------- MODULE MissionRefinement -------------------------
(***************************************************************************)
(* The state machine of mission.hpp implements the promise the rest of the *)
(* firmware is checked against.                                            *)
(***************************************************************************)
EXTENDS MissionSupervisor

Promise == INSTANCE MissionPromise WITH
  arms      <- armsUnlatched,
  cut       <- motorsCutLow,
  lift      <- Lift,
  simulated <- baroSim,
  record    <- [valid |-> persist.valid, phase |-> persist.phase,
                arms |-> persist.arms, cut |-> persist.cutLow,
                lift |-> persist.lift > 0]

\* Every behaviour of the detailed mission is one the promise allows: phases
\* advance one at a time or end in LANDED, the arms open with ARMS_DEPLOY, the
\* cut and the suspension change only while steering, commands are refused in
\* a real flight and a reset resumes from the last step.
KeepsPromise == Promise!Spec

\* The outputs the actuators use are the outputs of the promise.
OutputsAgree ==
  /\ MotorsEnabled <=> Promise!Motors
  /\ SteeringActive <=> Promise!Steering
=============================================================================
