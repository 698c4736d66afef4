-------------------------- MODULE MissionInvariant --------------------------
(***************************************************************************)
(* The inductive invariant behind the safety properties of the mission:    *)
(* what the phase says about the latches, the timers and the record that a *)
(* reset resumes from.                                                     *)
(***************************************************************************)
EXTENDS MissionRefinement

\* A mission is on the pad exactly until its launch is latched, and the arms
\* open no later than ARMS_DEPLOY.
PhaseTellsLatches ==
  /\ flightStarted <=> phase # PAD
  /\ phase \in {ARMS_DEPLOY, STEERING} => armsUnlatched
  /\ aborted => motorsCutLow

\* Steering began with the arms swung out, and only the cut hides a descent
\* below the cut-off altitude.
SteersHighAndOpen ==
  phase = STEERING => Since("arms", OpenS) /\ (motorsCutLow \/ agl > Th.cutoff)

\* No landing time has been accumulated before the release.
NotLandingYet == phase \in {PAD, ASCENT} => timer["landed"] = 0

\* A record in which the arms are out says so, and in flight the record is the
\* state of the mission, but for steering that a reset has interrupted.
RecordIsResumable ==
  /\ persist.valid /\ persist.phase \in {ARMS_DEPLOY, STEERING} => persist.arms
  /\ phase # PAD =>
       /\ persist.valid
       /\ \/ persist.phase = phase
          \/ persist.phase = STEERING /\ phase = ARMS_DEPLOY
       /\ persist.arms = armsUnlatched /\ persist.lift = liftDeploy

\* What every reachable state of the mission satisfies, and every step keeps:
\* phase, latches, timers and reset record never contradict each other.
MissionInv ==
  PhaseTellsLatches /\ SteersHighAndOpen /\ NotLandingYet /\ RecordIsResumable
=============================================================================
