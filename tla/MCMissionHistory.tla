-------------------------- MODULE MCMissionHistory --------------------------
(***************************************************************************)
(* MissionHistory on a short flight: launch and release take one sample    *)
(* each, so that the bounds go to the tumble failsafe and the cut-off.     *)
(***************************************************************************)
EXTENDS MissionHistory

ShortHeights == 0 .. 2
ShortSpeeds  == {-1, 1}

ShortRow == [launchGain |-> 2, climbV |-> 1, climbS |-> 1,
             releaseDrop |-> 1, sinkV |-> 1, sinkS |-> 1, needEvidence |-> TRUE,
             deploy |-> 2, cutoff |-> 0, steerMargin |-> 0,
             landedAlt |-> 0, landedV |-> 0, landedS |-> 3]
ShortThresholds == [p \in Profiles |-> ShortRow]
=============================================================================
