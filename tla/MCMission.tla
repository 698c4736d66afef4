----------------------------- MODULE MCMission -----------------------------
(***************************************************************************)
(* Small instance of MissionSupervisor: three altitudes, four speeds, and  *)
(* every duration two or three iterations of nav_task long.                *)
(***************************************************************************)
EXTENDS MissionInvariant

\* At the cut-off and landing altitude, between it and the gains and drops that
\* launch, release and deploy, and above
MCHeights == 0 .. 2
MCSpeeds  == -2 .. 1

\* No shock, no boost
CalmOnly       == {"calm"}

Row == [launchGain |-> 2, climbV |-> 1, climbS |-> 2,
        releaseDrop |-> 1, sinkV |-> 1, sinkS |-> 1, needEvidence |-> TRUE,
        deploy |-> 2, cutoff |-> 0, steerMargin |-> 1,
        landedAlt |-> 0, landedV |-> 0, landedS |-> 2]

MCThresholds ==
  [p \in Profiles |->
     CASE p = "flight" -> Row
       [] p = "sim"    -> [Row EXCEPT !.launchGain = 1, !.needEvidence = FALSE]
       [] p = "lift"   -> [Row EXCEPT !.launchGain = 1, !.climbS = 1,
                                      !.needEvidence = FALSE, !.cutoff = 0]]
=============================================================================
