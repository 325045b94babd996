--------------------------- MODULE MCBurpMission ---------------------------
(* BurpMission with two missions, which are interchangeable, and three      *)
(* messages of the brain.                                                   *)
EXTENDS BurpMission, TLC

MissionSymmetry == Permutations(Missions)
=============================================================================
