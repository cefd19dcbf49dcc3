---------------------------- MODULE MCTaskRefresh ----------------------------
(* Instances of TaskRefresh for TLC.                                       *)
EXTENDS TaskRefresh, TLC

CONSTANTS timer, manual

MCTwoRuns  == {timer, manual}
MCOneRun   == {timer}
MCSymmetry == Permutations({timer, manual})
=============================================================================
