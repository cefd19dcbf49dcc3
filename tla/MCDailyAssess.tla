---------------------------- MODULE MCDailyAssess ----------------------------
(* Instances of DailyAssess for TLC.                                       *)
EXTENDS DailyAssess

CONSTANTS timer, manual, timed, plain

MCOneText  == {timed}
MCTexts    == {timed, plain}
MCTimed    == {timed}
MCPriors   == {plain}
MCNoPriors == {}
MCNoManual == {}
MCManual   == {manual}
=============================================================================
