--------------------------- MODULE MCRetrainingCycle ---------------------------
(***************************************************************************)
(* RetrainingCycle for TLC: two rows of VAL_OPT or of a test set, a grid   *)
(* of nine pairs of which three are not valid, and readings of drift at    *)
(* and next to each threshold.                                             *)
(***************************************************************************)
EXTENDS RetrainingCycle

MCFrauds == {{}, {1}, {1, 2}}

MCAmounts == {<<10, 40>>, NoAmounts}

MCCalibrated == [Rows -> {0, 4, 10}]

MCApproveGrid == <<1, 4, 6>>

MCBlockGrid == <<3, 6, 10>>

MCReadings ==
    [Features -> {Skipped, [psi |-> 9, ks |-> 4], [psi |-> 10, ks |-> 4], [psi |-> 9, ks |-> 5],
                  [psi |-> 20, ks |-> 4], [psi |-> 19, ks |-> 10]}]

MCPerformances == [prAuc : {50, 55, 58}, recall : {70, 75, 81}]

MCCandidates ==
    [fraud : {{}, {1}, {1, 2}}, amounts : {<<10, 40>>}, prob : [Rows -> {0, 2, 8, 10}],
     prAuc : {20, 30}]
=============================================================================
