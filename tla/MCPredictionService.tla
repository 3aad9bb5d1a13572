------------------------- MODULE MCPredictionService -------------------------
(* PredictionService for TLC: probabilities on both sides of the boundaries *)
(* of the bands, and one on a boundary that truncation moves.               *)
EXTENDS PredictionService, TLC

MCProbabilities == {5, 6, 14, 15}

TxnSymmetry == Permutations(Txns)
=============================================================================
