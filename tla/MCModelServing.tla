--------------------------- MODULE MCModelServing ---------------------------
(* ModelServing for TLC. *)
EXTENDS ModelServing, TLC

MCInstalled == {"lr_basic", "xgb_eng"}

WorkerSymmetry == Permutations(Workers)
=============================================================================
