--------------------------- MODULE MCFeatureStore ---------------------------
(***************************************************************************)
(* TLC instance of FeatureStore: two windows, the longer twice the shorter.*)
(***************************************************************************)
EXTENDS FeatureStore

MCTtl == <<1, 2>>
=============================================================================
