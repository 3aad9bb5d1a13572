------------------------------ MODULE CostModel ------------------------------
(***************************************************************************)
(* What a set of scored rows costs: compute_cost of ThresholdOptimizer     *)
(* (src/scoring/decision_engine.py), compute_fraud_metrics                 *)
(* (src/models/metrics.py) and the Brier score of the calibrator's         *)
(* evaluate (src/calibration/calibrator.py), with CostConfig.              *)
(*                                                                         *)
(* A probability is an integer from 0 to Scale, a rate a pair of integers. *)
(* The average precision and ROC area of scikit-learn, and the precision   *)
(* at a rank, are left out: nothing below depends on how they come about.  *)
(***************************************************************************)
EXTENDS Integers, FiniteSets, FiniteSetsExt

CONSTANTS
    Rows,               \* the rows of a sample
    Scale,              \* the probability 1
    AvgFraudLoss, FalsePositiveCost, ManualReviewCost   \* CostConfig

ASSUME CostAssumption ==
    /\ IsFiniteSet(Rows)
    /\ Scale \in Nat \ {0}
    /\ {AvgFraudLoss, FalsePositiveCost, ManualReviewCost} \subseteq Nat

\* Amounts are given or, for the rows of amounts that are None, are not.
NoAmounts == <<>>

\* amounts[rows].sum(), or the average loss for each of the rows.
LossOf(amounts, rows) ==
    IF amounts = NoAmounts
    THEN Cardinality(rows) * AvgFraudLoss
    ELSE MapThenSumSet(LAMBDA i : amounts[i], rows)

\* compute_cost: a row is approved, reviewed or blocked; fraud is caught by a
\* review or a block.
CostAnalysis(fraud, amounts, prob, at, bt) ==
    LET approve  == {i \in Rows : prob[i] < at}
        review   == {i \in Rows : prob[i] >= at /\ prob[i] < bt}
        block    == {i \in Rows : prob[i] >= bt}
        declines == Cardinality(block \ fraud)
        lost     == LossOf(amounts, approve \cap fraud)
        total    == lost + declines * FalsePositiveCost + Cardinality(review) * ManualReviewCost
    IN  [caught    |-> Cardinality((block \cup review) \cap fraud),
         missed    |-> Cardinality(approve \cap fraud),
         declines  |-> declines,
         reviews   |-> Cardinality(review),
         total     |-> total,
         benefit   |-> LossOf(amounts, (block \cup review) \cap fraud) - total]

\* brier_score_loss, times the number of rows and the square of Scale
Brier(fraud, prob) ==
    MapThenSumSet(LAMBDA i : IF i \in fraud THEN (Scale - prob[i]) * (Scale - prob[i])
                                            ELSE prob[i] * prob[i],
                  Rows)

\* Mutant: the average precision is computed of one class, too.
FraudMetrics_OneClass(fraud, amounts, prob, prAuc) ==
    LET flagged == {i \in Rows : 2 * prob[i] >= Scale}
        fp      == Cardinality(flagged \ fraud)
    IN  [prAuc  |-> prAuc,
         tp     |-> Cardinality(flagged \cap fraud),
         fp     |-> fp,
         fn     |-> Cardinality(fraud \ flagged),
         tn     |-> Cardinality(Rows \ (fraud \cup flagged)),
         brier  |-> Brier(fraud, prob),
         cost   |-> LossOf(amounts, fraud \ flagged) + fp * FalsePositiveCost]

\* compute_fraud_metrics at the threshold 0.5.  A rate over no row is zero,
\* and so is the PR-AUC when the labels are all the same.
FraudMetrics(fraud, amounts, prob, prAuc) ==
    LET flagged == {i \in Rows : 2 * prob[i] >= Scale}
        fp      == Cardinality(flagged \ fraud)
    IN  [prAuc  |-> IF fraud = {} \/ fraud = Rows THEN 0 ELSE prAuc,
         tp     |-> Cardinality(flagged \cap fraud),
         fp     |-> fp,
         fn     |-> Cardinality(fraud \ flagged),
         tn     |-> Cardinality(Rows \ (fraud \cup flagged)),
         brier  |-> Brier(fraud, prob),
         cost   |-> LossOf(amounts, fraud \ flagged) + fp * FalsePositiveCost]

\* The rate part / whole is at least percent / 100.
AtLeast(part, whole, percent) ==
    IF whole = 0 THEN 0 >= percent ELSE 100 * part >= percent * whole

AtMost(part, whole, percent) ==
    IF whole = 0 THEN 0 <= percent ELSE 100 * part <= percent * whole
=============================================================================
