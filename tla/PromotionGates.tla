--------------------------- MODULE PromotionGates ---------------------------
(***************************************************************************)
(* Drift detection (src/drift/detector.py), the decision to retrain and    *)
(* the promotion gates (src/retraining/pipeline.py).  Nothing under src/   *)
(* calls them and no text fixes their order or hands the answer of one to  *)
(* another, so they are three operations on whatever a caller may give     *)
(* them: that there was drift is an argument of the latter two.  They keep *)
(* no state between calls, so a behaviour makes one.                       *)
(*                                                                         *)
(* A feature is skipped when it is missing from the current data or when   *)
(* either side has fewer than ten rows; otherwise there is a PSI and a KS  *)
(* statistic of it, in percent.                                            *)
(***************************************************************************)
EXTENDS CostModel

CONSTANTS
    Features,           \* keys of reference_data
    Readings,           \* what full_drift_check may find: by feature
    Performances,       \* PR-AUC and recall of the model in production, in percent
    Candidates,         \* test samples that a candidate may be evaluated on
    PsiWarning, PsiCritical, KsWarning, KsCritical,     \* MonitoringConfig
    MinPrAuc, MinRecall, MaxFpr, MaxBrier, MaxCost      \* PromotionGateConfig

Skipped == [psi |-> -1, ks |-> -1]

Reading == {Skipped} \cup [psi : Nat, ks : Nat]

Performance == [prAuc : Nat, recall : Nat]

ASSUME GatesAssumption ==
    /\ Readings \subseteq [Features -> Reading]
    /\ Performances \subseteq Performance
    /\ Candidates \subseteq [fraud : SUBSET Rows, amounts : [Rows -> Nat] \cup {NoAmounts},
                             prob : [Rows -> 0 .. Scale], prAuc : Nat]
    /\ {PsiWarning, PsiCritical, KsWarning, KsCritical} \subseteq Nat
    /\ PsiWarning <= PsiCritical /\ KsWarning <= KsCritical
    /\ {MinPrAuc, MinRecall} \subseteq Nat \ {0}
    /\ {MaxFpr, MaxBrier, MaxCost} \subseteq Nat

VARIABLES
    call,       \* the operation that was called
    readings,   \* the data of the drift check
    report,     \* DriftReport: overall_severity
    baseline, current,  \* FraudMetrics given to should_retrain
    retrain,    \* what should_retrain answered
    candidate,  \* the sample of a candidate, and what the gates were told of it
    failedGates \* checks_failed of the decision

gatesVars == <<call, readings, report, baseline, current, retrain, candidate, failedGates>>

Severities == {"none", "warning", "critical"}

\* The gates that PromotionGateConfig may switch off.
Optional == {"calibration", "drift", "leakage"}

NoPerformance == [prAuc |-> 0, recall |-> 0]

NoCandidate == [required |-> {}, calibrated |-> FALSE, drift |-> FALSE, leakage |-> FALSE,
                fraud |-> {}, amounts |-> NoAmounts, prob |-> [i \in Rows |-> 0], prAuc |-> 0]

GatesInit ==
    /\ call = "none"
    /\ readings = [f \in Features |-> Skipped]
    /\ report = "none"
    /\ baseline = NoPerformance
    /\ current = NoPerformance
    /\ retrain = FALSE
    /\ candidate = NoCandidate
    /\ failedGates = {}

\* check_drift
Severity(value, warning, critical) ==
    CASE value >= critical                     -> "critical"
      [] value >= warning /\ value < critical  -> "warning"
      [] OTHER                                 -> "none"

\* full_drift_check, with its metrics psi and ks
Results ==
    UNION {{Severity(readings[f].psi, PsiWarning, PsiCritical),
            Severity(readings[f].ks, KsWarning, KsCritical)} :
           f \in {g \in Features : readings[g] # Skipped}}

\* Mutant: a severity counts only when all the results have it.
Overall_AllOfThem ==
    IF Results # {} /\ Results = {"critical"} THEN "critical"
    ELSE IF Results # {} /\ Results = {"warning"} THEN "warning" ELSE "none"

Overall ==
    IF "critical" \in Results THEN "critical"
    ELSE IF "warning" \in Results THEN "warning" ELSE "none"

FullDriftCheck ==
    /\ call = "none"
    /\ call' = "drift"
    /\ readings' \in Readings
    /\ report' = Overall'
    /\ UNCHANGED <<baseline, current, retrain, candidate, failedGates>>

\* should_retrain: the drops are in percent points.
ShouldRetrain(from, to, drift) ==
    \/ from.prAuc - to.prAuc > 5
    \/ from.recall - to.recall > 10
    \/ drift /\ (from.prAuc - to.prAuc > 2 \/ from.recall - to.recall > 5)

Consult ==
    /\ call = "none"
    /\ call' = "retrain"
    /\ \E from, to \in Performances, drift \in BOOLEAN :
          /\ baseline' = from
          /\ current' = to
          /\ retrain' = ShouldRetrain(from, to, drift)
    /\ UNCHANGED <<readings, report, candidate, failedGates>>

\* The gates that a candidate with the metrics m fails; c holds what the
\* validator was configured with and told.
FailedGates(m, c) ==
    {g \in {"pr_auc", "recall", "fpr", "brier", "cost"} \cup c.required :
        CASE g = "pr_auc"      -> m.prAuc < MinPrAuc
          [] g = "recall"      -> ~AtLeast(m.tp, m.tp + m.fn, MinRecall)
          [] g = "fpr"         -> ~AtMost(m.fp, m.fp + m.tn, MaxFpr)
          [] g = "brier"       -> ~AtMost(m.brier, Cardinality(Rows) * Scale * Scale, MaxBrier)
          [] g = "cost"        -> m.cost > MaxCost
          [] g = "calibration" -> ~c.calibrated
          [] g = "drift"       -> c.drift
          [] g = "leakage"     -> c.leakage}

MetricsOf(c) == FraudMetrics(c.fraud, c.amounts, c.prob, c.prAuc)

\* ModelPromotionValidator.evaluate, of a validator with any configuration
Evaluate ==
    /\ call = "none"
    /\ call' = "evaluate"
    /\ \E c \in Candidates, required \in SUBSET Optional,
          calibrated, drift, leakage \in BOOLEAN :
          candidate' = [required |-> required, calibrated |-> calibrated, drift |-> drift,
                        leakage |-> leakage, fraud |-> c.fraud, amounts |-> c.amounts,
                        prob |-> c.prob, prAuc |-> c.prAuc]
    /\ failedGates' = FailedGates(MetricsOf(candidate'), candidate')
    /\ UNCHANGED <<readings, report, baseline, current, retrain>>

\* PromotionDecision.approved
Approved == call = "evaluate" /\ failedGates = {}

GatesNext == FullDriftCheck \/ Consult \/ Evaluate
=============================================================================
