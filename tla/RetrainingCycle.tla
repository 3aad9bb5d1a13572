-------------------------- MODULE RetrainingCycle --------------------------
(***************************************************************************)
(* The two halves of a retraining: the training job that selects a model   *)
(* and its thresholds, and the operations that watch the model in          *)
(* production and judge a candidate.  No code chains them (the job saves   *)
(* its bundle without asking the gates), so a process does one or the      *)
(* other.                                                                  *)
(***************************************************************************)
EXTENDS ModelSelection, PromotionGates

VARIABLE process    \* what this process was started for

vars == <<process, selectionVars, gatesVars>>

Init ==
    /\ process \in {"training", "promotion"}
    /\ SelectionInit
    /\ GatesInit

Next ==
    \/ process = "training" /\ SelectionNext /\ UNCHANGED <<process, gatesVars>>
    \/ process = "promotion" /\ GatesNext /\ UNCHANGED <<process, selectionVars>>

Spec == Init /\ [][Next]_vars

-----------------------------------------------------------------------------
Steps == {"experiment", "select", "platt", "isotonic", "pick", "search", "optimized", "failed"}

Gates == {"pr_auc", "recall", "fpr", "brier", "cost", "calibration", "drift", "leakage"}

ResultsTypeOK ==
    /\ DOMAIN results \subseteq {"lr_basic", "xgb_basic", "xgb_eng", "lgb_eng"}
    /\ \A e \in DOMAIN results : results[e] \in PrAucs
    /\ best \in {"none"} \cup DOMAIN results

\* search counts the experiments first, and then the pairs of the grid.
SearchTypeOK ==
    /\ search \in [next : (1 .. Pairs + 1) \cup DOMAIN Experiments, found : BOOLEAN,
                   at : Int, bt : Int, benefit : Int]
    /\ step \notin {"experiment", "failed"} => search.next \in 1 .. Pairs + 1

SelectionTypeOK ==
    /\ step \in Steps
    /\ ResultsTypeOK
    /\ sample \in [fraud : Frauds \cup {{}}, amounts : Amounts \cup {NoAmounts}]
    /\ calibrator \in [platt : Calibrated \cup {Unfitted}, isotonic : Calibrated \cup {Unfitted},
                       active : {"platt", "isotonic"}]
    /\ SearchTypeOK

GatesTypeOK ==
    /\ call \in {"none", "drift", "retrain", "evaluate"}
    /\ readings \in [Features -> Reading]
    /\ report \in Severities
    /\ {baseline, current} \subseteq Performance
    /\ retrain \in BOOLEAN
    /\ candidate = NoCandidate \/ [fraud |-> candidate.fraud, amounts |-> candidate.amounts,
                                   prob |-> candidate.prob, prAuc |-> candidate.prAuc] \in Candidates
    /\ failedGates \subseteq Gates

TypeOK == process \in {"training", "promotion"} /\ SelectionTypeOK /\ GatesTypeOK

(***************************************************************************)
(* What the loops have found is the first of the best pairs among those    *)
(* seen, in the order of the grid, and at the end among all whose block    *)
(* threshold is above the approve threshold; the job fails when there is   *)
(* none, and goes no further.  The probabilities it searches on are those  *)
(* of the method with the lower Brier score, of a model that no other has  *)
(* beaten.                                                                 *)
(***************************************************************************)
Seen == {n \in 1 .. search.next - 1 : Pair(n).bt > Pair(n).at}

FoundFirst ==
    IF ~search.found
    THEN Seen = {}
    ELSE \E n \in Seen :
            /\ Pair(n) = [at |-> search.at, bt |-> search.bt]
            /\ search.benefit = Benefit(Pair(n))
            /\ \A k \in Seen : /\ Benefit(Pair(k)) <= search.benefit
                               /\ k < n => Benefit(Pair(k)) < search.benefit

BestModel ==
    /\ best \in DOMAIN results
    /\ \A e \in DOMAIN results : results[e] <= results[best]

BestMethod ==
    \A m \in {"platt", "isotonic"} : BrierOf(calibrator.active) <= BrierOf(m)

FirstOptimum ==
    step \in {"search", "optimized"} =>
        /\ FoundFirst
        /\ step = "optimized" => search.found /\ search.next = Pairs + 1
        /\ BestMethod
        /\ BestModel

(***************************************************************************)
(* A candidate that is approved was evaluated on fraud and on legitimate   *)
(* rows and caught some of the fraud, although every rate over no row is   *)
(* zero and no false positive rate can exceed what is allowed then; and    *)
(* what the configuration requires of it was so.                           *)
(***************************************************************************)
GuardedPromotion ==
    Approved =>
        /\ candidate.fraud \notin {{}, Rows}
        /\ \E i \in candidate.fraud : 2 * candidate.prob[i] >= Scale
        /\ "calibration" \in candidate.required => candidate.calibrated
        /\ "drift" \in candidate.required => ~candidate.drift
        /\ "leakage" \in candidate.required => ~candidate.leakage

(***************************************************************************)
(* The report hides no feature that was compared: it is critical when one  *)
(* of the two statistics of some feature reached its critical threshold,   *)
(* and names no drift only when none reached that of a warning.  Of the    *)
(* features that were skipped it says nothing, and a report on no feature  *)
(* at all is one without drift.                                            *)
(***************************************************************************)
Reached(psi, ks) ==
    \E f \in Features : readings[f] # Skipped /\ (readings[f].psi >= psi \/ readings[f].ks >= ks)

DriftIsReported ==
    call = "drift" =>
        /\ report = "critical" <=> Reached(PsiCritical, KsCritical)
        /\ report = "none" <=> ~Reached(PsiWarning, KsWarning)

-----------------------------------------------------------------------------
\* The inductive invariant of the selection: what each step of the job finds
\* done by the ones before it.
ExperimentInv ==
    /\ step = "experiment" => search.next \in DOMAIN Experiments
    /\ step = "experiment" /\ search.next > 1 => "lr_basic" \in DOMAIN results
    /\ step \notin {"experiment", "failed"} => "lr_basic" \in DOMAIN results

SelectInv ==
    /\ step \in {"platt", "isotonic", "pick", "search", "optimized"} => BestModel
    /\ step \notin {"search", "optimized", "failed"} => ~search.found
    /\ step \in {"select", "platt", "isotonic", "pick"} => search.next = 1

FitInv ==
    /\ step \in {"isotonic", "pick", "search", "optimized"} => calibrator.platt \in Calibrated
    /\ step \in {"pick", "search", "optimized"} => calibrator.isotonic \in Calibrated
    /\ step \in {"search", "optimized"} => BestMethod

SearchInv ==
    /\ step \in {"search", "optimized"} => FoundFirst
    /\ step = "optimized" => search.found /\ search.next = Pairs + 1

SelectionInv == SelectionTypeOK /\ ExperimentInv /\ SelectInv /\ FitInv /\ SearchInv

\* The inductive invariant of the operations: each answer is about what it
\* was asked for.
ReportInv == call = "drift" => readings \in Readings /\ report = Overall

EvaluatedInv ==
    call = "evaluate" =>
        /\ [fraud |-> candidate.fraud, amounts |-> candidate.amounts,
            prob |-> candidate.prob, prAuc |-> candidate.prAuc] \in Candidates
        /\ candidate.required \subseteq Optional
        /\ {candidate.calibrated, candidate.drift, candidate.leakage} \subseteq BOOLEAN
        /\ failedGates = FailedGates(MetricsOf(candidate), candidate)

IInv == GatesTypeOK /\ ReportInv /\ EvaluatedInv
=============================================================================
