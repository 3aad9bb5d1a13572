--------------------------- MODULE ModelSelection ---------------------------
(***************************************************************************)
(* The middle of the training job (main of training/run_experiments.py):   *)
(* four experiments of which three may fail or be skipped, the choice of   *)
(* the best model, the calibrator (src/calibration/calibrator.py) and the  *)
(* search for the thresholds of the greatest net benefit (optimize of      *)
(* ThresholdOptimizer, src/scoring/decision_engine.py).                    *)
(*                                                                         *)
(* What the libraries compute, the PR-AUC of an experiment and the         *)
(* probabilities that a calibration method gives, is any of a small set.   *)
(***************************************************************************)
EXTENDS CostModel, Sequences

CONSTANTS
    PrAucs,             \* values of val_pr_auc, in percent
    Frauds,             \* sets of the fraudulent rows that VAL_OPT may have
    Amounts,            \* amounts that its rows may have
    Calibrated,         \* probabilities that a method may give to VAL_OPT
    ApproveGrid, BlockGrid      \* the two np.linspace of optimize

ASSUME SelectionAssumption ==
    /\ PrAucs \subseteq Nat
    /\ Frauds \subseteq SUBSET Rows
    /\ Amounts \subseteq [Rows -> Int] \cup {NoAmounts}
    /\ Calibrated \subseteq [Rows -> 0 .. Scale]
    /\ ApproveGrid \in Seq(Int) /\ ApproveGrid # <<>>
    /\ BlockGrid \in Seq(Int) /\ BlockGrid # <<>>

VARIABLES
    step,       \* where the job is
    results,    \* all_results: val_pr_auc of the experiments that gave one
    best,       \* best_model_name
    sample,     \* labels and amounts of VAL_OPT
    calibrator, \* what each fitted method gives, and the active method
    search      \* the loop of optimize: the next pair, and the best so far

selectionVars == <<step, results, best, sample, calibrator, search>>

Experiments == <<"lr_basic", "xgb_basic", "xgb_eng", "lgb_eng">>

\* Of a method that was not fitted there are no probabilities.
Unfitted == <<>>

Pairs == Len(ApproveGrid) * Len(BlockGrid)

\* The pairs in the order of the two loops.
Pair(n) == [at |-> ApproveGrid[((n - 1) \div Len(BlockGrid)) + 1],
            bt |-> BlockGrid[((n - 1) % Len(BlockGrid)) + 1]]

SelectionInit ==
    /\ step = "experiment"
    /\ results = <<>>
    /\ best = "none"
    /\ sample = [fraud |-> {}, amounts |-> NoAmounts]
    /\ calibrator = [platt |-> Unfitted, isotonic |-> Unfitted, active |-> "platt"]
    /\ search = [next |-> 1, found |-> FALSE, at |-> 0, bt |-> 0, benefit |-> 0]

\* The experiment whose turn it is, by the number of those that are over.
Turn == Experiments[search.next]

\* Only the first experiment is not in a try.  One that fails after its entry
\* was made (saving its model, say) keeps the entry.
Experiment ==
    /\ step = "experiment"
    /\ \/ \E a \in PrAucs : results' = [e \in DOMAIN results \cup {Turn} |->
                                           IF e = Turn THEN a ELSE results[e]]
       \/ Turn # "lr_basic" /\ UNCHANGED results
    /\ IF search.next < Len(Experiments)
       THEN search' = [search EXCEPT !.next = @ + 1] /\ UNCHANGED step
       ELSE search' = [search EXCEPT !.next = 1] /\ step' = "select"
    /\ UNCHANGED <<best, sample, calibrator>>

Place(e) == CHOOSE k \in DOMAIN Experiments : Experiments[k] = e

\* max: of several best, the first.
Selected ==
    CHOOSE e \in DOMAIN results : \A f \in DOMAIN results :
        \/ results[e] > results[f]
        \/ results[e] = results[f] /\ Place(e) <= Place(f)

Select ==
    /\ step = "select"
    /\ best' = Selected
    /\ \E fraud \in Frauds, amounts \in Amounts : sample' = [fraud |-> fraud, amounts |-> amounts]
    /\ step' = "platt"
    /\ UNCHANGED <<results, calibrator, search>>

BestFeatures == IF best \in {"xgb_eng", "lgb_eng"} THEN "engineered" ELSE "basic"

\* fit_platt and fit_isotonic, on VAL_CALIB
Fit(method) ==
    /\ step = method
    /\ \E prob \in Calibrated :
          calibrator' = [calibrator EXCEPT ![method] = prob]
    /\ step' = IF method = "platt" THEN "isotonic" ELSE "pick"
    /\ UNCHANGED <<results, best, sample, search>>

\* evaluate: only the fitted methods have a result.
BrierOf(method) == Brier(sample.fraud, calibrator[method])

\* The methods in the order of evaluate's dict; the first is beaten only by a
\* lower score, and set_active_method.
PickMethod ==
    /\ step = "pick"
    /\ calibrator' = [calibrator EXCEPT !.active =
           IF BrierOf("isotonic") < BrierOf("platt") THEN "isotonic" ELSE "platt"]
    /\ step' = "search"
    /\ UNCHANGED <<results, best, sample, search>>

\* calibrate with the active method
ActiveProbabilities == calibrator[calibrator.active]

Benefit(pair) ==
    CostAnalysis(sample.fraud, sample.amounts, ActiveProbabilities, pair.at, pair.bt).benefit

\* Mutant: a pair that is as good as the best so far replaces it.
Try_LastWins ==
    /\ step = "search"
    /\ search.next <= Pairs
    /\ LET pair == Pair(search.next)
       IN  search' = IF pair.bt > pair.at /\ (~search.found \/ Benefit(pair) >= search.benefit)
                     THEN [next |-> search.next + 1, found |-> TRUE,
                           at |-> pair.at, bt |-> pair.bt, benefit |-> Benefit(pair)]
                     ELSE [search EXCEPT !.next = @ + 1]
    /\ UNCHANGED <<step, results, best, sample, calibrator>>

\* Mutant: no end of the loops.
Try_PastTheEnd ==
    /\ step = "search"
    /\ search' = [search EXCEPT !.next = @ + 1]
    /\ UNCHANGED <<step, results, best, sample, calibrator>>

\* One round of the inner loop: the best benefit starts at minus infinity, and
\* only a greater one replaces it.
Try ==
    /\ step = "search"
    /\ search.next <= Pairs
    /\ LET pair == Pair(search.next)
       IN  search' = IF pair.bt > pair.at /\ (~search.found \/ Benefit(pair) > search.benefit)
                     THEN [next |-> search.next + 1, found |-> TRUE,
                           at |-> pair.at, bt |-> pair.bt, benefit |-> Benefit(pair)]
                     ELSE [search EXCEPT !.next = @ + 1]
    /\ UNCHANGED <<step, results, best, sample, calibrator>>

\* optimize returns, or raises when there was no valid pair.
EndSearch ==
    /\ step = "search"
    /\ search.next > Pairs
    /\ step' = IF search.found THEN "optimized" ELSE "failed"
    /\ UNCHANGED <<results, best, sample, calibrator, search>>

\* An exception that nothing catches: of the first experiment, of a fit (a
\* sample of one class, say), of saving a file.
Raise ==
    /\ step \notin {"optimized", "failed"}
    /\ step' = "failed"
    /\ UNCHANGED <<results, best, sample, calibrator, search>>

SelectionNext ==
    \/ Experiment \/ Select \/ (\E m \in {"platt", "isotonic"} : Fit(m)) \/ PickMethod
    \/ Try \/ EndSearch \/ Raise
=============================================================================
