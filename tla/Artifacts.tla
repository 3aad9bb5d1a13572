------------------------------ MODULE Artifacts ------------------------------
(***************************************************************************)
(* The directory artifacts/models: the production_* files through which    *)
(* the training job (training/run_experiments.py), the retraining          *)
(* operations (src/retraining/pipeline.py) and the API workers             *)
(* (src/api/app.py) communicate.                                           *)
(*                                                                         *)
(* A file's content is the training run whose object it holds: which run   *)
(* a model, a calibrator, an encoder or a scaler comes from is all that    *)
(* the loader's mistakes can be told by.  Every file is written in place,  *)
(* open(path, "wb") and then pickle.dump, so between the two steps, and    *)
(* for ever if the writer dies there, it is torn: pickle.load raises.      *)
(***************************************************************************)
EXTENDS Integers

CONSTANTS
    MaxRun,     \* bound: training runs started
    Absent,     \* the path does not exist
    Torn        \* the file was truncated and not yet, or never, rewritten

ASSUME ArtifactsAssumption ==
    /\ MaxRun \in Nat \ {0}
    /\ Absent \notin Int
    /\ Torn \notin Int
    /\ Absent # Torn

VARIABLES
    disk,       \* file -> content
    best        \* training run -> the experiment that it selected

Runs == 1 .. MaxRun

Content == Runs \union {Absent, Torn}

\* The files a training run writes, and the copy that the retraining
\* operations keep.
Files == {"model", "calibrator", "engineer", "scaler", "bundle", "manifest", "backup"}

Readable(f) == disk[f] \in Runs

-----------------------------------------------------------------------------
\* What the production model of a run is: one of the four experiments of
\* run_experiments.py.  Experiment 1 wraps its own StandardScaler in an
\* sklearn Pipeline; the boosted trees of 2 to 4 are fitted on raw features.
Experiments == {"lr_basic", "xgb_basic", "xgb_eng", "lgb_eng"}

FeatureSet(e) == IF e \in {"lr_basic", "xgb_basic"} THEN "basic" ELSE "engineered"

IsPipeline(e) == e = "lr_basic"

\* The order in which a request's features are laid out: the sorted columns
\* of a feature set, or, with no feature_names, the order of the dict that
\* generate_online_features returns.  That dict has the keys of the basic set
\* and no velocity feature: as many columns as "basic", in another order.
Layouts == {"basic", "engineered", "dict_order"}

Width(layout) == IF layout = "engineered" THEN "wide" ELSE "narrow"

ArtifactsTypeOK ==
    /\ disk \in [Files -> Content]
    /\ best \in [Runs -> Experiments]
=============================================================================
