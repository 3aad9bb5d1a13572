---------------------------- MODULE TrainingData ----------------------------
(***************************************************************************)
(* The data path of the training job (main of                              *)
(* src/training/run_experiments.py, steps 1 to 5): the data set is         *)
(* validated, loaded and sorted, split by time (src/models/                *)
(* temporal_split.py), turned into features (src/features/pipeline.py),    *)
(* and the validation part is divided for calibration and optimisation.    *)
(*                                                                         *)
(* A row is its place in the sorted frame; of its content there is its     *)
(* time and its entity (a card, say; the six entity columns are handled    *)
(* alike).  A feature row is where its values come from: the row that the  *)
(* static features are of, the rows that the velocities are computed from  *)
(* and the rows that the category frequencies are taken from.              *)
(* The call of validate_dataset may also be that of a test or a report     *)
(* (fail_fast=False), after which there is no job.                         *)
(***************************************************************************)
EXTENDS DatasetValidator, FiniteSets

CONSTANTS
    Rows,           \* number of rows of the data set
    Times,          \* timestamps
    Entities,
    Files,          \* the files there may be
    TrainEnd, ValStart, CalibEnd, OptStart, ValEnd, TestStart  \* TemporalSplitConfig

ASSUME SplitAssumption ==
    /\ Rows \in Nat
    /\ Times \subseteq Int
    /\ {TrainEnd, ValStart, CalibEnd, OptStart, ValEnd, TestStart} \subseteq Int
    /\ TrainEnd < ValStart /\ ValStart <= CalibEnd /\ CalibEnd < OptStart
    /\ OptStart <= ValEnd /\ ValEnd < TestStart
    /\ Files \subseteq File

VARIABLES
    stage,      \* what the job has done
    df,         \* the sorted frame
    parts,      \* the indices of the split, each list as a set, for they ascend
    fitted,     \* rows that the category maps were fitted on
    features,   \* feature rows of train, val and test
    masks       \* the validation feature rows used for calibration and optimisation

vars == <<validatorVars, stage, df, parts, fitted, features, masks>>

Row == 1 .. Rows

PartNames == {"train", "val", "calib", "opt", "test"}

FeatureRow == [row : Row, prior : SUBSET Row, frequencies : SUBSET Row]

NoParts == [name \in PartNames |-> {}]

NoFeatures == [name \in {"train", "val", "test"} |-> <<>>]

NoMasks == [name \in {"calib", "opt"} |-> <<>>]

Init ==
    /\ file \in Files
    /\ ValidatorInit
    /\ stage = "validate"
    /\ df = <<>>
    /\ parts = NoParts
    /\ fitted = {}
    /\ features = NoFeatures
    /\ masks = NoMasks

Check ==
    /\ stage = "validate"
    /\ Validate
    /\ UNCHANGED <<stage, df, parts, fitted, features, masks>>

\* load_dataset, and sort_values("event_timestamp"), which leaves rows of the
\* same time in any order; reset_index numbers the rows.
Load ==
    /\ stage = "validate"
    /\ failFast /\ outcome = "returned"
    /\ df' \in {d \in [Row -> [time : Times, entity : Entities]] :
                   \A i, j \in Row : i < j => d[i].time <= d[j].time}
    /\ stage' = "loaded"
    /\ UNCHANGED <<validatorVars, parts, fitted, features, masks>>

Between(low, high) == {i \in Row : low <= df[i].time /\ df[i].time <= high}

Upto(high) == {i \in Row : df[i].time <= high}

From(low) == {i \in Row : low <= df[i].time}

\* Mutant: the validation part starts where the training part ends.
Split_TouchingParts ==
    [train |-> Upto(TrainEnd),
     val   |-> Between(TrainEnd, ValEnd),
     calib |-> Between(ValStart, CalibEnd),
     opt   |-> Between(OptStart, ValEnd),
     test  |-> From(TestStart)]

Split ==
    [train |-> Upto(TrainEnd),
     val   |-> Between(ValStart, ValEnd),
     calib |-> Between(ValStart, CalibEnd),
     opt   |-> Between(OptStart, ValEnd),
     test  |-> From(TestStart)]

\* temporal_train_val_test_split: the assertions leave out the whole of val.
NoOverlap(split) ==
    \A a, b \in {"train", "calib", "opt", "test"} : a # b => split[a] \cap split[b] = {}

SplitByTime ==
    /\ stage = "loaded"
    /\ NoOverlap(Split)
    /\ parts' = Split
    /\ stage' = "split"
    /\ UNCHANGED <<validatorVars, df, fitted, features, masks>>

\* The elements of a set in ascending order
Ascending(set) ==
    CHOOSE list \in [1 .. Cardinality(set) -> set] :
        \A p, q \in DOMAIN list : p < q => list[p] < list[q]

\* df.loc[idx]
Frame(rows) == Ascending(rows)

FitCategoricalMaps ==
    /\ stage = "split"
    /\ fitted' = parts.train
    /\ stage' = "fitted"
    /\ UNCHANGED <<validatorVars, df, parts, features, masks>>

\* Mutant: the totals of the group are not shifted by the current row.
VelocityRows_WithCurrent(frame, p) ==
    {frame[q] : q \in {r \in 1 .. p : df[frame[r]].entity = df[frame[p]].entity}}

\* Mutant: the -1 that stands for no previous transaction is taken for a row.
VelocityRows_MinusOne(frame, p) ==
    IF \E r \in 1 .. p - 1 : df[frame[r]].entity = df[frame[p]].entity
    THEN {frame[q] : q \in {r \in 1 .. p - 1 : df[frame[r]].entity = df[frame[p]].entity}}
    ELSE {-1}

\* generate_velocity_features_fast: counts, sums and deviations over the rows
\* of the same entity above row p of the frame.
VelocityRows(frame, p) ==
    {frame[q] : q \in {r \in 1 .. p - 1 : df[frame[r]].entity = df[frame[p]].entity}}

\* A frame that is not in time order is sorted, and its rows are renumbered.
InTimeOrder(frame) ==
    IF \A p, q \in DOMAIN frame : p < q => df[frame[p]].time <= df[frame[q]].time
    THEN frame
    ELSE Frame({frame[p] : p \in DOMAIN frame})

\* _generate_features_single
FeaturesSingle(frame) ==
    LET sorted == InTimeOrder(frame)
    IN  [p \in DOMAIN sorted |-> [row |-> sorted[p], prior |-> VelocityRows(sorted, p),
                                  frequencies |-> fitted]]

\* Mutant: the history is not cut off the result.
AllFeatures_WithHistory(frame, history) == FeaturesSingle(history \o frame)

\* generate_all_features: the history is put before the frame, and its rows
\* are cut off the result by their number.
AllFeatures(frame, history) ==
    IF history = <<>>
    THEN FeaturesSingle(frame)
    ELSE LET combined == FeaturesSingle(InTimeOrder(history \o frame))
         IN  SubSeq(combined, Len(history) + 1, Len(combined))

GenerateFeatures ==
    /\ stage = "fitted"
    /\ LET train == Frame(parts.train)
           val   == Frame(parts.val)
           test  == Frame(parts.test)
       IN  features' = [train |-> AllFeatures(train, <<>>),
                        val   |-> AllFeatures(val, train),
                        test  |-> AllFeatures(test, train \o val)]
    /\ stage' = "features"
    /\ UNCHANGED <<validatorVars, df, parts, fitted, masks>>

\* np.isin(split.val_idx, subset): the rows of val, and so of the model's
\* probabilities for val, that belong to a sub-split.
Masked(subset) ==
    LET places == Ascending({p \in DOMAIN Frame(parts.val) : Frame(parts.val)[p] \in subset})
    IN  [n \in DOMAIN places |-> features.val[places[n]]]

SubSplits ==
    /\ stage = "features"
    /\ masks' = [calib |-> Masked(parts.calib), opt |-> Masked(parts.opt)]
    /\ stage' = "divided"
    /\ UNCHANGED <<validatorVars, df, parts, fitted, features>>

Next == Check \/ Load \/ SplitByTime \/ FitCategoricalMaps \/ GenerateFeatures \/ SubSplits

Spec == Init /\ [][Next]_vars

-----------------------------------------------------------------------------
Stages == {"validate", "loaded", "split", "fitted", "features", "divided"}

TypeOK ==
    /\ ValidatorTypeOK
    /\ stage \in Stages
    /\ stage # "validate" => df \in [Row -> [time : Times, entity : Entities]]
    /\ parts \in [PartNames -> SUBSET Row]
    /\ fitted \subseteq Row
    /\ features \in [{"train", "val", "test"} -> Seq(FeatureRow)]
    /\ masks \in [{"calib", "opt"} -> Seq(FeatureRow)]

(***************************************************************************)
(* Only a sound file is trained on, and of its rows none is in two of the  *)
(* parts, each part is over before the next one starts, calibration and    *)
(* optimisation share no row and are of the validation part, and the only  *)
(* rows in no part are those between the end of one and the start of the   *)
(* next (half a second past midnight, with the settings as they are).      *)
(***************************************************************************)
Before(a, b) == \A i \in parts[a], j \in parts[b] : i < j /\ df[i].time < df[j].time

InGap(i) ==
    \/ TrainEnd < df[i].time /\ df[i].time < ValStart
    \/ ValEnd < df[i].time /\ df[i].time < TestStart

PartsInTime ==
    /\ stage # "validate" => Sound
    /\ stage \notin {"validate", "loaded"} =>
          /\ Before("train", "val") /\ Before("val", "test")
          /\ Before("train", "test") /\ Before("calib", "opt")
          /\ parts.calib \cup parts.opt \subseteq parts.val
          /\ \A i \in Row : i \in parts.train \cup parts.val \cup parts.test \/ InGap(i)

(***************************************************************************)
(* The feature rows of a part are its rows, in the order of its labels,    *)
(* with and without history, and so are the probabilities that are         *)
(* calibrated and optimised on; frequencies are those of the training part.*)
(***************************************************************************)
RowsOf(rows, table) ==
    /\ Len(table) = Len(Frame(rows))
    /\ \A p \in DOMAIN table : /\ table[p].row = Frame(rows)[p]
                               /\ table[p].frequencies = parts.train

RowsAlign ==
    /\ stage \in {"features", "divided"} =>
          \A part \in {"train", "val", "test"} : RowsOf(parts[part], features[part])
    /\ stage = "divided" =>
          \A part \in {"calib", "opt"} : RowsOf(parts[part], masks[part])

(***************************************************************************)
(* Velocities look back only, and over the border of the parts: they are   *)
(* computed from all earlier rows of the entity that are in a part, and,   *)
(* of those at the same time, from none that comes later in the frame.     *)
(* Those that stand earlier count as prior: the code goes by the place in  *)
(* the frame, where features/pipeline.py:12 says "strictly-prior".         *)
(***************************************************************************)
Kept == parts.train \cup parts.val \cup parts.test

NoLookAhead ==
    stage \in {"features", "divided"} =>
        \A part \in {"train", "val", "test"} :
            \A p \in DOMAIN features[part] :
                LET f == features[part][p]
                IN  f.prior = {i \in Kept : i < f.row /\ df[i].entity = df[f.row].entity}

-----------------------------------------------------------------------------
\* The inductive invariant: IInv up to the parts, JobInv with what follows.
FrameInv ==
    stage # "validate" =>
        /\ outcome = "returned" /\ Sound
        /\ df \in [Row -> [time : Times, entity : Entities]]
        /\ \A i, j \in Row : i < j => df[i].time <= df[j].time

SplitInv == stage \notin {"validate", "loaded"} => parts = Split

IInv == stage \in Stages /\ ReportInv /\ FrameInv /\ SplitInv

CallInv ==
    /\ file \in File /\ failFast \in BOOLEAN /\ step \in CheckNames
    /\ warnings \subseteq {"counts", "fraud in outliers"}

\* What the tables of a part are made of, once they are made.
Table(rows) ==
    [p \in DOMAIN Frame(rows) |->
        [row |-> Frame(rows)[p],
         prior |-> {i \in Kept : i < Frame(rows)[p] /\ df[i].entity = df[Frame(rows)[p]].entity},
         frequencies |-> parts.train]]

FreshInv ==
    /\ stage \in {"validate", "loaded"} => parts = NoParts
    /\ stage \in {"validate", "loaded", "split"} => fitted = {}
    /\ stage \notin {"features", "divided"} => features = NoFeatures
    /\ stage # "divided" => masks = NoMasks

TablesInv ==
    /\ stage \in {"fitted", "features", "divided"} => fitted = parts.train
    /\ stage \in {"features", "divided"} =>
          features = [part \in {"train", "val", "test"} |-> Table(parts[part])]
    /\ stage = "divided" => masks = [part \in {"calib", "opt"} |-> Table(parts[part])]

JobInv == IInv /\ CallInv /\ FreshInv /\ TablesInv
=============================================================================
