---------------------------- MODULE MCTrainingData ----------------------------
(***************************************************************************)
(* TrainingData for TLC: four rows at any of the times inside, between    *)
(* and at the borders of the parts, and every file, of which a property    *)
(* that no check of its kind reads has one value.                          *)
(***************************************************************************)
EXTENDS TrainingData, TLC

Plain == [kind |-> "csv", checksum |-> TRUE, columns |-> "exact", text |-> {}, enough |-> TRUE,
          unique |-> TRUE, complete |-> TRUE, times |-> "in range", expected |-> TRUE,
          apart |-> TRUE]

MCFiles ==
    {[Plain EXCEPT !.kind = k, !.checksum = c] :
        k \in {"missing", "directory", "garbled"}, c \in BOOLEAN}
    \cup [kind : {"csv"}, checksum : BOOLEAN,
          columns : {"exact", "other", "no_id", "no_timestamp", "no_label"},
          text : SUBSET {"amount", "observed_label"},
          enough : {TRUE}, unique : BOOLEAN, complete : BOOLEAN,
          times : {"in range", "early", "unreadable"},
          expected : BOOLEAN, apart : BOOLEAN]
    \cup [kind : {"csv"}, checksum : {TRUE}, columns : {"exact"}, text : {{}},
          enough : {FALSE}, unique : {TRUE}, complete : {TRUE},
          times : {"in range", "late"}, expected : {TRUE}, apart : {TRUE}]

EntitySymmetry == Permutations(Entities)
=============================================================================
