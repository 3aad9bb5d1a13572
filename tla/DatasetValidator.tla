-------------------------- MODULE DatasetValidator --------------------------
(***************************************************************************)
(* validate_dataset (src/data/dataset_validator.py): the checks of the     *)
(* data set one after the other, what the report collects, and how the     *)
(* function ends.                                                          *)
(*                                                                         *)
(* A check that fails adds an entry to the report and, with fail_fast,     *)
(* raises.  Without it the function goes on, also into checks that need    *)
(* what an earlier one found missing, where it crashes.  The file is what  *)
(* the checks can tell of it; its checksum says nothing of the rest,       *)
(* since the expected one comes from the settings.                         *)
(***************************************************************************)
EXTENDS Integers, Sequences

VARIABLES
    file,       \* what there is at DatasetConfig.path
    failFast,   \* the argument fail_fast
    step,       \* the check that comes next
    passed,     \* report.checks_passed
    failed,     \* report.checks_failed, the names only
    warnings,   \* report.warnings, what they are about
    outcome     \* how the call ended

report == <<passed, failed, warnings>>

validatorVars == <<file, failFast, step, report, outcome>>

CountColumns == {"true_fraud_label", "observed_label", "is_outlier"}

(***************************************************************************)
(* columns: exact, the same in another order or with others, or without    *)
(* the one a later check reads; text: the columns that are not numbers, of *)
(* a measure and a count, which a check reads again; times: the range of   *)
(* event_timestamp; expected, apart: whether the counts of labels and      *)
(* outliers are those expected, and no outlier is a fraud.                 *)
(***************************************************************************)
File == [kind : {"missing", "directory", "garbled", "csv"},
         checksum : BOOLEAN,
         columns : {"exact", "other", "no_id", "no_timestamp", "no_label"},
         text : SUBSET {"amount", "observed_label"},
         enough : BOOLEAN, unique : BOOLEAN, complete : BOOLEAN,
         times : {"in range", "early", "late", "unreadable"},
         expected : BOOLEAN, apart : BOOLEAN]

Checks == <<"file_exists", "is_file", "sha256_checksum", "file_readable", "column_schema",
            "data_types", "row_count", "txn_id_unique", "no_nulls", "timestamp_range",
            "target_distribution", "outlier_fraud_separation">>

CheckNames == {Checks[i] : i \in DOMAIN Checks}

Ends == {"returned", "raised", "crashed"}

ValidatorInit ==
    /\ failFast \in BOOLEAN
    /\ step = "file_exists"
    /\ passed = <<>> /\ failed = <<>> /\ warnings = {}
    /\ outcome = "running"

At(check) == outcome = "running" /\ step = check

\* _pass
Pass(check, next) ==
    /\ passed' = Append(passed, check)
    /\ step' = next
    /\ UNCHANGED <<file, failFast, failed, warnings, outcome>>

\* _fail, after which the function goes on, unless it raises.
Fail(check, next) ==
    /\ failed' = Append(failed, check)
    /\ step' = next
    /\ outcome' = IF failFast THEN "raised" ELSE outcome
    /\ UNCHANGED <<file, failFast, passed, warnings>>

\* _fail and return report.
FailAndReturn(check) ==
    /\ failed' = Append(failed, check)
    /\ outcome' = IF failFast THEN "raised" ELSE "returned"
    /\ UNCHANGED <<file, failFast, step, passed, warnings>>

\* Any other exception: the file lacks the column that the check reads.
Crashes ==
    /\ outcome' = "crashed"
    /\ UNCHANGED <<file, failFast, step, report>>

FileExists ==
    /\ At("file_exists")
    /\ IF file.kind = "missing" THEN FailAndReturn("file_exists")
                                ELSE Pass("file_exists", "is_file")

IsFile ==
    /\ At("is_file")
    /\ IF file.kind = "directory" THEN FailAndReturn("is_file")
                                  ELSE Pass("is_file", "sha256_checksum")

Sha256 ==
    /\ At("sha256_checksum")
    /\ IF file.checksum THEN Pass("sha256_checksum", "file_readable")
                        ELSE Fail("sha256_checksum", "file_readable")

FileReadable ==
    /\ At("file_readable")
    /\ IF file.kind = "garbled" THEN FailAndReturn("file_readable")
                                ELSE Pass("file_readable", "column_schema")

\* Mutant: the columns are compared as sets.
ColumnSchema_AsSets ==
    /\ At("column_schema")
    /\ IF file.columns \in {"exact", "other"} THEN Pass("column_schema", "data_types")
                                              ELSE Fail("column_schema", "data_types")

ColumnSchema ==
    /\ At("column_schema")
    /\ IF file.columns = "exact" THEN Pass("column_schema", "data_types")
                                 ELSE Fail("column_schema", "data_types")

\* One entry for every column that is not numeric; without fail_fast the
\* check is then listed as passed as well.
DataTypes ==
    /\ At("data_types")
    /\ IF file.text # {} /\ failFast
       THEN Fail("data_types", "row_count")
       ELSE /\ passed' = Append(passed, "data_types")
            /\ failed' = IF file.text = {} THEN failed
                         ELSE IF file.text = {"amount", "observed_label"}
                         THEN failed \o <<"data_types", "data_types">>
                         ELSE Append(failed, "data_types")
            /\ step' = "row_count"
            /\ UNCHANGED <<file, failFast, warnings, outcome>>

RowCount ==
    /\ At("row_count")
    /\ IF file.enough THEN Pass("row_count", "txn_id_unique")
                      ELSE Fail("row_count", "txn_id_unique")

TxnIdUnique ==
    /\ At("txn_id_unique")
    /\ IF file.columns = "no_id" THEN Crashes
       ELSE IF file.unique THEN Pass("txn_id_unique", "no_nulls")
                           ELSE Fail("txn_id_unique", "no_nulls")

NoNulls ==
    /\ At("no_nulls")
    /\ IF file.complete THEN Pass("no_nulls", "timestamp_range")
                        ELSE Fail("no_nulls", "timestamp_range")

(***************************************************************************)
(* The whole check is in a try: that of _fail is caught with fail_fast,    *)
(* and followed by a second _fail, which raises.  A missing column is      *)
(* caught too, and is a failure.                                           *)
(***************************************************************************)
TimestampRange ==
    /\ At("timestamp_range")
    /\ IF file.times = "in range" /\ file.columns # "no_timestamp"
       THEN Pass("timestamp_range", "target_distribution")
       ELSE IF failFast /\ file.times \in {"early", "late"} /\ file.columns # "no_timestamp"
       THEN /\ failed' = failed \o <<"timestamp_range", "timestamp_range">>
            /\ outcome' = "raised"
            /\ UNCHANGED <<file, failFast, step, passed, warnings>>
       ELSE Fail("timestamp_range", "target_distribution")

(***************************************************************************)
(* Counts that differ are a warning only.  The sum of a column of text is  *)
(* its concatenation, which may or may not read as a number.               *)
(***************************************************************************)
TargetDistribution ==
    /\ At("target_distribution")
    /\ IF file.columns = "no_label" THEN Crashes
       ELSE \/ /\ passed' = Append(passed, "target_distribution")
               /\ warnings' = IF file.expected /\ "observed_label" \notin file.text
                              THEN warnings ELSE warnings \cup {"counts"}
               /\ step' = "outlier_fraud_separation"
               /\ UNCHANGED <<file, failFast, failed, outcome>>
            \/ /\ "observed_label" \in file.text
               /\ passed' = Append(passed, "target_distribution")
               /\ outcome' = "crashed"
               /\ UNCHANGED <<file, failFast, step, failed, warnings>>

OutlierFraudSeparation ==
    /\ At("outlier_fraud_separation")
    /\ IF file.apart THEN passed' = Append(passed, "outlier_fraud_separation") /\ UNCHANGED warnings
                     ELSE warnings' = warnings \cup {"fraud in outliers"} /\ UNCHANGED passed
    /\ outcome' = "returned"
    /\ UNCHANGED <<file, failFast, step, failed>>

Validate ==
    \/ FileExists \/ IsFile \/ Sha256 \/ FileReadable \/ ColumnSchema \/ DataTypes
    \/ RowCount \/ TxnIdUnique \/ NoNulls \/ TimestampRange
    \/ TargetDistribution \/ OutlierFraudSeparation

-----------------------------------------------------------------------------
ValidatorTypeOK ==
    /\ file \in File
    /\ failFast \in BOOLEAN
    /\ step \in CheckNames
    /\ passed \in Seq(CheckNames) /\ failed \in Seq(CheckNames)
    /\ warnings \subseteq {"counts", "fraud in outliers"}
    /\ outcome \in {"running"} \cup Ends

\* What each check is there to find out, apart from how it goes about it.
Holds(check) ==
    CASE check = "file_exists"     -> file.kind # "missing"
      [] check = "is_file"         -> file.kind # "directory"
      [] check = "sha256_checksum" -> file.checksum
      [] check = "file_readable"   -> file.kind # "garbled"
      [] check = "column_schema"   -> file.columns = "exact"
      [] check = "data_types"      -> file.text = {}
      [] check = "row_count"       -> file.enough
      [] check = "txn_id_unique"   -> file.unique
      [] check = "no_nulls"        -> file.complete
      [] check = "timestamp_range" -> file.times = "in range" /\ file.columns # "no_timestamp"
      [] OTHER                     -> TRUE

Sound == \A check \in CheckNames : Holds(check)

Entries(list) == {list[j] : j \in DOMAIN list}

FirstToFail == CHOOSE i \in DOMAIN Checks :
                  ~Holds(Checks[i]) /\ \A j \in 1 .. i - 1 : Holds(Checks[j])

(***************************************************************************)
(* The report says of the file what is the case.  Each entry is right but  *)
(* that of data_types, which is listed as passed whenever the call goes    *)
(* on; a report that is returned is valid exactly for a sound file, and    *)
(* leaves out no check that could be made.  With fail_fast the call raises *)
(* for the first check that the file fails, names no other, and never gets *)
(* to a check that crashes.                                                *)
(***************************************************************************)
ReportIsExact ==
    /\ \A check \in Entries(failed) : ~Holds(check)
    /\ \A check \in Entries(passed) : check # "data_types" => Holds(check)
    /\ outcome = "returned" =>
          /\ failed = <<>> <=> Sound
          /\ file.kind = "csv" =>
                \A i \in 1 .. 11 : Checks[i] \in Entries(passed) \cup Entries(failed)
    /\ outcome = "raised" => \A check \in Entries(failed) : check = Checks[FirstToFail]
    /\ outcome \in {"raised", "crashed"} => (failFast <=> outcome = "raised")

\* The inductive invariant: as long as the call runs, the report is about the
\* checks before the next one.
RunningInv ==
    \E k \in DOMAIN Checks :
        /\ step = Checks[k]
        /\ failFast => failed = <<>>
        /\ failed = <<>> <=> \A i \in 1 .. k - 1 : Holds(Checks[i])
        /\ \A i \in 1 .. k - 1 : Checks[i] \in Entries(passed) \cup Entries(failed)

ReportInv ==
    /\ passed \in Seq(CheckNames) /\ failed \in Seq(CheckNames)
    /\ outcome \in {"running"} \cup Ends
    /\ outcome = "running" => RunningInv
    /\ outcome = "returned" /\ failFast => failed = <<>>
    /\ ReportIsExact
=============================================================================
