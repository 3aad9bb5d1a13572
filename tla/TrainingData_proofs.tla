------------------------ MODULE TrainingData_proofs ------------------------
(***************************************************************************)
(* Proofs about TrainingData: the report of the validator is exact, only a *)
(* sound file is trained on, the parts are disjoint and in time order, the *)
(* features of a part are those of its rows, and velocities look back only;*)
(* for any file, any number of rows, any times and any dates of the split. *)
(***************************************************************************)
EXTENDS TrainingData, FiniteSetTheorems, TLAPS

-----------------------------------------------------------------------------
\* Lists of checks.

LEMMA EntriesFacts ==
    ASSUME NEW S, NEW list \in Seq(S), NEW x \in S
    PROVE  /\ Entries(<<>>) = {}
           /\ Append(list, x) \in Seq(S) /\ Append(list, x) # <<>>
           /\ Entries(Append(list, x)) = Entries(list) \cup {x}
<1>1. /\ Append(list, x) \in Seq(S) /\ Len(list) \in Nat
      /\ DOMAIN list = 1 .. Len(list)
      /\ DOMAIN Append(list, x) = (1 .. Len(list)) \cup {Len(list) + 1}
      /\ \A i \in 1 .. Len(list) : Append(list, x)[i] = list[i]
      /\ Append(list, x)[Len(list) + 1] = x
    OBVIOUS
<1>2. Append(list, x) # <<>>
    BY <1>1
<1>3. Entries(Append(list, x)) = Entries(list) \cup {x}
    BY <1>1 DEF Entries
<1> QED
    BY <1>1, <1>2, <1>3 DEF Entries

\* The two entries that an exception caught by its own check leaves.
LEMMA TwoEntries ==
    ASSUME NEW S, NEW list \in Seq(S), NEW x \in S
    PROVE  /\ list \o <<x, x>> \in Seq(S) /\ list \o <<x, x>> # <<>>
           /\ Entries(list \o <<x, x>>) = Entries(list) \cup {x}
<1> DEFINE longer == Append(list, x)
<1>1. list \o <<x, x>> = Append(longer, x)
    OBVIOUS
<1>2. longer \in Seq(S) /\ Entries(longer) = Entries(list) \cup {x}
    BY EntriesFacts
<1> HIDE DEF longer
<1>3. /\ Append(longer, x) \in Seq(S) /\ Append(longer, x) # <<>>
      /\ Entries(Append(longer, x)) = Entries(longer) \cup {x}
    BY <1>2, EntriesFacts
<1> QED
    BY <1>1, <1>2, <1>3

LEMMA ChecksFacts ==
    /\ DOMAIN Checks = 1 .. 12
    /\ CheckNames = {Checks[i] : i \in 1 .. 12}
    /\ Checks[1] = "file_exists" /\ Checks[2] = "is_file" /\ Checks[3] = "sha256_checksum"
    /\ Checks[4] = "file_readable" /\ Checks[5] = "column_schema" /\ Checks[6] = "data_types"
    /\ Checks[7] = "row_count" /\ Checks[8] = "txn_id_unique" /\ Checks[9] = "no_nulls"
    /\ Checks[10] = "timestamp_range" /\ Checks[11] = "target_distribution"
    /\ Checks[12] = "outlier_fraud_separation"
BY DEF Checks, CheckNames

LEMMA ChecksDiffer ==
    \A i, j \in 1 .. 12 : Checks[i] = Checks[j] => i = j
<1> SUFFICES ASSUME NEW i \in 1 .. 12, NEW j \in 1 .. 12, Checks[i] = Checks[j] PROVE i = j
    OBVIOUS
<1>1. /\ i \in {1, 2, 3, 4, 5, 6, 7, 8, 9, 10, 11, 12}
      /\ j \in {1, 2, 3, 4, 5, 6, 7, 8, 9, 10, 11, 12}
    OBVIOUS
<1> QED
    BY <1>1, ChecksFacts

\* The first check that fails is the one with all before it passed.
LEMMA FirstFacts ==
    ASSUME NEW k \in 1 .. 12, ~Holds(Checks[k]), \A i \in 1 .. k - 1 : Holds(Checks[i])
    PROVE  FirstToFail = k
<1>1. \A i \in DOMAIN Checks :
          (~Holds(Checks[i]) /\ \A j \in 1 .. i - 1 : Holds(Checks[j])) <=> i = k
  <2> SUFFICES ASSUME NEW i \in 1 .. 12, i # k, ~Holds(Checks[i]),
                      \A j \in 1 .. i - 1 : Holds(Checks[j])
               PROVE FALSE
      BY ChecksFacts
  <2>1. i < k \/ k < i
      OBVIOUS
  <2> QED
      BY <2>1
<1> QED
    BY <1>1, ChecksFacts DEF FirstToFail

-----------------------------------------------------------------------------
\* The validator: what the report says when a check passes or fails.

LEMMA Running ==
    ASSUME ReportInv, NEW k \in 1 .. 12, At(Checks[k])
    PROVE  /\ step = Checks[k] /\ outcome = "running"
           /\ passed \in Seq(CheckNames) /\ failed \in Seq(CheckNames)
           /\ Checks[k] \in CheckNames
           /\ failFast => failed = <<>>
           /\ failed = <<>> <=> \A i \in 1 .. k - 1 : Holds(Checks[i])
           /\ \A i \in 1 .. k - 1 : Checks[i] \in Entries(passed) \cup Entries(failed)
           /\ \A check \in Entries(failed) : ~Holds(check)
           /\ \A check \in Entries(passed) : check # "data_types" => Holds(check)
<1>1. step = Checks[k] /\ outcome = "running" /\ RunningInv
    BY DEF At, ReportInv
<1>2. PICK m \in 1 .. 12 :
        /\ step = Checks[m]
        /\ failFast => failed = <<>>
        /\ failed = <<>> <=> \A i \in 1 .. m - 1 : Holds(Checks[i])
        /\ \A i \in 1 .. m - 1 : Checks[i] \in Entries(passed) \cup Entries(failed)
    BY <1>1, ChecksFacts DEF RunningInv
<1>3. m = k
    BY <1>1, <1>2, ChecksDiffer
<1>4. /\ passed \in Seq(CheckNames) /\ failed \in Seq(CheckNames)
      /\ \A check \in Entries(failed) : ~Holds(check)
      /\ \A check \in Entries(passed) : check # "data_types" => Holds(check)
    BY DEF ReportInv, ReportIsExact
<1>5. Checks[k] \in CheckNames
    BY ChecksFacts
<1> QED
    BY <1>1, <1>2, <1>3, <1>4, <1>5

\* The file does not change, and so what holds of it does not.
LEMMA HoldsStays ==
    ASSUME UNCHANGED file
    PROVE  (\A check : Holds(check)' <=> Holds(check)) /\ (Sound' <=> Sound)
BY DEF Holds, Sound

LEMMA FirstStays ==
    ASSUME UNCHANGED file
    PROVE  FirstToFail' = FirstToFail
BY DEF FirstToFail, Holds

\* The call goes on with the next check: this one has its entries, and failed
\* has some now exactly when it failed, which fail_fast does not survive.
LEMMA GoesOn ==
    ASSUME ReportInv, NEW k \in 1 .. 11, At(Checks[k]), UNCHANGED <<file, failFast, outcome>>,
           step' = Checks[k + 1],
           passed' \in Seq(CheckNames), failed' \in Seq(CheckNames),
           Entries(passed') \in {Entries(passed), Entries(passed) \cup {Checks[k]}},
           Entries(failed') \in {Entries(failed), Entries(failed) \cup {Checks[k]}},
           Checks[k] \in Entries(passed') \cup Entries(failed'),
           Holds(Checks[k]) => failed' = failed,
           ~Holds(Checks[k]) => failed' # <<>> /\ ~failFast,
           Checks[k] \in Entries(passed') /\ Checks[k] # "data_types" => Holds(Checks[k])
    PROVE  ReportInv'
<1>0. k \in 1 .. 12
    OBVIOUS
<1>1. /\ outcome = "running"
      /\ failFast => failed = <<>>
      /\ failed = <<>> <=> \A i \in 1 .. k - 1 : Holds(Checks[i])
      /\ \A i \in 1 .. k - 1 : Checks[i] \in Entries(passed) \cup Entries(failed)
      /\ \A check \in Entries(failed) : ~Holds(check)
      /\ \A check \in Entries(passed) : check # "data_types" => Holds(check)
    BY <1>0, Running
<1>2. \A check : Holds(check)' <=> Holds(check)
    BY HoldsStays
<1>3. k + 1 \in DOMAIN Checks /\ \A i \in 1 .. (k + 1) - 1 : i = k \/ i \in 1 .. k - 1
    BY ChecksFacts
<1>4. failFast' => failed' = <<>>
    BY <1>1
<1>5. failed' = <<>> <=> \A i \in 1 .. (k + 1) - 1 : Holds(Checks[i])
  <2>1. CASE Holds(Checks[k])
      BY <2>1, <1>1, <1>3
  <2>2. CASE ~Holds(Checks[k])
      BY <2>2, <1>3
  <2> QED
      BY <2>1, <2>2
<1>6. \A i \in 1 .. (k + 1) - 1 : Checks[i] \in Entries(passed') \cup Entries(failed')
    BY <1>1, <1>3
<1>7. RunningInv'
    BY <1>2, <1>3, <1>4, <1>5, <1>6 DEF RunningInv, Entries
<1>8. /\ \A check \in Entries(failed') : ~Holds(check)
      /\ \A check \in Entries(passed') : check # "data_types" => Holds(check)
  <2>1. ASSUME NEW check \in Entries(failed') PROVE ~Holds(check)
    <3>1. CASE check \in Entries(failed)
        BY <3>1, <1>1
    <3>2. CASE check = Checks[k] /\ check \notin Entries(failed)
      <4>1. failed' # failed
          BY <3>2, <2>1
      <4> QED
          BY <4>1, <3>2
    <3> QED
        BY <3>1, <3>2
  <2>2. ASSUME NEW check \in Entries(passed'), check # "data_types" PROVE Holds(check)
      BY <2>2, <1>1
  <2> QED
      BY <2>1, <2>2
<1>9. ReportIsExact'
    BY <1>1, <1>2, <1>8 DEF ReportIsExact, Entries
<1> QED
    BY <1>1, <1>7, <1>9 DEF ReportInv

\* The call raises at a check that fails, which is then the first to fail.
LEMMA Raises ==
    ASSUME ReportInv, NEW k \in 1 .. 12, At(Checks[k]), ~Holds(Checks[k]), failFast,
           UNCHANGED <<file, failFast, passed>>,
           outcome' = "raised",
           failed' \in Seq(CheckNames),
           Entries(failed') = Entries(failed) \cup {Checks[k]}
    PROVE  ReportInv'
<1>1. /\ passed \in Seq(CheckNames) /\ failed = <<>>
      /\ \A i \in 1 .. k - 1 : Holds(Checks[i])
      /\ \A check \in Entries(passed) : check # "data_types" => Holds(check)
    BY Running
<1>2. \A check : Holds(check)' <=> Holds(check)
    BY HoldsStays
<1>3. Entries(failed') = {Checks[k]}
  <2>1. DOMAIN failed = {}
      BY <1>1
  <2>2. Entries(failed) = {}
      BY <2>1 DEF Entries
  <2> QED
      BY <2>2
<1>4. FirstToFail = k
    BY <1>1, FirstFacts
<1>5. FirstToFail' = FirstToFail
    BY FirstStays
<1>6. ReportIsExact'
  <2>1. \A check \in Entries(failed') : ~Holds(check)'
      BY <1>2, <1>3
  <2>2. \A check \in Entries(passed') : check # "data_types" => Holds(check)'
      BY <1>1, <1>2
  <2>3. \A check \in Entries(failed') : check = Checks[FirstToFail']
      BY <1>3, <1>4, <1>5
  <2> QED
      BY <2>1, <2>2, <2>3 DEF ReportIsExact, Entries
<1> QED
    BY <1>1, <1>6 DEF ReportInv, Ends

LEMMA PassInv ==
    ASSUME ReportInv, NEW k \in 1 .. 11, At(Checks[k]), Holds(Checks[k]),
           Pass(Checks[k], Checks[k + 1])
    PROVE  ReportInv'
<1>1. k \in 1 .. 12
    OBVIOUS
<1>2. passed \in Seq(CheckNames) /\ failed \in Seq(CheckNames) /\ Checks[k] \in CheckNames
    BY <1>1, Running
<1>3. /\ passed' = Append(passed, Checks[k]) /\ step' = Checks[k + 1]
      /\ UNCHANGED <<file, failFast, failed, outcome>>
    BY DEF Pass
<1>4. passed' \in Seq(CheckNames) /\ Entries(passed') = Entries(passed) \cup {Checks[k]}
    BY <1>2, <1>3, EntriesFacts
<1> QED
    BY <1>2, <1>3, <1>4, GoesOn

LEMMA FailInv ==
    ASSUME ReportInv, NEW k \in 1 .. 11, At(Checks[k]), ~Holds(Checks[k]),
           Fail(Checks[k], Checks[k + 1])
    PROVE  ReportInv'
<1>1. k \in 1 .. 12
    OBVIOUS
<1>2. /\ passed \in Seq(CheckNames) /\ failed \in Seq(CheckNames) /\ Checks[k] \in CheckNames
      /\ \A check \in Entries(passed) : check # "data_types" => Holds(check)
    BY <1>1, Running
<1>3. /\ failed' = Append(failed, Checks[k]) /\ step' = Checks[k + 1]
      /\ outcome' = IF failFast THEN "raised" ELSE outcome
      /\ UNCHANGED <<file, failFast, passed>>
    BY DEF Fail
<1>4. /\ failed' \in Seq(CheckNames) /\ failed' # <<>>
      /\ Entries(failed') = Entries(failed) \cup {Checks[k]}
    BY <1>2, <1>3, EntriesFacts
<1>5. CASE failFast
    BY <1>1, <1>3, <1>4, <1>5, Raises
<1>6. CASE ~failFast
    BY <1>2, <1>3, <1>4, <1>6, GoesOn
<1> QED
    BY <1>5, <1>6

\* There is no file to go on with.
LEMMA FailAndReturnInv ==
    ASSUME ReportInv, NEW k \in 1 .. 12, At(Checks[k]), ~Holds(Checks[k]), file.kind # "csv",
           FailAndReturn(Checks[k])
    PROVE  ReportInv'
<1>1. /\ passed \in Seq(CheckNames) /\ failed \in Seq(CheckNames) /\ Checks[k] \in CheckNames
      /\ \A check \in Entries(failed) : ~Holds(check)
      /\ \A check \in Entries(passed) : check # "data_types" => Holds(check)
    BY Running
<1>2. /\ failed' = Append(failed, Checks[k])
      /\ outcome' = IF failFast THEN "raised" ELSE "returned"
      /\ UNCHANGED <<file, failFast, passed>>
    BY DEF FailAndReturn
<1>3. /\ failed' \in Seq(CheckNames) /\ failed' # <<>>
      /\ Entries(failed') = Entries(failed) \cup {Checks[k]}
    BY <1>1, <1>2, EntriesFacts
<1>4. CASE failFast
    BY <1>2, <1>3, <1>4, Raises
<1>5. CASE ~failFast
  <2>1. (\A check : Holds(check)' <=> Holds(check)) /\ (Sound' <=> Sound)
      BY <1>2, HoldsStays
  <2>2. ~Sound
      BY <1>1 DEF Sound
  <2>3. ReportIsExact'
      BY <1>1, <1>2, <1>3, <1>5, <2>1, <2>2 DEF ReportIsExact, Entries
  <2> QED
      BY <1>1, <1>2, <1>3, <1>5, <2>3 DEF ReportInv, Ends
<1> QED
    BY <1>4, <1>5

\* An exception of another kind: that the checks before it did not stop the
\* call shows that it was made without fail_fast.
LEMMA CrashesInv ==
    ASSUME ReportInv, NEW k \in 1 .. 12, At(Checks[k]),
           NEW i \in 1 .. k - 1, ~Holds(Checks[i]),
           outcome' = "crashed", UNCHANGED <<file, failFast, failed>>,
           \/ UNCHANGED passed
           \/ passed' = Append(passed, Checks[k]) /\ Holds(Checks[k])
    PROVE  ReportInv'
<1>1. /\ passed \in Seq(CheckNames) /\ failed \in Seq(CheckNames) /\ Checks[k] \in CheckNames
      /\ \A check \in Entries(failed) : ~Holds(check)
      /\ \A check \in Entries(passed) : check # "data_types" => Holds(check)
      /\ failFast => failed = <<>>
      /\ failed = <<>> <=> \A j \in 1 .. k - 1 : Holds(Checks[j])
    BY Running
<1>2. ~failFast
    BY <1>1
<1>3. \A check : Holds(check)' <=> Holds(check)
    BY HoldsStays
<1>4. /\ passed' \in Seq(CheckNames)
      /\ \A check \in Entries(passed') : check # "data_types" => Holds(check)
  <2>1. CASE UNCHANGED passed
      BY <2>1, <1>1
  <2>2. CASE passed' = Append(passed, Checks[k]) /\ Holds(Checks[k])
    <3>1. passed' \in Seq(CheckNames) /\ Entries(passed') = Entries(passed) \cup {Checks[k]}
        BY <2>2, <1>1, EntriesFacts
    <3> QED
        BY <3>1, <2>2, <1>1
  <2> QED
      BY <2>1, <2>2
<1>5. ReportIsExact'
    BY <1>1, <1>2, <1>3, <1>4 DEF ReportIsExact, Entries
<1> QED
    BY <1>1, <1>4, <1>5 DEF ReportInv, Ends

LEMMA OutlierInv ==
    ASSUME ReportInv, OutlierFraudSeparation
    PROVE  ReportInv'
<1>1. At(Checks[12]) /\ Holds(Checks[12]) /\ Checks[12] = "outlier_fraud_separation"
    BY ChecksFacts DEF OutlierFraudSeparation, Holds
<1>2. /\ passed' \in {passed, Append(passed, Checks[12])} /\ outcome' = "returned"
      /\ UNCHANGED <<file, failFast, failed>>
    BY <1>1 DEF OutlierFraudSeparation
<1>3. /\ passed \in Seq(CheckNames) /\ failed \in Seq(CheckNames) /\ Checks[12] \in CheckNames
      /\ \A check \in Entries(failed) : ~Holds(check)
      /\ \A check \in Entries(passed) : check # "data_types" => Holds(check)
      /\ failFast => failed = <<>>
      /\ failed = <<>> <=> \A i \in 1 .. 12 - 1 : Holds(Checks[i])
      /\ \A i \in 1 .. 12 - 1 : Checks[i] \in Entries(passed) \cup Entries(failed)
    BY <1>1, Running
<1>4. /\ passed' \in Seq(CheckNames)
      /\ Entries(passed) \subseteq Entries(passed')
      /\ Entries(passed') \subseteq Entries(passed) \cup {Checks[12]}
  <2>1. CASE passed' = passed
      BY <2>1, <1>3
  <2>2. CASE passed' = Append(passed, Checks[12])
    <3>1. passed' \in Seq(CheckNames) /\ Entries(passed') = Entries(passed) \cup {Checks[12]}
        BY <2>2, <1>3, EntriesFacts
    <3> QED
        BY <3>1
  <2> QED
      BY <2>1, <2>2, <1>2
<1>5. (\A check : Holds(check)' <=> Holds(check)) /\ (Sound' <=> Sound)
    BY <1>2, HoldsStays
<1>6. failed = <<>> <=> Sound
  <2>1. \A i \in 1 .. 12 : i \in 1 .. 12 - 1 \/ i = 12
      OBVIOUS
  <2>2. (\A i \in 1 .. 12 - 1 : Holds(Checks[i])) <=> (\A i \in 1 .. 12 : Holds(Checks[i]))
      BY <1>1, <2>1
  <2>3. Sound <=> \A i \in 1 .. 12 : Holds(Checks[i])
      BY ChecksFacts DEF Sound
  <2> QED
      BY <1>3, <2>2, <2>3
<1>7. /\ \A check \in Entries(failed') : ~Holds(check)'
      /\ \A check \in Entries(passed') : check # "data_types" => Holds(check)'
    BY <1>1, <1>2, <1>3, <1>4, <1>5
<1>8. failed' = <<>> <=> Sound'
    BY <1>2, <1>5, <1>6
<1>9. \A i \in 1 .. 11 : Checks[i] \in Entries(passed') \cup Entries(failed')
    BY <1>2, <1>3, <1>4
<1>10. ReportIsExact'
    BY <1>2, <1>7, <1>8, <1>9 DEF ReportIsExact, Entries
<1> QED
    BY <1>2, <1>3, <1>4, <1>10 DEF ReportInv, Ends

LEMMA DataTypesInv ==
    ASSUME ReportInv, DataTypes
    PROVE  ReportInv'
<1>1. /\ 6 \in 1 .. 12 /\ 6 \in 1 .. 11 /\ At(Checks[6])
      /\ Checks[6] = "data_types" /\ Checks[6 + 1] = "row_count"
      /\ Holds(Checks[6]) <=> file.text = {}
    BY ChecksFacts DEF DataTypes, Holds
<1>2. passed \in Seq(CheckNames) /\ failed \in Seq(CheckNames) /\ Checks[6] \in CheckNames
    BY <1>1, Running
<1>3. CASE file.text # {} /\ failFast
    BY <1>1, <1>3, FailInv DEF DataTypes
<1>4. CASE ~(file.text # {} /\ failFast)
  <2>1. /\ passed' = Append(passed, Checks[6])
        /\ failed' = IF file.text = {} THEN failed
                     ELSE IF file.text = {"amount", "observed_label"}
                     THEN failed \o <<Checks[6], Checks[6]>>
                     ELSE Append(failed, Checks[6])
        /\ step' = Checks[6 + 1]
        /\ UNCHANGED <<file, failFast, outcome>>
      BY <1>1, <1>4 DEF DataTypes
  <2>2. passed' \in Seq(CheckNames) /\ Entries(passed') = Entries(passed) \cup {Checks[6]}
      BY <1>2, <2>1, EntriesFacts
  <2>3. CASE file.text = {}
    <3>1. failed' = failed
        BY <2>1, <2>3
    <3> QED
        BY <1>1, <1>2, <2>1, <2>2, <2>3, <3>1, GoesOn
  <2>4. CASE file.text # {}
    <3>1. /\ failed' \in Seq(CheckNames) /\ failed' # <<>>
          /\ Entries(failed') = Entries(failed) \cup {Checks[6]}
      <4>1. CASE file.text = {"amount", "observed_label"}
        <5>1. failed' = failed \o <<Checks[6], Checks[6]>>
            BY <4>1, <2>1, <2>4
        <5> QED
            BY <5>1, <1>2, TwoEntries
      <4>2. CASE file.text # {"amount", "observed_label"}
        <5>1. failed' = Append(failed, Checks[6])
            BY <4>2, <2>1, <2>4
        <5> QED
            BY <5>1, <1>2, EntriesFacts
      <4> QED
          BY <4>1, <4>2
    <3> QED
        BY <1>1, <1>4, <2>1, <2>2, <2>4, <3>1, GoesOn
  <2> QED
      BY <2>3, <2>4
<1> QED
    BY <1>3, <1>4

LEMMA TimestampRangeInv ==
    ASSUME ReportInv, TimestampRange
    PROVE  ReportInv'
<1> DEFINE good == file.times = "in range" /\ file.columns # "no_timestamp"
           twice == failFast /\ file.times \in {"early", "late"} /\ file.columns # "no_timestamp"
<1>1. /\ 10 \in 1 .. 12 /\ 10 \in 1 .. 11 /\ At(Checks[10])
      /\ Checks[10] = "timestamp_range" /\ Checks[10 + 1] = "target_distribution"
      /\ Holds(Checks[10]) <=> good
  <2>1. /\ 10 \in 1 .. 12 /\ 10 \in 1 .. 11
        /\ Checks[10] = "timestamp_range" /\ Checks[10 + 1] = "target_distribution"
      BY ChecksFacts
  <2>2. At("timestamp_range")
      BY DEF TimestampRange
  <2>3. Holds("timestamp_range") <=> good
      BY DEF Holds
  <2>4. At(Checks[10]) /\ (Holds(Checks[10]) <=> good)
      BY <2>1, <2>2, <2>3, Zenon
  <2> QED
      BY <2>1, <2>4
<1>2. passed \in Seq(CheckNames) /\ failed \in Seq(CheckNames) /\ Checks[10] \in CheckNames
    BY <1>1, Running
<1>3. CASE good
    BY <1>1, <1>3, PassInv DEF TimestampRange
<1>4. CASE ~good /\ twice
  <2>1. /\ failed' = failed \o <<Checks[10], Checks[10]>> /\ outcome' = "raised"
        /\ UNCHANGED <<file, failFast, passed>>
      BY <1>1, <1>4 DEF TimestampRange
  <2>2. failed' \in Seq(CheckNames) /\ Entries(failed') = Entries(failed) \cup {Checks[10]}
      BY <1>2, <2>1, TwoEntries
  <2> QED
      BY <1>1, <1>4, <2>1, <2>2, Raises
<1>5. CASE ~good /\ ~twice
    BY <1>1, <1>5, FailInv DEF TimestampRange
<1> QED
    BY <1>3, <1>4, <1>5

LEMMA TargetDistributionInv ==
    ASSUME ReportInv, TargetDistribution
    PROVE  ReportInv'
<1>1. /\ 11 \in 1 .. 12 /\ 11 \in 1 .. 11 /\ At(Checks[11])
      /\ Checks[11] = "target_distribution" /\ Checks[11 + 1] = "outlier_fraud_separation"
      /\ Holds(Checks[11])
      /\ Checks[5] = "column_schema" /\ 5 \in 1 .. 11 - 1
      /\ Checks[6] = "data_types" /\ 6 \in 1 .. 11 - 1
      /\ Holds(Checks[5]) <=> file.columns = "exact"
      /\ Holds(Checks[6]) <=> file.text = {}
    BY ChecksFacts DEF TargetDistribution, Holds
<1>2. passed \in Seq(CheckNames) /\ failed \in Seq(CheckNames) /\ Checks[11] \in CheckNames
    BY <1>1, Running
<1>3. CASE file.columns = "no_label"
  <2>1. outcome' = "crashed" /\ UNCHANGED <<file, failFast, failed, passed>>
      BY <1>3 DEF TargetDistribution, Crashes, report
  <2> QED
      BY <1>1, <1>3, <2>1, CrashesInv
<1>4. CASE file.columns # "no_label" /\ outcome' # "crashed"
  <2>1. /\ passed' = Append(passed, Checks[11]) /\ step' = Checks[11 + 1]
        /\ UNCHANGED <<file, failFast, failed, outcome>>
      BY <1>1, <1>4 DEF TargetDistribution
  <2>2. passed' \in Seq(CheckNames) /\ Entries(passed') = Entries(passed) \cup {Checks[11]}
      BY <1>2, <2>1, EntriesFacts
  <2> QED
      BY <1>1, <1>2, <2>1, <2>2, GoesOn
<1>5. CASE file.columns # "no_label" /\ outcome' = "crashed"
  <2>1. outcome = "running"
      BY <1>1 DEF At
  <2>2. /\ passed' = Append(passed, Checks[11]) /\ "observed_label" \in file.text
        /\ UNCHANGED <<file, failFast, failed>>
      BY <1>1, <1>5, <2>1 DEF TargetDistribution
  <2>3. ~Holds(Checks[6])
      BY <1>1, <2>2
  <2> QED
      BY <1>1, <1>5, <2>2, <2>3, CrashesInv
<1> QED
    BY <1>3, <1>4, <1>5

\* Every other check is a Pass or a Fail, or makes the call return or crash.
LEMMA ValidateInv ==
    ASSUME ReportInv, Validate
    PROVE  ReportInv'
<1>0. \A k \in 1 .. 11 : k \in 1 .. 12
    OBVIOUS
<1>1. ASSUME FileExists PROVE ReportInv'
  <2>1. /\ 1 \in 1 .. 12 /\ 1 \in 1 .. 11
        /\ Checks[1] = "file_exists" /\ Checks[1 + 1] = "is_file"
      BY ChecksFacts
  <2>2. Holds("file_exists") <=> file.kind # "missing"
      BY DEF Holds
  <2>3. CASE file.kind = "missing"
      BY <1>1, <2>1, <2>2, <2>3, FailAndReturnInv DEF FileExists
  <2>4. CASE file.kind # "missing"
      BY <1>1, <2>1, <2>2, <2>4, PassInv DEF FileExists
  <2> QED
      BY <2>3, <2>4
<1>2. ASSUME IsFile PROVE ReportInv'
  <2>1. /\ 2 \in 1 .. 12 /\ 2 \in 1 .. 11
        /\ Checks[2] = "is_file" /\ Checks[2 + 1] = "sha256_checksum"
      BY ChecksFacts
  <2>2. Holds("is_file") <=> file.kind # "directory"
      BY DEF Holds
  <2>3. CASE file.kind = "directory"
      BY <1>2, <2>1, <2>2, <2>3, FailAndReturnInv DEF IsFile
  <2>4. CASE file.kind # "directory"
      BY <1>2, <2>1, <2>2, <2>4, PassInv DEF IsFile
  <2> QED
      BY <2>3, <2>4
<1>3. ASSUME Sha256 PROVE ReportInv'
  <2>1. /\ 3 \in 1 .. 12 /\ 3 \in 1 .. 11
        /\ Checks[3] = "sha256_checksum" /\ Checks[3 + 1] = "file_readable"
      BY ChecksFacts
  <2>2. Holds("sha256_checksum") <=> file.checksum
      BY DEF Holds
  <2>3. CASE file.checksum
      BY <1>3, <2>1, <2>2, <2>3, PassInv DEF Sha256
  <2>4. CASE ~file.checksum
      BY <1>3, <2>1, <2>2, <2>4, FailInv DEF Sha256
  <2> QED
      BY <2>3, <2>4
<1>4. ASSUME FileReadable PROVE ReportInv'
  <2>1. /\ 4 \in 1 .. 12 /\ 4 \in 1 .. 11
        /\ Checks[4] = "file_readable" /\ Checks[4 + 1] = "column_schema"
      BY ChecksFacts
  <2>2. Holds("file_readable") <=> file.kind # "garbled"
      BY DEF Holds
  <2>3. CASE file.kind = "garbled"
      BY <1>4, <2>1, <2>2, <2>3, FailAndReturnInv DEF FileReadable
  <2>4. CASE file.kind # "garbled"
      BY <1>4, <2>1, <2>2, <2>4, PassInv DEF FileReadable
  <2> QED
      BY <2>3, <2>4
<1>5. ASSUME ColumnSchema PROVE ReportInv'
  <2>1. /\ 5 \in 1 .. 12 /\ 5 \in 1 .. 11
        /\ Checks[5] = "column_schema" /\ Checks[5 + 1] = "data_types"
      BY ChecksFacts
  <2>2. Holds("column_schema") <=> file.columns = "exact"
      BY DEF Holds
  <2>3. CASE file.columns = "exact"
      BY <1>5, <2>1, <2>2, <2>3, PassInv DEF ColumnSchema
  <2>4. CASE file.columns # "exact"
      BY <1>5, <2>1, <2>2, <2>4, FailInv DEF ColumnSchema
  <2> QED
      BY <2>3, <2>4
<1>6. ASSUME RowCount PROVE ReportInv'
  <2>1. /\ 7 \in 1 .. 12 /\ 7 \in 1 .. 11
        /\ Checks[7] = "row_count" /\ Checks[7 + 1] = "txn_id_unique"
      BY ChecksFacts
  <2>2. Holds("row_count") <=> file.enough
      BY DEF Holds
  <2>3. CASE file.enough
      BY <1>6, <2>1, <2>2, <2>3, PassInv DEF RowCount
  <2>4. CASE ~file.enough
      BY <1>6, <2>1, <2>2, <2>4, FailInv DEF RowCount
  <2> QED
      BY <2>3, <2>4
<1>7. ASSUME TxnIdUnique PROVE ReportInv'
  <2>1. /\ 8 \in 1 .. 12 /\ 8 \in 1 .. 11
        /\ Checks[8] = "txn_id_unique" /\ Checks[8 + 1] = "no_nulls"
        /\ Checks[5] = "column_schema" /\ 5 \in 1 .. 8 - 1
      BY ChecksFacts
  <2>2. /\ Holds("txn_id_unique") <=> file.unique
        /\ Holds("column_schema") <=> file.columns = "exact"
      BY DEF Holds
  <2>3. At("txn_id_unique")
      BY <1>7 DEF TxnIdUnique
  <2>4. CASE file.columns = "no_id"
    <3>1. outcome' = "crashed" /\ UNCHANGED <<file, failFast, failed, passed>>
        BY <1>7, <2>4 DEF TxnIdUnique, Crashes, report
    <3> QED
        BY <2>1, <2>2, <2>3, <2>4, <3>1, CrashesInv
  <2>5. CASE file.columns # "no_id" /\ file.unique
      BY <1>7, <2>1, <2>2, <2>3, <2>5, PassInv DEF TxnIdUnique
  <2>6. CASE file.columns # "no_id" /\ ~file.unique
      BY <1>7, <2>1, <2>2, <2>3, <2>6, FailInv DEF TxnIdUnique
  <2> QED
      BY <2>4, <2>5, <2>6
<1>8. ASSUME NoNulls PROVE ReportInv'
  <2>1. /\ 9 \in 1 .. 12 /\ 9 \in 1 .. 11
        /\ Checks[9] = "no_nulls" /\ Checks[9 + 1] = "timestamp_range"
      BY ChecksFacts
  <2>2. Holds("no_nulls") <=> file.complete
      BY DEF Holds
  <2>3. CASE file.complete
      BY <1>8, <2>1, <2>2, <2>3, PassInv DEF NoNulls
  <2>4. CASE ~file.complete
      BY <1>8, <2>1, <2>2, <2>4, FailInv DEF NoNulls
  <2> QED
      BY <2>3, <2>4
<1> QED
    BY <1>1, <1>2, <1>3, <1>4, <1>5, <1>6, <1>7, <1>8, DataTypesInv, TimestampRangeInv,
       TargetDistributionInv, OutlierInv DEF Validate

-----------------------------------------------------------------------------
\* The steps of the job.

LEMMA InitInv == Init => IInv
<1> SUFFICES ASSUME Init PROVE IInv
    OBVIOUS
<1>1. /\ step = Checks[1] /\ 1 \in DOMAIN Checks
      /\ passed = <<>> /\ failed = <<>> /\ outcome = "running" /\ stage = "validate"
    BY ChecksFacts DEF Init, ValidatorInit
<1>2. passed \in Seq(CheckNames) /\ failed \in Seq(CheckNames)
    BY <1>1
<1>3. Entries(passed) = {} /\ Entries(failed) = {}
    BY <1>1 DEF Entries
<1>4. RunningInv
    BY <1>1 DEF RunningInv
<1>5. ReportIsExact
    BY <1>1, <1>3 DEF ReportIsExact
<1> QED
    BY <1>1, <1>2, <1>4, <1>5 DEF IInv, ReportInv, FrameInv, SplitInv, Stages, Ends

\* A report that is returned to the job, which has set fail_fast, is of a
\* sound file: it is valid, or the call had raised.
LEMMA ReportStays ==
    ReportInv /\ UNCHANGED validatorVars => ReportInv'
<1> SUFFICES ASSUME ReportInv, UNCHANGED validatorVars PROVE ReportInv'
    OBVIOUS
<1>1. UNCHANGED <<file, failFast, step, passed, failed, outcome>>
    BY DEF validatorVars, report
<1>2. (\A check : Holds(check)' <=> Holds(check)) /\ (Sound' <=> Sound)
    BY <1>1, HoldsStays
<1>3. FirstToFail' = FirstToFail
    BY <1>1, FirstStays
<1>4. RunningInv => RunningInv'
    BY <1>1, <1>2 DEF RunningInv, Entries
<1>5. ReportIsExact'
    BY <1>1, <1>2, <1>3 DEF ReportInv, ReportIsExact, Entries
<1> QED
    BY <1>1, <1>4, <1>5 DEF ReportInv

LEMMA SoundStays ==
    UNCHANGED validatorVars => (Sound' <=> Sound)
BY HoldsStays DEF validatorVars

LEMMA StepInv ==
    ASSUME IInv, [Next]_vars
    PROVE  IInv'
<1> USE DEF IInv
<1>1. ASSUME Check PROVE IInv'
  <2>1. ReportInv' /\ stage' = stage /\ stage = "validate"
      BY <1>1, ValidateInv DEF Check
  <2> QED
      BY <2>1 DEF FrameInv, SplitInv
<1>2. ASSUME Load PROVE IInv'
  <2>1. /\ outcome = "returned" /\ failFast /\ UNCHANGED validatorVars
        /\ stage' = "loaded"
        /\ df' \in [Row -> [time : Times, entity : Entities]]
        /\ \A i, j \in Row : i < j => df'[i].time <= df'[j].time
      BY <1>2 DEF Load
  <2>2. ReportInv' /\ (Sound' <=> Sound)
      BY <2>1, ReportStays, SoundStays
  <2>3. failed = <<>> /\ Sound
      BY <2>1 DEF ReportInv, ReportIsExact
  <2>4. outcome' = outcome
      BY <2>1 DEF validatorVars
  <2>5. FrameInv'
      BY <2>1, <2>2, <2>3, <2>4 DEF FrameInv, Row
  <2> QED
      BY <2>1, <2>2, <2>5 DEF SplitInv, Stages
<1>3. ASSUME SplitByTime PROVE IInv'
  <2>1. /\ stage = "loaded" /\ stage' = "split" /\ UNCHANGED <<validatorVars, df>>
        /\ parts' = Split
      BY <1>3 DEF SplitByTime
  <2>2. ReportInv' /\ (Sound' <=> Sound)
      BY <2>1, ReportStays, SoundStays
  <2>3. Split' = Split
      BY <2>1 DEF Split, Upto, From, Between
  <2> QED
      BY <2>1, <2>2, <2>3 DEF FrameInv, SplitInv, Stages, validatorVars
<1>4. ASSUME UNCHANGED <<validatorVars, df, parts>>, stage' \in Stages,
             stage' = stage \/ stage \notin {"validate", "loaded"}
      PROVE  IInv'
  <2>1. ReportInv' /\ (Sound' <=> Sound)
      BY <1>4, ReportStays, SoundStays
  <2>2. Split' = Split
      BY <1>4 DEF Split, Upto, From, Between
  <2> QED
      BY <1>4, <2>1, <2>2 DEF FrameInv, SplitInv, validatorVars
<1>5. CASE FitCategoricalMaps
    BY <1>4, <1>5 DEF FitCategoricalMaps, Stages
<1>6. CASE GenerateFeatures
    BY <1>4, <1>6 DEF GenerateFeatures, Stages
<1>7. CASE SubSplits
    BY <1>4, <1>7 DEF SubSplits, Stages
<1>8. CASE UNCHANGED vars
    BY <1>4, <1>8 DEF vars
<1> QED
    BY <1>1, <1>2, <1>3, <1>5, <1>6, <1>7, <1>8 DEF Next

(***************************************************************************)
(* The invariant holds in every state, for every file and every data set.  *)
(***************************************************************************)
THEOREM Inductive == Spec => []IInv
<1>1. IInv /\ [Next]_vars => IInv'
    BY StepInv
<1> QED
    BY InitInv, <1>1, PTL DEF Spec

(***************************************************************************)
(* validate_dataset reports of a file what is the case: with fail_fast it  *)
(* raises for the first check that the file fails, and a report that is    *)
(* returned is valid exactly for a file that passes all of them.           *)
(***************************************************************************)
THEOREM ReportExact == Spec => []ReportIsExact
<1>1. IInv => ReportIsExact
    BY DEF IInv, ReportInv
<1> QED
    BY Inductive, <1>1, PTL

\* A row that comes earlier in time comes earlier in the sorted frame.
LEMMA Sorted ==
    ASSUME FrameInv, stage # "validate",
           NEW i \in Row, NEW j \in Row, df[i].time < df[j].time
    PROVE  i < j
<1>1. df[i].time \in Int /\ df[j].time \in Int /\ i \in Int /\ j \in Int
  <2>1. \A k \in Row : df[k].time \in Times
      BY DEF FrameInv
  <2>2. Times \subseteq Int
      BY SplitAssumption
  <2>3. df[i].time \in Int /\ df[j].time \in Int
      BY <2>1, <2>2
  <2>4. i \in Int /\ j \in Int
      BY SplitAssumption DEF Row
  <2> QED
      BY <2>3, <2>4
<1>2. CASE j < i
    BY <1>1, <1>2 DEF FrameInv
<1>3. CASE i = j
    BY <1>1, <1>3
<1> QED
    BY <1>1, <1>2, <1>3

LEMMA InTime == IInv => PartsInTime
<1> SUFFICES ASSUME IInv PROVE PartsInTime
    OBVIOUS
<1>1. stage # "validate" => Sound
    BY DEF IInv, FrameInv
<1>2. ASSUME stage \notin {"validate", "loaded"}
      PROVE  /\ Before("train", "val") /\ Before("val", "test")
             /\ Before("train", "test") /\ Before("calib", "opt")
             /\ parts.calib \cup parts.opt \subseteq parts.val
             /\ \A i \in Row : i \in parts.train \cup parts.val \cup parts.test \/ InGap(i)
  <2>1. stage # "validate" /\ FrameInv
      BY <1>2 DEF IInv
  <2>2. /\ parts["train"] = Upto(TrainEnd) /\ parts["val"] = Between(ValStart, ValEnd)
        /\ parts["calib"] = Between(ValStart, CalibEnd)
        /\ parts["opt"] = Between(OptStart, ValEnd) /\ parts["test"] = From(TestStart)
      BY <1>2 DEF IInv, SplitInv, Split
  <2>3. \A i \in Row : df[i].time \in Int
      BY <2>1, SplitAssumption DEF FrameInv
  <2>4. /\ TrainEnd \in Int /\ ValStart \in Int /\ CalibEnd \in Int
        /\ OptStart \in Int /\ ValEnd \in Int /\ TestStart \in Int
        /\ TrainEnd < ValStart /\ ValStart <= CalibEnd /\ CalibEnd < OptStart
        /\ OptStart <= ValEnd /\ ValEnd < TestStart
      BY SplitAssumption
  <2>5. \A a, b \in PartNames :
            (\A i \in parts[a], j \in parts[b] :
                i \in Row /\ j \in Row /\ df[i].time < df[j].time) => Before(a, b)
      BY <2>1, Sorted DEF Before
  <2>6. Before("train", "val")
      BY <2>2, <2>3, <2>4, <2>5 DEF Upto, Between, PartNames
  <2>7. Before("val", "test")
      BY <2>2, <2>3, <2>4, <2>5 DEF From, Between, PartNames
  <2>8. Before("train", "test")
      BY <2>2, <2>3, <2>4, <2>5 DEF Upto, From, PartNames
  <2>9. Before("calib", "opt")
      BY <2>2, <2>3, <2>4, <2>5 DEF Between, PartNames
  <2>10. parts.calib \cup parts.opt \subseteq parts.val
      BY <2>2, <2>3, <2>4 DEF Between
  <2>11. ASSUME NEW i \in Row
         PROVE  i \in parts.train \cup parts.val \cup parts.test \/ InGap(i)
      BY <2>2, <2>3, <2>4 DEF Upto, Between, From, InGap
  <2> QED
      BY <2>6, <2>7, <2>8, <2>9, <2>10, <2>11
<1> QED
    BY <1>1, <1>2 DEF PartsInTime

(***************************************************************************)
(* The parts of temporal_train_val_test_split follow each other in time    *)
(* and share no row, calibration and optimisation divide what they take of *)
(* the validation part, and only the gaps are left out: for every data set *)
(* and all dates in the order that TemporalSplitConfig states.             *)
(***************************************************************************)
THEOREM PartsApart == Spec => []PartsInTime
BY Inductive, InTime, PTL
-----------------------------------------------------------------------------
\* Ascending lists.

\* A set of natural numbers that is not empty has a least one.
LEMMA LeastNat ==
    ASSUME NEW T, T \subseteq Nat, T # {}
    PROVE  \E n \in T : \A m \in T : n <= m
<1> DEFINE R == OpToRel(<, Nat)
<1>1. IsWellFoundedOn(R, Nat)
    BY NatLessThanWellFounded
<1>2. \A x, y \in Nat : <<x, y>> \in R <=> x < y
    BY DEF OpToRel
<1> HIDE DEF R
<1>3. PICK n \in T : \A m \in T : ~(<<m, n>> \in R)
    BY <1>1, WFMin
<1>4. ASSUME NEW m \in T PROVE n <= m
  <2>1. ~(<<m, n>> \in R) /\ m \in Nat /\ n \in Nat
      BY <1>3
  <2>2. ~(m < n)
      BY <1>2, <2>1
  <2> QED
      BY <2>1, <2>2
<1> QED
    BY <1>4

\* A set of numbers up to N that is not empty has a greatest one.
LEMMA GreatestNat ==
    ASSUME NEW N \in Nat, NEW S \in SUBSET (1 .. N), S # {}
    PROVE  \E n \in S : \A m \in S : m <= n
<1> DEFINE T == {N - s : s \in S}
<1>0. \A s \in S : s \in Nat /\ N - s \in Nat
  <2>1. \A s \in 1 .. N : s \in Nat /\ N - s \in Nat
      OBVIOUS
  <2> QED
      BY <2>1
<1>1. T \subseteq Nat /\ T # {}
    BY <1>0
<1>2. PICK t \in T : \A u \in T : t <= u
    BY <1>1, LeastNat
<1>3. PICK n \in S : t = N - n
    OBVIOUS
<1>4. \A m \in S : N - n <= N - m
    BY <1>2, <1>3
<1>5. \A m \in S : m <= n
    BY <1>0, <1>4
<1> QED
    BY <1>5

LEMMA SizeFacts ==
    ASSUME NEW N \in Nat, NEW S \in SUBSET (1 .. N)
    PROVE  /\ IsFiniteSet(S) /\ Cardinality(S) \in Nat
           /\ Cardinality(S) = 0 <=> S = {}
           /\ \A x \in S : Cardinality(S \ {x}) = Cardinality(S) - 1
<1>1. IsFiniteSet(S)
  <2>1. IsFiniteSet(1 .. N)
      BY FS_Interval
  <2> QED
      BY <2>1, FS_Subset
<1> QED
    BY <1>1, FS_CardinalityType, FS_EmptySet, FS_RemoveElement

Ascends(list, set) ==
    /\ list \in [1 .. Cardinality(set) -> set]
    /\ \A p, q \in 1 .. Cardinality(set) : p < q => list[p] < list[q]

LEMMA AscendingExists ==
    ASSUME NEW N \in Nat, NEW S \in SUBSET (1 .. N)
    PROVE  \E list : Ascends(list, S)
<1> DEFINE Bad == {n \in Nat : \E T \in SUBSET (1 .. N) :
                                  Cardinality(T) = n /\ ~\E list : Ascends(list, T)}
<1>1. Bad = {}
  <2> SUFFICES ASSUME Bad # {} PROVE FALSE
      OBVIOUS
  <2>1. PICK b \in Bad : \A m \in Bad : b <= m
      BY LeastNat
  <2>2. PICK T \in SUBSET (1 .. N) : Cardinality(T) = b /\ ~\E list : Ascends(list, T)
      OBVIOUS
  <2>3. b \in Nat
      OBVIOUS
  <2>4. CASE T = {}
    <3>1. b = 0
        BY <2>2, <2>4, SizeFacts
    <3>2. Ascends([p \in 1 .. 0 |-> 0], T)
        BY <2>2, <2>4, <3>1 DEF Ascends
    <3> QED
        BY <2>2, <3>2
  <2>5. CASE T # {}
    <3>1. PICK m \in T : \A x \in T : x <= m
        BY <2>5, GreatestNat
    <3>2. Cardinality(T \ {m}) = b - 1 /\ b - 1 \in Nat
      <4>1. Cardinality(T \ {m}) = b - 1
          BY <2>2, <2>5, SizeFacts
      <4>2. b # 0
          BY <2>2, <2>5, SizeFacts
      <4> QED
          BY <2>3, <4>1, <4>2
    <3>3. b - 1 \notin Bad
      <4>1. ~(b <= b - 1)
          BY <2>3
      <4> QED
          BY <2>1, <4>1
    <3>4. PICK list : Ascends(list, T \ {m})
        BY <3>2, <3>3
    <3> DEFINE longer == [p \in 1 .. b |-> IF p < b THEN list[p] ELSE m]
    <3>5. /\ \A p \in 1 .. b - 1 : list[p] \in T \ {m}
          /\ \A p, q \in 1 .. b - 1 : p < q => list[p] < list[q]
        BY <3>2, <3>4 DEF Ascends
    <3>6. longer \in [1 .. b -> T]
      <4>1. ASSUME NEW p \in 1 .. b PROVE longer[p] \in T
        <5>1. CASE p < b
          <6>1. p \in 1 .. b - 1
              BY <2>3, <5>1
          <6> QED
              BY <3>5, <5>1, <6>1
        <5>2. CASE ~(p < b)
            BY <5>2
        <5> QED
            BY <5>1, <5>2
      <4> QED
          BY <4>1
    <3>7. ASSUME NEW p \in 1 .. b, NEW q \in 1 .. b, p < q PROVE longer[p] < longer[q]
      <4>1. p \in 1 .. b - 1 /\ longer[p] = list[p]
          BY <2>3, <3>7
      <4>2. CASE q < b
        <5>1. q \in 1 .. b - 1 /\ longer[q] = list[q]
            BY <2>3, <4>2
        <5> QED
            BY <3>5, <3>7, <4>1, <5>1
      <4>3. CASE ~(q < b)
        <5>1. longer[q] = m
            BY <4>3
        <5>2. list[p] \in T /\ list[p] # m
            BY <3>5, <4>1
        <5>3. list[p] <= m /\ list[p] \in Nat /\ m \in Nat
          <6>1. \A x \in T : x \in Nat
              OBVIOUS
          <6> QED
              BY <3>1, <5>2, <6>1
        <5> QED
            BY <4>1, <5>1, <5>2, <5>3
      <4> QED
          BY <4>2, <4>3
    <3> HIDE DEF longer
    <3>8. Ascends(longer, T)
        BY <2>2, <3>6, <3>7 DEF Ascends
    <3> QED
        BY <2>2, <3>8
  <2> QED
      BY <2>4, <2>5
<1>2. Cardinality(S) \in Nat
    BY SizeFacts
<1> QED
    BY <1>1, <1>2

\* The ascending list of a set has all of its elements.
LEMMA AscendingFacts ==
    ASSUME NEW N \in Nat, NEW S \in SUBSET (1 .. N)
    PROVE  /\ Cardinality(S) \in Nat
           /\ Ascending(S) \in [1 .. Cardinality(S) -> S]
           /\ \A p, q \in 1 .. Cardinality(S) : p < q => Ascending(S)[p] < Ascending(S)[q]
           /\ \A x \in S : \E p \in 1 .. Cardinality(S) : Ascending(S)[p] = x
<1> DEFINE n == Cardinality(S)
           list == Ascending(S)
<1>1. IsFiniteSet(S) /\ n \in Nat /\ \A x \in S : x \in Nat
  <2>1. \A x \in S : x \in Nat
      OBVIOUS
  <2> QED
      BY <2>1, SizeFacts
<1>2. list \in [1 .. n -> S] /\ \A p, q \in 1 .. n : p < q => list[p] < list[q]
  <2>1. \E l \in [1 .. n -> S] : \A p, q \in DOMAIN l : p < q => l[p] < l[q]
    <3>1. PICK l : Ascends(l, S)
        BY AscendingExists
    <3>2. l \in [1 .. n -> S] /\ DOMAIN l = 1 .. n
        BY <3>1 DEF Ascends
    <3> QED
        BY <3>1, <3>2 DEF Ascends
  <2>2. list = CHOOSE l \in [1 .. n -> S] : \A p, q \in DOMAIN l : p < q => l[p] < l[q]
      BY DEF Ascending
  <2> HIDE DEF n, list
  <2>3. list \in [1 .. n -> S] /\ \A p, q \in DOMAIN list : p < q => list[p] < list[q]
      BY <2>1, <2>2
  <2>4. DOMAIN list = 1 .. n
      BY <2>3
  <2> QED
      BY <2>3, <2>4
<1> HIDE DEF list
<1>3. list \in Injection(1 .. n, S)
  <2>1. \A p, q \in 1 .. n : list[p] = list[q] => p = q
    <3> SUFFICES ASSUME NEW p \in 1 .. n, NEW q \in 1 .. n, list[p] = list[q], p # q PROVE FALSE
        OBVIOUS
    <3>1. list[p] \in Nat /\ list[q] \in Nat
        BY <1>1, <1>2
    <3>2. p < q \/ q < p
        BY <1>1
    <3> QED
        BY <1>2, <3>1, <3>2
  <2> QED
      BY <1>2, <2>1 DEF Injection, IsInjective
<1>4. Cardinality(1 .. n) = n
    BY <1>1, FS_Interval
<1>5. list \in Surjection(1 .. n, S)
    BY <1>1, <1>3, <1>4, FS_Injection
<1> QED
    BY <1>1, <1>2, <1>5 DEF list, Surjection

\* An ascending list of all elements of a set is the ascending list of it.
LEMMA AscendingUnique ==
    ASSUME NEW N \in Nat, NEW S \in SUBSET (1 .. N), NEW n \in Nat, NEW list \in [1 .. n -> S],
           \A p, q \in 1 .. n : p < q => list[p] < list[q],
           \A x \in S : \E p \in 1 .. n : list[p] = x
    PROVE  n = Cardinality(S) /\ list = Ascending(S)
<1>0. \A x \in S : x \in Nat
    OBVIOUS
<1>1. list \in Bijection(1 .. n, S)
  <2>1. \A p, q \in 1 .. n : list[p] = list[q] => p = q
    <3> SUFFICES ASSUME NEW p \in 1 .. n, NEW q \in 1 .. n, list[p] = list[q], p # q PROVE FALSE
        OBVIOUS
    <3>1. list[p] \in Nat /\ list[q] \in Nat
        BY <1>0
    <3>2. p < q \/ q < p
        OBVIOUS
    <3> QED
        BY <3>1, <3>2
  <2> QED
      BY <2>1 DEF Bijection, Injection, Surjection, IsInjective
<1>2. n = Cardinality(S)
  <2>1. IsFiniteSet(1 .. n) /\ Cardinality(1 .. n) = n
      BY FS_Interval
  <2> QED
      BY <1>1, <2>1, FS_Bijection DEF ExistsBijection
<1> DEFINE other == Ascending(S)
           Differ == {p \in 1 .. n : list[p] # other[p]}
<1>3. /\ other \in [1 .. n -> S]
      /\ \A p, q \in 1 .. n : p < q => other[p] < other[q]
      /\ \A x \in S : \E p \in 1 .. n : other[p] = x
    BY <1>2, AscendingFacts
<1> HIDE DEF other
<1>4. Differ = {}
  <2> SUFFICES ASSUME Differ # {} PROVE FALSE
      OBVIOUS
  <2>1. PICK p \in Differ : \A q \in Differ : p <= q
    <3>1. Differ \subseteq Nat
        OBVIOUS
    <3> QED
        BY <3>1, LeastNat
  <2>2. p \in 1 .. n /\ list[p] # other[p] /\ list[p] \in S /\ other[p] \in S
      BY <1>3
  <2>3. \A q \in 1 .. n : q < p => list[q] = other[q]
      BY <2>1, <2>2
  <2>4. CASE list[p] < other[p]
    <3>1. PICK q \in 1 .. n : other[q] = list[p]
        BY <1>3, <2>2
    <3>2. q < p
      <4>1. CASE q = p
          BY <2>2, <3>1, <4>1
      <4>2. CASE p < q
        <5>1. other[p] < other[q]
            BY <1>3, <2>2, <4>2
        <5>2. other[p] \in Nat /\ list[p] \in Nat
            BY <1>0, <2>2
        <5> QED
            BY <2>4, <3>1, <5>1, <5>2
      <4> QED
          BY <2>2, <4>1, <4>2
    <3>3. list[q] = list[p] /\ list[q] < list[p]
        BY <2>2, <2>3, <3>1, <3>2
    <3>4. list[p] \in Nat
        BY <1>0, <2>2
    <3> QED
        BY <3>3, <3>4
  <2>5. CASE other[p] < list[p]
    <3>1. PICK q \in 1 .. n : list[q] = other[p]
        BY <2>2
    <3>2. q < p
      <4>1. CASE q = p
          BY <2>2, <3>1, <4>1
      <4>2. CASE p < q
        <5>1. list[p] < list[q]
            BY <2>2, <4>2
        <5>2. other[p] \in Nat /\ list[p] \in Nat
            BY <1>0, <2>2
        <5> QED
            BY <2>5, <3>1, <5>1, <5>2
      <4> QED
          BY <2>2, <4>1, <4>2
    <3>3. other[q] = other[p] /\ other[q] < other[p]
        BY <1>3, <2>2, <2>3, <3>1, <3>2
    <3>4. other[p] \in Nat
        BY <1>0, <2>2
    <3> QED
        BY <3>3, <3>4
  <2>6. list[p] \in Nat /\ other[p] \in Nat
      BY <1>0, <2>2
  <2> QED
      BY <2>2, <2>4, <2>5, <2>6
<1> QED
    BY <1>2, <1>3, <1>4 DEF other

-----------------------------------------------------------------------------
\* The tables of features.

LEMMA ListFacts ==
    ASSUME NEW S, NEW n \in Nat, NEW list \in [1 .. n -> S]
    PROVE  list \in Seq(S) /\ Len(list) = n /\ DOMAIN list = 1 .. n
OBVIOUS

\* A list that goes through a set of rows in ascending order.
Lists(list, n, set) ==
    /\ n \in Nat /\ list \in [1 .. n -> set]
    /\ \A p, q \in 1 .. n : p < q => list[p] < list[q]
    /\ \A x \in set : \E p \in 1 .. n : list[p] = x

\* The rows of a set in the frame, each with the earlier rows of its entity.
FeaturesOf(list, n, set) ==
    [p \in 1 .. n |->
        [row |-> list[p],
         prior |-> {i \in set : i < list[p] /\ df[i].entity = df[list[p]].entity},
         frequencies |-> fitted]]

LEMMA FrameFacts ==
    ASSUME NEW rows \in SUBSET Row
    PROVE  Lists(Frame(rows), Cardinality(rows), rows) /\ DOMAIN Frame(rows) = 1 .. Cardinality(rows)
<1>1. Rows \in Nat /\ rows \in SUBSET (1 .. Rows)
    BY SplitAssumption DEF Row
<1>2. /\ Cardinality(rows) \in Nat
      /\ Ascending(rows) \in [1 .. Cardinality(rows) -> rows]
      /\ \A p, q \in 1 .. Cardinality(rows) : p < q => Ascending(rows)[p] < Ascending(rows)[q]
      /\ \A x \in rows : \E p \in 1 .. Cardinality(rows) : Ascending(rows)[p] = x
    BY <1>1, AscendingFacts
<1> QED
    BY <1>2 DEF Lists, Frame

\* The rows above row p of a list are the earlier ones of the set.
LEMMA VelocityFacts ==
    ASSUME NEW set \in SUBSET Row, NEW n, NEW list, Lists(list, n, set), NEW p \in 1 .. n
    PROVE  VelocityRows(list, p) =
               {i \in set : i < list[p] /\ df[i].entity = df[list[p]].entity}
<1>1. /\ n \in Nat /\ p \in Nat
      /\ \A q \in 1 .. n : list[q] \in set
      /\ \A q, r \in 1 .. n : q < r => list[q] < list[r]
      /\ \A x \in set : \E q \in 1 .. n : list[q] = x
    BY DEF Lists
<1>2. \A x \in set : x \in Nat
    BY SplitAssumption DEF Row
<1>3. ASSUME NEW q \in 1 .. p - 1, df[list[q]].entity = df[list[p]].entity
      PROVE  list[q] \in {i \in set : i < list[p] /\ df[i].entity = df[list[p]].entity}
  <2>1. q \in 1 .. n /\ q < p
      BY <1>1
  <2> QED
      BY <1>1, <1>3, <2>1
<1>4. ASSUME NEW i \in set, i < list[p], df[i].entity = df[list[p]].entity
      PROVE  \E q \in 1 .. p - 1 : list[q] = i /\ df[list[q]].entity = df[list[p]].entity
  <2>1. PICK q \in 1 .. n : list[q] = i
      BY <1>1
  <2>2. q < p
    <3>1. list[p] \in Nat /\ i \in Nat
        BY <1>1, <1>2
    <3>2. CASE q = p
        BY <1>4, <2>1, <3>1, <3>2
    <3>3. CASE p < q
      <4>1. list[p] < list[q]
          BY <1>1, <3>3
      <4> QED
          BY <1>4, <2>1, <3>1, <4>1
    <3> QED
        BY <1>1, <3>2, <3>3
  <2>3. q \in 1 .. p - 1
      BY <1>1, <2>2
  <2> QED
      BY <1>4, <2>1, <2>3
<1>5. VelocityRows(list, p) =
          {list[q] : q \in {r \in 1 .. p - 1 : df[list[r]].entity = df[list[p]].entity}}
    BY DEF VelocityRows
<1> QED
    BY <1>3, <1>4, <1>5

\* A list that ascends is in time order already, and is left as it is.
LEMMA OrderFacts ==
    ASSUME FrameInv, stage # "validate",
           NEW set \in SUBSET Row, NEW n, NEW list, Lists(list, n, set)
    PROVE  InTimeOrder(list) = list
<1>1. /\ DOMAIN list = 1 .. n
      /\ \A p \in 1 .. n : list[p] \in Row
      /\ \A p, q \in 1 .. n : p < q => list[p] < list[q]
    BY DEF Lists
<1>2. \A p, q \in DOMAIN list : p < q => df[list[p]].time <= df[list[q]].time
    BY <1>1 DEF FrameInv
<1> QED
    BY <1>2 DEF InTimeOrder

LEMMA SingleFacts ==
    ASSUME FrameInv, stage # "validate",
           NEW set \in SUBSET Row, NEW n, NEW list, Lists(list, n, set)
    PROVE  FeaturesSingle(list) = FeaturesOf(list, n, set)
<1>1. InTimeOrder(list) = list /\ DOMAIN list = 1 .. n
  <2>1. InTimeOrder(list) = list
      BY OrderFacts
  <2> QED
      BY <2>1 DEF Lists
<1>2. \A p \in 1 .. n : VelocityRows(list, p) =
          {i \in set : i < list[p] /\ df[i].entity = df[list[p]].entity}
    BY VelocityFacts
<1>3. FeaturesSingle(list) =
          [p \in 1 .. n |-> [row |-> list[p], prior |-> VelocityRows(list, p),
                             frequencies |-> fitted]]
    BY <1>1 DEF FeaturesSingle
<1> QED
    BY <1>2, <1>3 DEF FeaturesOf

\* History before a frame that starts after it.
Precedes(old, new) == \A i \in old, j \in new : i < j

EndsWith(both, m, n, list) == \A p \in 1 .. n : both[m + p] = list[p]

LEMMA ConcatFacts ==
    ASSUME NEW old \in SUBSET Row, NEW m, NEW history, Lists(history, m, old),
           NEW new \in SUBSET Row, NEW n, NEW list, Lists(list, n, new),
           Precedes(old, new)
    PROVE  /\ Lists(history \o list, m + n, old \cup new)
           /\ EndsWith(history \o list, m, n, list)
<1> DEFINE both == history \o list
<1>1. /\ m \in Nat /\ n \in Nat
      /\ history \in Seq(Row) /\ Len(history) = m
      /\ list \in Seq(Row) /\ Len(list) = n
    BY ListFacts DEF Lists
<1>2. /\ both \in [1 .. m + n -> Row]
      /\ \A p \in 1 .. m : both[p] = history[p]
      /\ \A p \in 1 .. n : both[m + p] = list[p]
  <2>1. both \in Seq(Row) /\ Len(both) = m + n
      BY <1>1
  <2>2. \A p \in 1 .. m + n :
            both[p] = IF p <= m THEN history[p] ELSE list[p - m]
      BY <1>1
  <2> HIDE DEF both
  <2>3. both \in [1 .. m + n -> Row]
      BY <2>1
  <2>4. \A p \in 1 .. m : p \in 1 .. m + n /\ p <= m
      BY <1>1
  <2>5. \A p \in 1 .. n : m + p \in 1 .. m + n /\ ~(m + p <= m) /\ (m + p) - m = p
      BY <1>1
  <2> QED
      BY <2>2, <2>3, <2>4, <2>5
<1> HIDE DEF both
<1>3. /\ \A p \in 1 .. m : history[p] \in old
      /\ \A p \in 1 .. n : list[p] \in new
      /\ \A p, q \in 1 .. m : p < q => history[p] < history[q]
      /\ \A p, q \in 1 .. n : p < q => list[p] < list[q]
      /\ \A x \in old : \E p \in 1 .. m : history[p] = x
      /\ \A x \in new : \E p \in 1 .. n : list[p] = x
    BY DEF Lists
<1>4. \A p \in 1 .. m + n : p \in 1 .. m \/ (p - m \in 1 .. n /\ p = m + (p - m))
    BY <1>1
<1>5. ASSUME NEW p \in 1 .. m + n
      PROVE  \/ p \in 1 .. m /\ both[p] = history[p] /\ both[p] \in old
             \/ p - m \in 1 .. n /\ both[p] = list[p - m] /\ both[p] \in new
  <2>1. CASE p \in 1 .. m
      BY <2>1, <1>2, <1>3
  <2>2. CASE p - m \in 1 .. n /\ p = m + (p - m)
      BY <2>2, <1>2, <1>3
  <2> QED
      BY <2>1, <2>2, <1>4
<1>6. both \in [1 .. m + n -> old \cup new]
    BY <1>2, <1>5
<1>7. ASSUME NEW p \in 1 .. m + n, NEW q \in 1 .. m + n, p < q
      PROVE  both[p] < both[q]
  <2>1. CASE q \in 1 .. m /\ both[q] = history[q]
    <3>1. p \in 1 .. m
        BY <1>1, <1>7, <2>1
    <3> QED
        BY <1>2, <1>3, <1>7, <2>1, <3>1
  <2>2. CASE q - m \in 1 .. n /\ both[q] = list[q - m] /\ both[q] \in new
    <3>1. CASE p \in 1 .. m /\ both[p] \in old
        BY <2>2, <3>1 DEF Precedes
    <3>2. CASE p - m \in 1 .. n /\ both[p] = list[p - m]
      <4>1. p - m < q - m
          BY <1>1, <1>7
      <4> QED
          BY <1>3, <2>2, <3>2, <4>1
    <3> QED
        BY <1>5, <3>1, <3>2
  <2> QED
      BY <1>5, <2>1, <2>2
<1>8. ASSUME NEW x \in old \cup new
      PROVE  \E p \in 1 .. m + n : both[p] = x
  <2>1. CASE x \in old
    <3>1. PICK p \in 1 .. m : history[p] = x
        BY <1>3, <2>1
    <3>2. p \in 1 .. m + n
        BY <1>1
    <3> QED
        BY <1>2, <3>1, <3>2
  <2>2. CASE x \in new
    <3>1. PICK p \in 1 .. n : list[p] = x
        BY <1>3, <2>2
    <3>2. m + p \in 1 .. m + n
        BY <1>1
    <3> QED
        BY <1>2, <3>1, <3>2
  <2> QED
      BY <2>1, <2>2
<1>9. m + n \in Nat
    BY <1>1
<1> QED
    BY <1>2, <1>6, <1>7, <1>8, <1>9 DEF both, Lists, EndsWith

LEMMA AllFacts ==
    ASSUME FrameInv, stage # "validate",
           NEW old \in SUBSET Row, NEW m, NEW history, Lists(history, m, old),
           NEW new \in SUBSET Row, NEW n, NEW list, Lists(list, n, new),
           Precedes(old, new)
    PROVE  AllFeatures(list, history) = FeaturesOf(list, n, old \cup new)
<1>1. m \in Nat /\ n \in Nat /\ Len(history) = m /\ Len(list) = n
    BY ListFacts DEF Lists
<1>2. CASE history = <<>>
  <2>1. m = 0
      BY <1>1, <1>2
  <2>2. old = {}
      BY <2>1 DEF Lists
  <2>3. old \cup new = new
      BY <2>2
  <2> QED
      BY <1>2, <2>3, SingleFacts DEF AllFeatures
<1>3. CASE history # <<>>
  <2> DEFINE both == history \o list
             set == old \cup new
             table == FeaturesOf(both, m + n, set)
  <2>1. /\ Lists(both, m + n, set) /\ set \in SUBSET Row
        /\ \A p \in 1 .. n : both[m + p] = list[p]
    <3>1. set \in SUBSET Row
        OBVIOUS
    <3> HIDE DEF both, set
    <3>2. Lists(history \o list, m + n, old \cup new) /\ EndsWith(history \o list, m, n, list)
        BY ConcatFacts, Zenon
    <3> QED
        BY <3>1, <3>2 DEF both, set, EndsWith
  <2> HIDE DEF both, set
  <2>2. InTimeOrder(both) = both /\ FeaturesSingle(both) = table
      BY <2>1, OrderFacts, SingleFacts
  <2>3. AllFeatures(list, history) = SubSeq(table, m + 1, Len(table))
      BY <1>1, <1>3, <2>2 DEF AllFeatures, both
  <2> DEFINE Entry(x) == [row |-> x, prior |-> {i \in set : i < x /\ df[i].entity = df[x].entity},
                          frequencies |-> fitted]
  <2>4. \A p \in 1 .. m + n : table[p] = Entry(both[p])
      BY DEF FeaturesOf
  <2>5. table = [p \in 1 .. m + n |-> Entry(both[p])]
      BY DEF FeaturesOf
  <2>6. FeaturesOf(list, n, set) = [p \in 1 .. n |-> Entry(list[p])]
      BY DEF FeaturesOf
  <2> HIDE DEF table, Entry
  <2>7. table \in Seq({table[p] : p \in 1 .. m + n}) /\ Len(table) = m + n
    <3>1. table \in [1 .. m + n -> {table[p] : p \in 1 .. m + n}] /\ m + n \in Nat
        BY <1>1, <2>5
    <3> QED
        BY <3>1, ListFacts
  <2>8. SubSeq(table, m + 1, m + n) = [p \in 1 .. n |-> table[m + p]]
    <3>1. SubSeq(table, m + 1, m + n) = [p \in 1 .. (1 + (m + n) - (m + 1)) |-> table[p + (m + 1) - 1]]
        BY <1>1, <2>7
    <3>2. 1 + (m + n) - (m + 1) = n /\ \A p \in 1 .. n : p + (m + 1) - 1 = m + p
        BY <1>1
    <3> QED
        BY <3>1, <3>2
  <2>9. \A p \in 1 .. n : table[m + p] = Entry(list[p])
    <3>1. \A p \in 1 .. n : m + p \in 1 .. m + n
        BY <1>1
    <3> QED
        BY <2>1, <2>4, <3>1
  <2> QED
      BY <2>3, <2>6, <2>7, <2>8, <2>9 DEF set
<1> QED
    BY <1>2, <1>3

-----------------------------------------------------------------------------
\* What the job makes of the parts.

LEMMA PartsFacts ==
    ASSUME IInv, stage \notin {"validate", "loaded"}
    PROVE  /\ stage # "validate" /\ FrameInv
           /\ parts \in [PartNames -> SUBSET Row]
           /\ parts.train \in SUBSET Row /\ parts.val \in SUBSET Row /\ parts.test \in SUBSET Row
           /\ parts.calib \in SUBSET parts.val /\ parts.opt \in SUBSET parts.val
           /\ Precedes(parts.train, parts.val)
           /\ Precedes(parts.train \cup parts.val, parts.test)
<1>1. PartsInTime
    BY InTime
<1>2. /\ Before("train", "val") /\ Before("val", "test") /\ Before("train", "test")
      /\ parts.calib \cup parts.opt \subseteq parts.val
    BY <1>1 DEF PartsInTime
<1>3. parts = Split
    BY DEF IInv, SplitInv
<1>4. parts \in [PartNames -> SUBSET Row]
    BY <1>3 DEF Split, PartNames, Upto, From, Between
<1> QED
    BY <1>2, <1>4 DEF IInv, Before, Precedes, PartNames

\* With a history of all the earlier rows the features are those of the table.
LEMMA TableFacts ==
    ASSUME NEW rows \in SUBSET Row, NEW set \in SUBSET Kept, fitted = parts.train,
           \A x \in rows, i \in Kept : i < x => i \in set
    PROVE  FeaturesOf(Frame(rows), Cardinality(rows), set) = Table(rows)
<1>1. DOMAIN Frame(rows) = 1 .. Cardinality(rows)
    BY FrameFacts
<1>2. \A p \in 1 .. Cardinality(rows) : Frame(rows)[p] \in rows
    BY FrameFacts DEF Lists
<1>3. \A x \in rows :
          {i \in set : i < x /\ df[i].entity = df[x].entity} =
          {i \in Kept : i < x /\ df[i].entity = df[x].entity}
    OBVIOUS
<1> QED
    BY <1>1, <1>2, <1>3 DEF FeaturesOf, Table

\* The rows of val that belong to a sub-split are those of its own table.
LEMMA MaskFacts ==
    ASSUME NEW val \in SUBSET Row, NEW subset \in SUBSET val
    PROVE  LET places == Ascending({p \in DOMAIN Frame(val) : Frame(val)[p] \in subset})
           IN  [n \in DOMAIN places |-> Table(val)[places[n]]] = Table(subset)
<1> DEFINE all == Frame(val)
           N == Cardinality(val)
           S == {p \in 1 .. N : all[p] \in subset}
           places == Ascending(S)
           c == Cardinality(S)
           list == [n \in 1 .. c |-> all[places[n]]]
<1>1. /\ N \in Nat /\ DOMAIN all = 1 .. N
      /\ \A p \in 1 .. N : all[p] \in val
      /\ \A p, q \in 1 .. N : p < q => all[p] < all[q]
      /\ \A x \in val : \E p \in 1 .. N : all[p] = x
    BY FrameFacts DEF Lists
<1>2. S \in SUBSET (1 .. N)
    OBVIOUS
<1>3. /\ c \in Nat /\ places \in [1 .. c -> S]
      /\ \A p, q \in 1 .. c : p < q => places[p] < places[q]
      /\ \A x \in S : \E p \in 1 .. c : places[p] = x
  <2> HIDE DEF N, S
  <2> QED
      BY <1>1, <1>2, AscendingFacts
<1> HIDE DEF all, N, places, c
<1>4. list \in [1 .. c -> subset]
    BY <1>3
<1>5. \A p, q \in 1 .. c : p < q => list[p] < list[q]
    BY <1>1, <1>2, <1>3
<1>6. \A x \in subset : \E p \in 1 .. c : list[p] = x
  <2> SUFFICES ASSUME NEW x \in subset PROVE \E p \in 1 .. c : list[p] = x
      OBVIOUS
  <2>1. PICK q \in 1 .. N : all[q] = x
      BY <1>1
  <2>2. q \in S
      BY <2>1
  <2>3. PICK p \in 1 .. c : places[p] = q
      BY <1>3, <2>2
  <2> QED
      BY <2>1, <2>3
<1>7. Rows \in Nat /\ subset \in SUBSET (1 .. Rows)
    BY SplitAssumption DEF Row
<1> HIDE DEF S
<1>8. c = Cardinality(subset) /\ list = Ascending(subset)
  <2> HIDE DEF list
  <2> QED
      BY <1>3, <1>4, <1>5, <1>6, <1>7, AscendingUnique
<1>9. DOMAIN places = 1 .. c /\ DOMAIN Frame(subset) = 1 .. c
    BY <1>3, <1>4, <1>8 DEF Frame
<1>10. \A n \in 1 .. c : /\ places[n] \in 1 .. N
                         /\ Frame(subset)[n] = all[places[n]]
    BY <1>2, <1>3, <1>8 DEF Frame, S
<1> DEFINE Entry(x) == [row |-> x, prior |-> {i \in Kept : i < x /\ df[i].entity = df[x].entity},
                        frequencies |-> parts.train]
<1>11. [n \in 1 .. c |-> Table(val)[places[n]]] = Table(subset)
  <2>1. Table(val) = [p \in 1 .. N |-> Entry(all[p])]
      BY <1>1 DEF Table, all
  <2>2. Table(subset) = [n \in 1 .. c |-> Entry(Frame(subset)[n])]
      BY <1>9 DEF Table
  <2> HIDE DEF Entry
  <2>3. \A n \in 1 .. c : Table(val)[places[n]] = Entry(Frame(subset)[n])
      BY <1>10, <2>1
  <2> QED
      BY <2>2, <2>3
<1>12. {p \in DOMAIN Frame(val) : Frame(val)[p] \in subset} = S
    BY <1>1 DEF all, S
<1> QED
    BY <1>9, <1>11, <1>12 DEF places

\* The three tables are those of the parts, each with the rows before it.
LEMMA FeaturesMade ==
    ASSUME IInv, stage \notin {"validate", "loaded"}, fitted = parts.train
    PROVE  LET train == Frame(parts.train)
               val   == Frame(parts.val)
               test  == Frame(parts.test)
           IN  /\ AllFeatures(train, <<>>) = Table(parts.train)
               /\ AllFeatures(val, train) = Table(parts.val)
               /\ AllFeatures(test, train \o val) = Table(parts.test)
<1> DEFINE train == Frame(parts.train)
           val   == Frame(parts.val)
           test  == Frame(parts.test)
           k == Cardinality(parts.train)
           m == Cardinality(parts.val)
           n == Cardinality(parts.test)
           old == parts.train \cup parts.val
<1>1. /\ FrameInv /\ stage # "validate"
      /\ parts.train \in SUBSET Row /\ parts.val \in SUBSET Row /\ parts.test \in SUBSET Row
      /\ old \in SUBSET Row
      /\ Precedes(parts.train, parts.val) /\ Precedes(old, parts.test)
    BY PartsFacts
<1>2. \A i, x \in Row : i < x => ~(x < i) /\ i # x
  <2>1. \A i \in Row : i \in Nat
      BY SplitAssumption DEF Row
  <2> QED
      BY <2>1
<1>3. /\ Lists(train, k, parts.train) /\ Lists(val, m, parts.val) /\ Lists(test, n, parts.test)
    BY <1>1, FrameFacts
<1>4. Lists(train \o val, k + m, old)
  <2> HIDE DEF train, val, k, m
  <2> QED
      BY <1>1, <1>3, ConcatFacts, Zenon DEF old
<1>5. AllFeatures(train, <<>>) = Table(parts.train)
  <2>1. AllFeatures(train, <<>>) = FeaturesOf(train, k, parts.train)
    <3>1. FeaturesSingle(train) = FeaturesOf(train, k, parts.train)
        BY <1>1, <1>3, SingleFacts
    <3> QED
        BY <3>1 DEF AllFeatures
  <2>2. \A x \in parts.train, i \in Kept : i < x => i \in parts.train
      BY <1>1, <1>2 DEF Kept, Precedes
  <2>3. parts.train \in SUBSET Kept
      BY DEF Kept
  <2> QED
      BY <1>1, <2>1, <2>2, <2>3, TableFacts
<1>6. AllFeatures(val, train) = Table(parts.val)
  <2>1. AllFeatures(val, train) = FeaturesOf(val, m, old)
    <3> HIDE DEF train, val, k, m
    <3> QED
        BY <1>1, <1>3, AllFacts DEF old
  <2>2. \A x \in parts.val, i \in Kept : i < x => i \in old
      BY <1>1, <1>2 DEF Kept, Precedes
  <2>3. old \in SUBSET Kept
      BY DEF Kept
  <2> HIDE DEF old
  <2> QED
      BY <1>1, <2>1, <2>2, <2>3, TableFacts
<1>7. AllFeatures(test, train \o val) = Table(parts.test)
  <2>1. AllFeatures(test, train \o val) = FeaturesOf(test, n, old \cup parts.test)
    <3> HIDE DEF train, val, test, k, m, n, old
    <3> QED
        BY <1>1, <1>3, <1>4, AllFacts
  <2>2. old \cup parts.test = Kept
      BY DEF Kept
  <2> HIDE DEF old
  <2> QED
      BY <1>1, <2>1, <2>2, TableFacts
<1> QED
    BY <1>5, <1>6, <1>7

LEMMA JobInit == Init => JobInv
<1> SUFFICES ASSUME Init PROVE JobInv
    OBVIOUS
<1>1. IInv
    BY InitInv
<1>2. /\ file \in Files /\ failFast \in BOOLEAN /\ step = "file_exists" /\ warnings = {}
      /\ stage = "validate" /\ parts = NoParts /\ fitted = {}
      /\ features = NoFeatures /\ masks = NoMasks
    BY DEF Init, ValidatorInit
<1>3. "file_exists" \in CheckNames
    BY ChecksFacts
<1>4. CallInv
    BY <1>2, <1>3, SplitAssumption DEF CallInv
<1>5. FreshInv /\ TablesInv
    BY <1>2 DEF FreshInv, TablesInv
<1> QED
    BY <1>1, <1>4, <1>5 DEF JobInv

\* A check leaves the file as it is and names another check.
LEMMA CallStep ==
    ASSUME CallInv, Validate
    PROVE  CallInv'
<1>1. UNCHANGED <<file, failFast>>
    BY DEF Validate, FileExists, IsFile, Sha256, FileReadable, ColumnSchema, DataTypes, RowCount,
           TxnIdUnique, NoNulls, TimestampRange, TargetDistribution, OutlierFraudSeparation,
           Pass, Fail, FailAndReturn, Crashes
<1>2. \/ step' = step
      \/ step' \in {"is_file", "sha256_checksum", "file_readable", "column_schema", "data_types",
                    "row_count", "txn_id_unique", "no_nulls", "timestamp_range",
                    "target_distribution", "outlier_fraud_separation"}
    BY DEF Validate, FileExists, IsFile, Sha256, FileReadable, ColumnSchema, DataTypes, RowCount,
           TxnIdUnique, NoNulls, TimestampRange, TargetDistribution, OutlierFraudSeparation,
           Pass, Fail, FailAndReturn, Crashes
<1>3. \/ warnings' = warnings \/ warnings' = warnings \cup {"counts"}
      \/ warnings' = warnings \cup {"fraud in outliers"}
    BY DEF Validate, FileExists, IsFile, Sha256, FileReadable, ColumnSchema, DataTypes, RowCount,
           TxnIdUnique, NoNulls, TimestampRange, TargetDistribution, OutlierFraudSeparation,
           Pass, Fail, FailAndReturn, Crashes, report
<1>4. step' \in CheckNames
  <2>1. {"is_file", "sha256_checksum", "file_readable", "column_schema", "data_types",
         "row_count", "txn_id_unique", "no_nulls", "timestamp_range",
         "target_distribution", "outlier_fraud_separation"} \subseteq CheckNames
      BY ChecksFacts
  <2> QED
      BY <1>2, <2>1 DEF CallInv
<1> QED
    BY <1>1, <1>3, <1>4 DEF CallInv

LEMMA JobStep ==
    ASSUME JobInv, [Next]_vars
    PROVE  JobInv'
<1>1. IInv /\ CallInv /\ FreshInv /\ TablesInv /\ IInv'
    BY StepInv DEF JobInv
<1>2. \A rows : UNCHANGED <<df, parts>> => Table(rows)' = Table(rows)
    BY DEF Table, Kept, Frame, Ascending
<1>3. ASSUME Check PROVE JobInv'
  <2>1. /\ CallInv' /\ stage = "validate"
        /\ UNCHANGED <<stage, df, parts, fitted, features, masks>>
      BY <1>1, <1>3, CallStep DEF Check
  <2>2. FreshInv' /\ TablesInv'
      BY <1>1, <2>1 DEF FreshInv, TablesInv
  <2> QED
      BY <1>1, <2>1, <2>2 DEF JobInv
<1>4. ASSUME UNCHANGED validatorVars, FreshInv', TablesInv' PROVE JobInv'
  <2>1. CallInv'
      BY <1>1, <1>4 DEF CallInv, validatorVars, report
  <2> QED
      BY <1>1, <1>4, <2>1 DEF JobInv
<1>5. ASSUME Load PROVE JobInv'
  <2>1. /\ stage = "validate" /\ stage' = "loaded"
        /\ UNCHANGED <<validatorVars, parts, fitted, features, masks>>
      BY <1>5 DEF Load
  <2>2. FreshInv' /\ TablesInv'
      BY <1>1, <2>1 DEF FreshInv, TablesInv
  <2> QED
      BY <1>4, <2>1, <2>2
<1>6. ASSUME SplitByTime PROVE JobInv'
  <2>1. /\ stage = "loaded" /\ stage' = "split"
        /\ UNCHANGED <<validatorVars, df, fitted, features, masks>>
      BY <1>6 DEF SplitByTime
  <2>2. FreshInv' /\ TablesInv'
      BY <1>1, <2>1 DEF FreshInv, TablesInv
  <2> QED
      BY <1>4, <2>1, <2>2
<1>7. ASSUME FitCategoricalMaps PROVE JobInv'
  <2>1. /\ stage = "split" /\ stage' = "fitted" /\ fitted' = parts.train
        /\ UNCHANGED <<validatorVars, df, parts, features, masks>>
      BY <1>7 DEF FitCategoricalMaps
  <2>2. FreshInv' /\ TablesInv'
      BY <1>1, <2>1 DEF FreshInv, TablesInv
  <2> QED
      BY <1>4, <2>1, <2>2
<1>8. ASSUME GenerateFeatures PROVE JobInv'
  <2>1. /\ stage = "fitted" /\ stage' = "features" /\ fitted = parts.train
        /\ UNCHANGED <<validatorVars, df, parts, fitted, masks>>
      BY <1>1, <1>8 DEF GenerateFeatures, TablesInv
  <2>2. features' = [train |-> Table(parts.train), val |-> Table(parts.val),
                     test |-> Table(parts.test)]
      BY <1>1, <1>8, <2>1, FeaturesMade DEF GenerateFeatures
  <2>3. features' = [part \in {"train", "val", "test"} |-> Table(parts[part])]
      BY <2>2
  <2>4. FreshInv'
      BY <1>1, <2>1 DEF FreshInv
  <2>5. TablesInv'
      BY <1>2, <2>1, <2>3 DEF TablesInv
  <2> QED
      BY <1>4, <2>1, <2>4, <2>5
<1>9. ASSUME SubSplits PROVE JobInv'
  <2>1. /\ stage = "features" /\ stage' = "divided"
        /\ UNCHANGED <<validatorVars, df, parts, fitted, features>>
        /\ masks' = [calib |-> Masked(parts.calib), opt |-> Masked(parts.opt)]
      BY <1>9 DEF SubSplits
  <2>2. /\ fitted = parts.train
        /\ features = [part \in {"train", "val", "test"} |-> Table(parts[part])]
      BY <1>1, <2>1 DEF TablesInv
  <2>3. features.val = Table(parts.val)
      BY <2>2
  <2>4. /\ parts.val \in SUBSET Row
        /\ parts.calib \in SUBSET parts.val /\ parts.opt \in SUBSET parts.val
      BY <1>1, <2>1, PartsFacts
  <2>5. \A subset \in SUBSET parts.val : Masked(subset) = Table(subset)
      BY <2>3, <2>4, MaskFacts DEF Masked
  <2>6. masks' = [part \in {"calib", "opt"} |-> Table(parts[part])]
      BY <2>1, <2>4, <2>5
  <2>7. FreshInv'
      BY <1>1, <2>1 DEF FreshInv
  <2>8. TablesInv'
      BY <1>2, <2>1, <2>2, <2>6 DEF TablesInv
  <2> QED
      BY <1>4, <2>1, <2>7, <2>8
<1>10. CASE UNCHANGED vars
  <2>1. UNCHANGED <<validatorVars, stage, df, parts, fitted, features, masks>>
      BY <1>10 DEF vars
  <2>2. FreshInv' /\ TablesInv'
      BY <1>1, <1>2, <2>1 DEF FreshInv, TablesInv
  <2> QED
      BY <1>4, <2>1, <2>2
<1> QED
    BY <1>3, <1>5, <1>6, <1>7, <1>8, <1>9, <1>10 DEF Next

(***************************************************************************)
(* Each table of features, and each of the two that the model's            *)
(* probabilities for val are cut into, is that of its part: row by row,    *)
(* whatever history was put before it and cut off again by its length.     *)
(***************************************************************************)
THEOREM TablesInductive == Spec => []JobInv
<1>1. JobInv /\ [Next]_vars => JobInv'
    BY JobStep
<1> QED
    BY JobInit, <1>1, PTL DEF Spec

-----------------------------------------------------------------------------
\* What follows from the tables.

Earlier(row) == {i \in Kept : i < row /\ df[i].entity = df[row].entity}

LEMMA TableRows ==
    ASSUME NEW rows \in SUBSET Row
    PROVE  /\ Cardinality(rows) \in Nat
           /\ DOMAIN Table(rows) = 1 .. Cardinality(rows)
           /\ Len(Table(rows)) = Len(Frame(rows))
           /\ \A p \in 1 .. Cardinality(rows) :
                 /\ Table(rows)[p] \in [row : rows, prior : SUBSET Kept,
                                        frequencies : {parts.train}]
                 /\ Table(rows)[p].row = Frame(rows)[p]
                 /\ Table(rows)[p].prior = Earlier(Table(rows)[p].row)
                 /\ Table(rows)[p].frequencies = parts.train
<1>1. /\ Cardinality(rows) \in Nat /\ DOMAIN Frame(rows) = 1 .. Cardinality(rows)
      /\ Frame(rows) \in [1 .. Cardinality(rows) -> rows]
      /\ \A p \in 1 .. Cardinality(rows) : Frame(rows)[p] \in rows
    BY FrameFacts DEF Lists
<1>2. /\ DOMAIN Table(rows) = 1 .. Cardinality(rows)
      /\ \A p \in 1 .. Cardinality(rows) :
            Table(rows)[p] =
                [row |-> Frame(rows)[p], prior |-> Earlier(Frame(rows)[p]),
                 frequencies |-> parts.train]
    BY <1>1 DEF Table, Earlier
<1>3. Len(Table(rows)) = Cardinality(rows) /\ Len(Frame(rows)) = Cardinality(rows)
    BY <1>1, <1>2
<1>4. \A row : Earlier(row) \in SUBSET Kept
    BY DEF Earlier
<1> QED
    BY <1>1, <1>2, <1>3, <1>4

LEMMA TableType ==
    ASSUME NEW rows \in SUBSET Row, parts.train \in SUBSET Row, Kept \in SUBSET Row
    PROVE  Table(rows) \in Seq(FeatureRow)
<1> DEFINE n == Cardinality(rows)
           table == Table(rows)
<1>1. n \in Nat /\ table = [p \in 1 .. n |-> table[p]]
  <2>1. n \in Nat /\ DOMAIN table = 1 .. n
      BY TableRows
  <2>2. table = [p \in DOMAIN table |-> table[p]]
      BY ONLY DEF Table
  <2> HIDE DEF n, table
  <2> QED
      BY <2>1, <2>2
<1>2. ASSUME NEW p \in 1 .. n PROVE table[p] \in FeatureRow
  <2>1. table[p] \in [row : rows, prior : SUBSET Kept, frequencies : {parts.train}]
      BY TableRows
  <2>2. table[p].row \in Row /\ table[p].prior \in SUBSET Row /\ table[p].frequencies \in SUBSET Row
      BY <2>1
  <2>3. table[p] = [row |-> table[p].row, prior |-> table[p].prior,
                    frequencies |-> table[p].frequencies]
      BY <2>1
  <2> HIDE DEF table
  <2> QED
      BY <2>2, <2>3 DEF FeatureRow
<1> HIDE DEF n, table
<1>3. table \in [1 .. n -> FeatureRow]
    BY <1>1, <1>2
<1>4. table \in Seq(FeatureRow)
    BY <1>1, <1>3
<1> QED
    BY <1>4 DEF table

(***************************************************************************)
(* The rows of a part are those of its labels, in their order, and its     *)
(* frequencies those of the training part: for every data set and split.   *)
(***************************************************************************)
THEOREM Aligned == Spec => []RowsAlign
<1>1. JobInv => RowsAlign
  <2> SUFFICES ASSUME JobInv PROVE RowsAlign
      OBVIOUS
  <2>1. ASSUME NEW rows \in SUBSET Row PROVE RowsOf(rows, Table(rows))
    <3>1. \A p \in DOMAIN Table(rows) : /\ Table(rows)[p].row = Frame(rows)[p]
                                        /\ Table(rows)[p].frequencies = parts.train
        BY TableRows
    <3> QED
        BY <3>1, TableRows DEF RowsOf
  <2>2. ASSUME stage \in {"features", "divided"}, NEW part \in {"train", "val", "test"}
        PROVE  RowsOf(parts[part], features[part])
      BY <2>1, <2>2, PartsFacts DEF JobInv, TablesInv, PartNames
  <2>3. ASSUME stage = "divided", NEW part \in {"calib", "opt"}
        PROVE  RowsOf(parts[part], masks[part])
      BY <2>1, <2>3, PartsFacts DEF JobInv, TablesInv, PartNames
  <2> QED
      BY <2>2, <2>3 DEF RowsAlign
<1> QED
    BY TablesInductive, <1>1, PTL

(***************************************************************************)
(* The velocities of a row come from all earlier rows of its entity that   *)
(* are in a part and from no later one: for every data set and split.      *)
(***************************************************************************)
THEOREM LooksBack == Spec => []NoLookAhead
<1>1. JobInv => NoLookAhead
  <2> SUFFICES ASSUME JobInv, stage \in {"features", "divided"},
                      NEW part \in {"train", "val", "test"}, NEW p \in DOMAIN features[part]
               PROVE  features[part][p].prior = Earlier(features[part][p].row)
      BY DEF NoLookAhead, Earlier
  <2>1. features[part] = Table(parts[part])
      BY DEF JobInv, TablesInv
  <2>2. parts[part] \in SUBSET Row
      BY PartsFacts DEF JobInv, PartNames
  <2> QED
      BY <2>1, <2>2, TableRows
<1> QED
    BY TablesInductive, <1>1, PTL

(***************************************************************************)
(* The call's report, the frame, the parts and the tables have their types.*)
(***************************************************************************)
THEOREM TypeCorrect == Spec => []TypeOK
<1>1. JobInv => TypeOK
  <2> SUFFICES ASSUME JobInv PROVE TypeOK
      OBVIOUS
  <2>1. ValidatorTypeOK
      BY DEF JobInv, IInv, CallInv, ReportInv, ValidatorTypeOK
  <2>2. stage \in Stages /\ (stage # "validate" => df \in [Row -> [time : Times, entity : Entities]])
      BY DEF JobInv, IInv, FrameInv
  <2>3. parts \in [PartNames -> SUBSET Row]
    <3>1. CASE stage \in {"validate", "loaded"}
        BY <3>1 DEF JobInv, FreshInv, NoParts
    <3>2. CASE stage \notin {"validate", "loaded"}
        BY <3>2, PartsFacts DEF JobInv
    <3> QED
        BY <3>1, <3>2
  <2>4. fitted \subseteq Row
      BY <2>2, <2>3 DEF JobInv, FreshInv, TablesInv, Stages, PartNames
  <2>5. \A part \in PartNames : Table(parts[part]) \in Seq(FeatureRow)
    <3>1. parts.train \in SUBSET Row /\ Kept \in SUBSET Row
        BY <2>3 DEF Kept, PartNames
    <3> QED
        BY <2>3, <3>1, TableType
  <2>6. <<>> \in Seq(FeatureRow)
      OBVIOUS
  <2>7. features \in [{"train", "val", "test"} -> Seq(FeatureRow)]
    <3>1. CASE stage \in {"features", "divided"}
        BY <3>1, <2>5 DEF JobInv, TablesInv, PartNames
    <3>2. CASE stage \notin {"features", "divided"}
        BY <3>2, <2>6 DEF JobInv, FreshInv, NoFeatures
    <3> QED
        BY <3>1, <3>2
  <2>8. masks \in [{"calib", "opt"} -> Seq(FeatureRow)]
    <3>1. CASE stage = "divided"
        BY <3>1, <2>5 DEF JobInv, TablesInv, PartNames
    <3>2. CASE stage # "divided"
        BY <3>2, <2>6 DEF JobInv, FreshInv, NoMasks
    <3> QED
        BY <3>1, <3>2
  <2> QED
      BY <2>1, <2>2, <2>3, <2>4, <2>7, <2>8 DEF TypeOK
<1> QED
    BY TablesInductive, <1>1, PTL
=============================================================================
