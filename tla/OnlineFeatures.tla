--------------------------- MODULE OnlineFeatures ---------------------------
(***************************************************************************)
(* One transaction, seen by the two implementations of the features        *)
(* (src/features/pipeline.py): as a row of a training frame, column by     *)
(* column with pandas, and as the dict of a request, value by value, with  *)
(* the alignment to the model's features in predict (src/api/app.py).      *)
(*                                                                         *)
(* Amounts and ratios are integers, a ratio in percent; averages and       *)
(* deviations are rounded down to one.  The categorical columns are        *)
(* handled alike: there is one.  A row has the columns of a transaction    *)
(* alone, by name, and the velocities, by entity and name.                 *)
(***************************************************************************)
EXTENDS FeatureRegistry, Integers, Sequences, FiniteSets, Functions

CONSTANTS
    Transactions,   \* the transactions that may come
    Histories,      \* earlier rows of each entity in the frame: amount and time
    Categories,     \* values of the categorical column
    Maps,           \* frequency maps that the engineer may have been fitted to
    Now             \* datetime.now() of the process that serves

Clock == [hour : 0 .. 23, minute : 0 .. 59, weekday : 0 .. 6, day : 1 .. 31]

Places == {"customer", "billing", "card", "device", "ip", "merchant"}

Proxies == {"none", "None", "unknown", "vpn", "tor", "TOR", "tor_exit"}

\* A time is in ISO format, a datetime, or in another format that pandas reads.
Transaction == [amount : Int, creditLimit : Int, tenure : Int, cardAge : Int, deviceAge : Int,
                international : {0, 1}, installment : {0, 1}, category : Categories,
                time : Nat, clock : Clock, format : {"iso", "datetime", "other"},
                country : STRING, countries : [Places -> STRING],
                proxy : Proxies, connection : {"residential", "Datacenter", "datacenter"}]

Unfitted == <<>>

ASSUME FeaturesAssumption ==
    /\ Transactions \subseteq Transaction
    /\ Histories \subseteq [EntityTypes -> Seq([amount : Int, time : Nat])]
    /\ Maps \subseteq [Categories -> Nat]
    /\ Now \in Clock

VARIABLES
    raw,        \* the transaction
    prior,      \* the earlier rows of its entities
    freqs,      \* _categorical_freq_maps, Unfitted when _is_fitted is not set
    trained,    \* its feature row in training, as a set of none or one
    served      \* the row that the model is given for it

vars == <<raw, prior, freqs, trained, served>>

-----------------------------------------------------------------------------
(***************************************************************************)
(* Buckets.  pd.cut closes its intervals on the right; what is in none of  *)
(* them is NaN, and then 0.  np.searchsorted is the number of edges on the *)
(* left of the value.  The lowest edge of pd.cut is -1 or -inf.            *)
(***************************************************************************)
InBin(lowest, edges, k, x) ==
    /\ IF k = 0 THEN lowest = "-inf" \/ x > -1 ELSE x > edges[k]
    /\ k < Len(edges) => x <= edges[k + 1]

Cut(lowest, edges, x) ==
    IF \E k \in 0 .. Len(edges) : InBin(lowest, edges, k, x)
    THEN CHOOSE k \in 0 .. Len(edges) : InBin(lowest, edges, k, x)
    ELSE 0

\* Mutant: side="right".
SearchSorted_Right(edges, x) == Cardinality({k \in DOMAIN edges : edges[k] <= x})

SearchSorted(edges, x) == Cardinality({k \in DOMAIN edges : edges[k] < x})

AmountEdges == <<1, 10, 50, 100, 500, 1000, 5000>>

AgeEdges == <<30, 90, 365, 730>>

DeviceEdges == <<7, 30, 90, 365>>

Flag(b) == IF b THEN 1 ELSE 0

Percent(amount, limit) == (100 * amount) \div limit

Positive(x) == IF x < 0 THEN 0 ELSE x

Lower(proxy) == CASE proxy = "None" -> "none" [] proxy = "TOR" -> "tor" [] OTHER -> proxy

HasTor(proxy) == Lower(proxy) \in {"tor", "tor_exit"}

IsProxy(proxy) == Lower(proxy) \notin {"none", "unknown"}

Datacenter(connection) == connection \in {"Datacenter", "datacenter"}

-----------------------------------------------------------------------------
\* pd.concat(features, axis=1): the columns of all tables; none has two of a name.
Combined(tables) ==
    [f \in UNION {DOMAIN tables[k] : k \in DOMAIN tables} |->
        LET k == CHOOSE j \in DOMAIN tables : f \in DOMAIN tables[j]
        IN  tables[k][f]]

\* generate_static_features; log1p keeps the order, and is left out.
StaticFeatures(t) ==
    [log_amount          |-> Positive(t.amount),
     amount_credit_ratio |->
         LET ratio == IF t.creditLimit < 0
                      THEN Percent(-t.amount, -t.creditLimit)
                      ELSE Percent(t.amount, IF t.creditLimit = 0 THEN 1 ELSE t.creditLimit)
         IN  IF ratio < 0 THEN 0 ELSE IF ratio > 10000 THEN 10000 ELSE ratio,
     is_international    |-> t.international,
     is_installment      |-> t.installment,
     amount_bucket       |-> Cut("-inf", AmountEdges, t.amount),
     is_micro_txn        |-> Flag(t.amount < 1),
     is_high_value_txn   |-> Flag(t.amount > 5000),
     customer_tenure_bucket |-> Cut("-1", AgeEdges, t.tenure),
     card_age_bucket     |-> Cut("-1", AgeEdges, t.cardAge),
     device_age_bucket   |-> Cut("-1", DeviceEdges, t.deviceAge)]

\* generate_categorical_features: an engineer that was not fitted counts in
\* the frame, where the value occurs at least once.
CategoricalFeatures(t) ==
    [category_encoded |-> IF freqs = Unfitted THEN 1 ELSE freqs[t.category]]

TemporalFeatures(c) ==
    [hour_of_day   |-> c.hour,
     minute_bucket |-> c.hour * 4 + c.minute \div 15,
     day_of_week   |-> c.weekday,
     day_of_month  |-> c.day,
     is_weekend    |-> Flag(c.weekday \in {5, 6}),
     is_night      |-> Flag(c.hour \in 0 .. 6 \cup {22, 23})]

Mismatches(t) == {p \in Places : t.countries[p] # t.country}

GeographicFeatures(t) ==
    [txn_country_mismatch |-> Mismatches(t),
     geo_mismatch_count   |-> Cardinality(Mismatches(t)),
     cross_border_flag    |-> Flag("customer" \in Mismatches(t))]

IdentityFeatures(t) ==
    [is_new_device    |-> Flag(t.deviceAge < 7),
     is_proxy         |-> Flag(IsProxy(t.proxy)),
     is_tor           |-> Flag(HasTor(t.proxy)),
     is_datacenter    |-> Flag(Datacenter(t.connection)),
     proxy_risk_score |-> CASE HasTor(t.proxy) -> 3
                            [] IsProxy(t.proxy) /\ ~HasTor(t.proxy) -> 2
                            [] OTHER -> Flag(Lower(t.proxy) # "none")]

Statistics == {"total_txn_count", "avg_amount", "std_amount", "time_since_prev", "amount_zscore"}

SumOf(rows) == SumFunction([i \in DOMAIN rows |-> rows[i].amount])

Average(rows) == IF rows = <<>> THEN 0 ELSE SumOf(rows) \div Len(rows)

\* The sample deviation, of which one row has none.
Deviation(rows) ==
    LET squares  == SumFunction([i \in DOMAIN rows |-> rows[i].amount * rows[i].amount])
        variance == (Len(rows) * squares - SumOf(rows) * SumOf(rows))
                        \div (Len(rows) * (Len(rows) - 1))
    IN  IF Len(rows) < 2 THEN 0
        ELSE CHOOSE n \in 0 .. variance : n * n <= variance /\ variance < (n + 1) * (n + 1)

ZScore(amount, rows) ==
    LET z == (amount - Average(rows)) \div (IF Deviation(rows) = 0 THEN 1 ELSE Deviation(rows))
    IN  IF z < -10 THEN -10 ELSE IF z > 10 THEN 10 ELSE z

\* generate_velocity_features_fast of every entity, with its earlier rows
VelocityFeatures(t, earlier) ==
    [c \in EntityTypes \X Statistics |->
        LET rows == earlier[c[1]]
        IN  CASE c[2] = "total_txn_count" -> Len(rows)
              [] c[2] = "avg_amount"      -> Average(rows)
              [] c[2] = "std_amount"      -> Deviation(rows)
              [] c[2] = "time_since_prev" -> IF rows = <<>> THEN -1 ELSE t.time - rows[Len(rows)].time
              [] c[2] = "amount_zscore"   -> ZScore(t.amount, rows)]

\* generate_online_features, section by section: one dict, and no velocity.
OnlineStatic(t) ==
    [log_amount          |-> Positive(t.amount),
     amount_credit_ratio |->
         LET ratio == IF t.creditLimit < 0
                      THEN Percent(-t.amount, -t.creditLimit)
                      ELSE Percent(t.amount, IF t.creditLimit = 0 THEN 1 ELSE t.creditLimit)
         IN  IF ratio > 10000 THEN 10000 ELSE ratio,
     is_international    |-> t.international,
     is_installment      |-> t.installment,
     amount_bucket       |-> SearchSorted(AmountEdges, t.amount),
     is_micro_txn        |-> Flag(t.amount < 1),
     is_high_value_txn   |-> Flag(t.amount > 5000),
     customer_tenure_bucket |-> SearchSorted(AgeEdges, t.tenure),
     card_age_bucket     |-> SearchSorted(AgeEdges, t.cardAge),
     device_age_bucket   |-> SearchSorted(DeviceEdges, t.deviceAge)]

OnlineCategorical(t) ==
    [category_encoded |-> IF freqs = Unfitted THEN 0 ELSE freqs[t.category]]

OnlineTemporal(t) ==
    LET c == IF t.format = "other" THEN Now ELSE t.clock
    IN  [hour_of_day   |-> c.hour,
         minute_bucket |-> c.hour * 4 + c.minute \div 15,
         day_of_week   |-> c.weekday,
         day_of_month  |-> c.day,
         is_weekend    |-> Flag(c.weekday \in {5, 6}),
         is_night      |-> Flag(c.hour >= 22 \/ c.hour < 7)]

OnlineIdentity(t) ==
    [is_new_device    |-> Flag(t.deviceAge < 7),
     is_proxy         |-> Flag(IsProxy(t.proxy)),
     is_tor           |-> Flag(HasTor(t.proxy)),
     is_datacenter    |-> Flag(Datacenter(t.connection)),
     proxy_risk_score |-> IF HasTor(t.proxy) THEN 3
                          ELSE IF IsProxy(t.proxy) THEN 2
                          ELSE IF Lower(t.proxy) # "none" THEN 1 ELSE 0]

OnlineFeatures(t) ==
    [own      |-> Combined(<<OnlineStatic(t), OnlineCategorical(t), OnlineTemporal(t),
                             GeographicFeatures(t), OnlineIdentity(t)>>),
     velocity |-> <<>>]

\* The features of a row of the training frame, which the model is fitted on.
TrainingFeatures(t, earlier) ==
    [own      |-> Combined(<<StaticFeatures(t), CategoricalFeatures(t), TemporalFeatures(t.clock),
                             GeographicFeatures(t), IdentityFeatures(t)>>),
     velocity |-> VelocityFeatures(t, earlier)]

\* predict: features.get(f, 0) for the features of the model
Filled(features, names) == [f \in names |-> IF f \in DOMAIN features THEN features[f] ELSE 0]

Align(row, model) ==
    [own      |-> Filled(row.own, DOMAIN model.own),
     velocity |-> Filled(row.velocity, DOMAIN model.velocity)]

Init ==
    /\ raw \in Transactions
    /\ prior \in Histories
    /\ freqs \in Maps \cup {Unfitted}
    /\ trained = {}
    /\ served = {}

Train ==
    /\ trained = {}
    /\ trained' = {TrainingFeatures(raw, prior)}
    /\ UNCHANGED <<raw, prior, freqs, served>>

Serve ==
    /\ served = {}
    /\ served' = {Align(OnlineFeatures(raw), TrainingFeatures(raw, prior))}
    /\ UNCHANGED <<raw, prior, freqs, trained>>

Next == Train \/ Serve

Spec == Init /\ [][Next]_vars

-----------------------------------------------------------------------------
\* A transaction that the two are meant to agree on: it is not of a negative
\* amount or limit (of which the training frame clips the ratio at zero and the
\* request does not), its time is readable and the engineer was fitted.
Regular ==
    /\ raw.amount >= 0 /\ raw.creditLimit >= 0
    /\ raw.format # "other"
    /\ freqs # Unfitted

(***************************************************************************)
(* The model is given, for each feature of one transaction alone, what it  *)
(* would have been trained with for the same transaction: right-closed     *)
(* intervals against a search from the left, NaN against a missing bucket, *)
(* a chain of where against a chain of ifs.  These features are those that *)
(* the registry has without history; and what it has over the history of   *)
(* an entity is a column of the model, too.                                *)
(***************************************************************************)
Parity ==
    \A row \in trained :
        /\ DOMAIN row.own = WithoutHistory
        /\ WithHistory \subseteq DOMAIN row.velocity
        /\ Regular => \A x \in served : x.own = row.own

\* "In online inference, velocity features come from the Redis feature store."
\* (features/pipeline.py:529)  Nothing reads the store in predict: all of them
\* are zero, also the time since an earlier transaction, of which -1 stands for
\* none in training.
NoSkew ==
    Regular => \A row \in trained, x \in served : x = row

-----------------------------------------------------------------------------
\* The inductive invariant: what is trained on and what is served are the
\* features of the transaction.
RowsInv ==
    /\ raw \in Transactions
    /\ trained \subseteq {TrainingFeatures(raw, prior)}
    /\ served \subseteq {Align(OnlineFeatures(raw), TrainingFeatures(raw, prior))}
=============================================================================
