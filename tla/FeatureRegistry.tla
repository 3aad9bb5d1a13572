-------------------------- MODULE FeatureRegistry --------------------------
(***************************************************************************)
(* The registry of feature definitions (src/features/definitions.py): of   *)
(* each definition its name, the entity and the window in it, its category *)
(* and whether it needs the history of the entity.  The twenty encoded     *)
(* columns, and the six country pairs, have one definition each here.      *)
(***************************************************************************)

Windows == {"5m", "15m", "1h", "6h", "24h", "7d"}

EntityTypes == {"customer", "card", "device", "ip", "merchant", "account"}

FeatureDefinition(names, category) ==
    [name : names, entity : {"none"}, window : {"none"}, history : {FALSE}, category : {category}]

StaticDefinitions ==
    FeatureDefinition({"log_amount", "amount_credit_ratio", "amount_bucket", "is_micro_txn",
                       "is_high_value_txn"}, "amount")
    \cup FeatureDefinition({"is_international", "is_installment"}, "static")

CategoricalDefinitions == FeatureDefinition({"category_encoded"}, "categorical")

EntityDefinitions ==
    [name : {"txn_count", "amount_sum"}, entity : EntityTypes, window : Windows,
     history : {TRUE}, category : {"velocity"}]
    \cup [name : {"avg_amount", "std_amount", "total_txn_count"}, entity : EntityTypes,
          window : {"none"}, history : {TRUE}, category : {"entity"}]

TemporalDefinitions ==
    FeatureDefinition({"hour_of_day", "minute_bucket", "day_of_week", "day_of_month",
                       "is_weekend", "is_night"}, "temporal")
    \cup [name : {"time_since_prev"}, entity : {"customer", "card", "device", "ip"},
          window : {"none"}, history : {TRUE}, category : {"temporal"}]

GeographicDefinitions ==
    FeatureDefinition({"txn_country_mismatch", "cross_border_flag", "geo_mismatch_count"},
                      "geographic")

IdentityDefinitions ==
    FeatureDefinition({"is_new_device", "device_age_bucket", "is_proxy", "is_tor",
                       "is_datacenter", "proxy_risk_score", "customer_tenure_bucket",
                       "card_age_bucket"}, "identity")

AmountDefinitions ==
    [name : {"amount_zscore"}, entity : {"customer", "card"}, window : {"none"},
     history : {TRUE}, category : {"amount"}]

Registry ==
    StaticDefinitions \cup CategoricalDefinitions \cup EntityDefinitions
    \cup TemporalDefinitions \cup GeographicDefinitions \cup IdentityDefinitions
    \cup AmountDefinitions

\* list_features with a condition on the definitions: their names, and of
\* those over the whole history of an entity also the entity.
WithoutHistory == {d.name : d \in {e \in Registry : ~e.history}}

WithHistory == {<<d.entity, d.name>> : d \in {e \in Registry : e.history /\ e.window = "none"}}
=============================================================================
