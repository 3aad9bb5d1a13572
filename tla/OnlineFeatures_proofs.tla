----------------------- MODULE OnlineFeatures_proofs -----------------------
(***************************************************************************)
(* Proofs about OnlineFeatures: the two ways to find a bucket agree, for   *)
(* any edges, and so do the two implementations of the features, for any   *)
(* transaction that is not exceptional, any history and any fitted map.    *)
(***************************************************************************)
EXTENDS OnlineFeatures, FiniteSetTheorems, TLAPS

-----------------------------------------------------------------------------
\* Buckets.

\* A set of natural numbers that is not empty has a least one.
LEMMA LeastNat ==
    ASSUME NEW T, T \subseteq Nat, T # {}
    PROVE  \E n \in T : \A m \in T : n <= m
<1> DEFINE R == OpToRel(<, Nat)
<1>1. IsWellFoundedOn(R, Nat)
    BY NatLessThanWellFounded
<1>2. \A x, y \in Nat : <<x, y>> \in R <=> x < y
    BY DEF OpToRel
<1> HIDE DEF R
<1>3. PICK n \in T : \A m \in T : ~(<<m, n>> \in R)
    BY <1>1, WFMin
<1>4. ASSUME NEW m \in T PROVE n <= m
  <2>1. ~(<<m, n>> \in R) /\ m \in Nat /\ n \in Nat
      BY <1>3
  <2>2. ~(m < n)
      BY <1>2, <2>1
  <2> QED
      BY <2>1, <2>2
<1> QED
    BY <1>4

\* Edges in ascending order, none of which is negative.
Ascend(edges, n) ==
    /\ n \in Nat /\ edges \in [1 .. n -> Nat]
    /\ \A j, k \in 1 .. n : j < k => edges[j] < edges[k]

\* The edges on the left of a value are the first ones.
LEMMA SearchFacts ==
    ASSUME NEW n, NEW edges, Ascend(edges, n), NEW x \in Int
    PROVE  /\ SearchSorted(edges, x) \in 0 .. n
           /\ \A k \in 1 .. n : edges[k] < x <=> k <= SearchSorted(edges, x)
<1> DEFINE S == {k \in 1 .. n : edges[k] < x}
           T == {j \in Nat : j + 1 \notin S}
<1>1. /\ n \in Nat /\ DOMAIN edges = 1 .. n /\ Len(edges) = n
      /\ \A k \in 1 .. n : edges[k] \in Nat
      /\ \A j, k \in 1 .. n : j < k => edges[j] < edges[k]
    BY DEF Ascend
<1>2. n \in T
    BY <1>1
<1>3. PICK m \in T : \A j \in T : m <= j
  <2>1. T \subseteq Nat /\ T # {}
      BY <1>2
  <2> HIDE DEF T
  <2> QED
      BY <2>1, LeastNat
<1>4. m \in Nat /\ m + 1 \notin S /\ m <= n
    BY <1>2, <1>3
<1>5. \A k \in 1 .. m : k \in S
  <2> SUFFICES ASSUME NEW k \in 1 .. m, k \notin S PROVE FALSE
      OBVIOUS
  <2>1. k - 1 \in Nat /\ (k - 1) + 1 = k /\ ~(m <= k - 1)
      BY <1>4
  <2>2. k - 1 \in T
      BY <2>1
  <2> QED
      BY <1>3, <2>1, <2>2
<1>6. \A k \in S : k <= m
  <2> SUFFICES ASSUME NEW k \in S, ~(k <= m) PROVE FALSE
      OBVIOUS
  <2>1. k \in 1 .. n /\ edges[k] < x /\ m + 1 \in 1 .. n /\ m + 1 <= k
      BY <1>1, <1>4
  <2>2. edges[m + 1] <= edges[k] /\ edges[m + 1] \in Nat /\ edges[k] \in Nat
    <3>1. CASE m + 1 = k
        BY <1>1, <2>1, <3>1
    <3>2. CASE m + 1 < k
        BY <1>1, <2>1, <3>2
    <3> QED
        BY <1>1, <1>4, <2>1, <3>1, <3>2
  <2>3. edges[m + 1] < x
      BY <2>1, <2>2
  <2> QED
      BY <1>4, <2>1, <2>3
<1>7. S = 1 .. m
    BY <1>1, <1>4, <1>5, <1>6
<1>8. SearchSorted(edges, x) = Cardinality(S)
    BY <1>1 DEF SearchSorted
<1>9. Cardinality(1 .. m) = m
    BY <1>4, FS_Interval
<1>10. SearchSorted(edges, x) = m
    BY <1>7, <1>8, <1>9
<1>11. \A k \in 1 .. n : edges[k] < x <=> k \in S
    OBVIOUS
<1> HIDE DEF S
<1>12. \A k \in 1 .. n : k \in S <=> k <= m
    BY <1>1, <1>4, <1>7
<1> QED
    BY <1>1, <1>4, <1>10, <1>11, <1>12

(***************************************************************************)
(* pd.cut, with intervals that are closed on the right, and                *)
(* np.searchsorted from the left find the same bucket: for any ascending   *)
(* edges, and also for a value below the lowest interval, which is in none *)
(* of them and gets bucket 0 from fillna.                                  *)
(***************************************************************************)
THEOREM BucketsAgree ==
    ASSUME NEW n, NEW edges, Ascend(edges, n), NEW x \in Int, NEW lowest \in {"-inf", "-1"}
    PROVE  Cut(lowest, edges, x) = SearchSorted(edges, x)
<1> DEFINE m == SearchSorted(edges, x)
<1>1. /\ n \in Nat /\ Len(edges) = n
      /\ \A k \in 1 .. n : edges[k] \in Nat
    BY DEF Ascend
<1>2. m \in 0 .. n /\ \A k \in 1 .. n : edges[k] < x <=> k <= m
    BY SearchFacts
<1> HIDE DEF m
<1>3. ASSUME NEW k \in 0 .. n, InBin(lowest, edges, k, x) PROVE k = m
  <2>1. k = 0 \/ edges[k] < x
    <3>1. CASE k = 0
        BY <3>1
    <3>2. CASE k # 0
      <4>1. x > edges[k] /\ edges[k] \in Nat
          BY <1>1, <1>3, <3>2 DEF InBin
      <4> QED
          BY <4>1
    <3> QED
        BY <3>1, <3>2
  <2>2. k <= m
      BY <1>1, <1>2, <2>1
  <2>3. ~(k < m)
    <3> SUFFICES ASSUME k < m PROVE FALSE
        OBVIOUS
    <3>1. k + 1 \in 1 .. n /\ k + 1 <= m /\ k < n
        BY <1>1, <1>2
    <3>2. x <= edges[k + 1]
        BY <1>1, <1>3, <3>1 DEF InBin
    <3>3. edges[k + 1] < x /\ edges[k + 1] \in Nat
        BY <1>1, <1>2, <3>1
    <3> QED
        BY <3>2, <3>3
  <2> QED
      BY <1>1, <1>2, <2>2, <2>3
<1>4. CASE InBin(lowest, edges, m, x)
    BY <1>1, <1>2, <1>3, <1>4 DEF Cut, m
<1>5. CASE ~InBin(lowest, edges, m, x)
  <2>1. ~\E k \in 0 .. n : InBin(lowest, edges, k, x)
      BY <1>3, <1>5
  <2>2. Cut(lowest, edges, x) = 0
      BY <1>1, <2>1 DEF Cut
  <2>3. m < n => x <= edges[m + 1]
    <3> SUFFICES ASSUME m < n PROVE x <= edges[m + 1]
        OBVIOUS
    <3>1. m + 1 \in 1 .. n /\ ~(m + 1 <= m)
        BY <1>1, <1>2
    <3>2. ~(edges[m + 1] < x) /\ edges[m + 1] \in Nat
        BY <1>1, <1>2, <3>1
    <3> QED
        BY <3>2
  <2>4. m # 0 => x > edges[m]
    <3> SUFFICES ASSUME m # 0 PROVE x > edges[m]
        OBVIOUS
    <3>1. m \in 1 .. n /\ m <= m
        BY <1>1, <1>2
    <3>2. edges[m] < x /\ edges[m] \in Nat
        BY <1>1, <1>2, <3>1
    <3> QED
        BY <3>2
  <2>5. m = 0
      BY <1>1, <1>5, <2>3, <2>4 DEF InBin
  <2> QED
      BY <2>2, <2>5 DEF m
<1> QED
    BY <1>4, <1>5

LEMMA EdgesAscend ==
    Ascend(AmountEdges, 7) /\ Ascend(AgeEdges, 4) /\ Ascend(DeviceEdges, 4)
<1>1. /\ AmountEdges \in [1 .. 7 -> Nat]
      /\ AmountEdges[1] = 1 /\ AmountEdges[2] = 10 /\ AmountEdges[3] = 50
      /\ AmountEdges[4] = 100 /\ AmountEdges[5] = 500 /\ AmountEdges[6] = 1000
      /\ AmountEdges[7] = 5000
    BY DEF AmountEdges
<1>2. /\ AgeEdges \in [1 .. 4 -> Nat]
      /\ AgeEdges[1] = 30 /\ AgeEdges[2] = 90 /\ AgeEdges[3] = 365 /\ AgeEdges[4] = 730
    BY DEF AgeEdges
<1>3. /\ DeviceEdges \in [1 .. 4 -> Nat]
      /\ DeviceEdges[1] = 7 /\ DeviceEdges[2] = 30 /\ DeviceEdges[3] = 90 /\ DeviceEdges[4] = 365
    BY DEF DeviceEdges
<1>4. \A k \in 1 .. 7 : k \in {1, 2, 3, 4, 5, 6, 7}
    OBVIOUS
<1>5. \A k \in 1 .. 4 : k \in {1, 2, 3, 4}
    OBVIOUS
<1>6. Ascend(AmountEdges, 7)
    BY <1>1, <1>4 DEF Ascend
<1>7. Ascend(AgeEdges, 4)
    BY <1>2, <1>5 DEF Ascend
<1>8. Ascend(DeviceEdges, 4)
    BY <1>3, <1>5 DEF Ascend
<1> QED
    BY <1>6, <1>7, <1>8

-----------------------------------------------------------------------------
\* The names of the features.

StaticNames == {"log_amount", "amount_credit_ratio", "is_international", "is_installment",
                "amount_bucket", "is_micro_txn", "is_high_value_txn", "customer_tenure_bucket",
                "card_age_bucket", "device_age_bucket"}

CategoricalNames == {"category_encoded"}

TemporalNames == {"hour_of_day", "minute_bucket", "day_of_week", "day_of_month", "is_weekend",
                  "is_night"}

GeographicNames == {"txn_country_mismatch", "geo_mismatch_count", "cross_border_flag"}

IdentityNames == {"is_new_device", "is_proxy", "is_tor", "is_datacenter", "proxy_risk_score"}

Velocities == EntityTypes \X Statistics

OwnNames == StaticNames \cup CategoricalNames \cup TemporalNames \cup GeographicNames
            \cup IdentityNames

LEMMA Domains ==
    ASSUME NEW t, NEW earlier, NEW c
    PROVE  /\ DOMAIN StaticFeatures(t) = StaticNames /\ DOMAIN OnlineStatic(t) = StaticNames
           /\ DOMAIN CategoricalFeatures(t) = CategoricalNames
           /\ DOMAIN OnlineCategorical(t) = CategoricalNames
           /\ DOMAIN TemporalFeatures(c) = TemporalNames /\ DOMAIN OnlineTemporal(t) = TemporalNames
           /\ DOMAIN GeographicFeatures(t) = GeographicNames
           /\ DOMAIN IdentityFeatures(t) = IdentityNames
           /\ DOMAIN OnlineIdentity(t) = IdentityNames
           /\ DOMAIN VelocityFeatures(t, earlier) = Velocities
<1>1. DOMAIN StaticFeatures(t) = StaticNames /\ DOMAIN OnlineStatic(t) = StaticNames
    BY DEF StaticFeatures, OnlineStatic, StaticNames
<1>2. /\ DOMAIN CategoricalFeatures(t) = CategoricalNames
      /\ DOMAIN OnlineCategorical(t) = CategoricalNames
    BY DEF CategoricalFeatures, OnlineCategorical, CategoricalNames
<1>3. DOMAIN TemporalFeatures(c) = TemporalNames /\ DOMAIN OnlineTemporal(t) = TemporalNames
    BY DEF TemporalFeatures, OnlineTemporal, TemporalNames
<1>4. DOMAIN GeographicFeatures(t) = GeographicNames
    BY DEF GeographicFeatures, GeographicNames
<1>5. DOMAIN IdentityFeatures(t) = IdentityNames /\ DOMAIN OnlineIdentity(t) = IdentityNames
    BY DEF IdentityFeatures, OnlineIdentity, IdentityNames
<1>6. DOMAIN VelocityFeatures(t, earlier) = Velocities
    BY DEF VelocityFeatures, Velocities
<1> QED
    BY <1>1, <1>2, <1>3, <1>4, <1>5, <1>6

\* No two groups share a name.
LEMMA Disjoint ==
    /\ StaticNames \cap CategoricalNames = {} /\ StaticNames \cap TemporalNames = {}
    /\ StaticNames \cap GeographicNames = {} /\ StaticNames \cap IdentityNames = {}
    /\ CategoricalNames \cap TemporalNames = {} /\ CategoricalNames \cap GeographicNames = {}
    /\ CategoricalNames \cap IdentityNames = {} /\ TemporalNames \cap GeographicNames = {}
    /\ TemporalNames \cap IdentityNames = {} /\ GeographicNames \cap IdentityNames = {}
BY DEF StaticNames, CategoricalNames, TemporalNames, GeographicNames, IdentityNames

\* The columns of tables that share no name.
Apart(tables, n) ==
    /\ n \in Nat /\ DOMAIN tables = 1 .. n
    /\ \A j, k \in 1 .. n : j # k => DOMAIN tables[j] \cap DOMAIN tables[k] = {}

LEMMA CombinedFacts ==
    ASSUME NEW tables, NEW n, Apart(tables, n)
    PROVE  /\ DOMAIN Combined(tables) = UNION {DOMAIN tables[k] : k \in 1 .. n}
           /\ \A k \in 1 .. n : \A f \in DOMAIN tables[k] : Combined(tables)[f] = tables[k][f]
<1> DEFINE Table(f) == CHOOSE j \in DOMAIN tables : f \in DOMAIN tables[j]
<1>0. DOMAIN tables = 1 .. n
      /\ \A j, k \in 1 .. n : j # k => DOMAIN tables[j] \cap DOMAIN tables[k] = {}
    BY DEF Apart
<1>1. Combined(tables) =
          [f \in UNION {DOMAIN tables[k] : k \in DOMAIN tables} |-> tables[Table(f)][f]]
    BY DEF Combined
<1>2. ASSUME NEW k \in 1 .. n, NEW f \in DOMAIN tables[k] PROVE Table(f) = k
    BY <1>0, <1>2
<1> HIDE DEF Table
<1>3. ASSUME NEW k \in 1 .. n, NEW f \in DOMAIN tables[k]
      PROVE  Combined(tables)[f] = tables[k][f]
  <2>1. f \in UNION {DOMAIN tables[j] : j \in DOMAIN tables}
      BY <1>0, <1>3
  <2> QED
      BY <1>1, <1>2, <1>3, <2>1
<1> QED
    BY <1>0, <1>1, <1>3

LEMMA TrainingFacts ==
    ASSUME NEW t, NEW earlier
    PROVE  /\ DOMAIN TrainingFeatures(t, earlier).own = OwnNames
           /\ TrainingFeatures(t, earlier).velocity = VelocityFeatures(t, earlier)
           /\ \A f \in StaticNames : TrainingFeatures(t, earlier).own[f] = StaticFeatures(t)[f]
           /\ \A f \in CategoricalNames : TrainingFeatures(t, earlier).own[f] = CategoricalFeatures(t)[f]
           /\ \A f \in TemporalNames : TrainingFeatures(t, earlier).own[f] = TemporalFeatures(t.clock)[f]
           /\ \A f \in GeographicNames : TrainingFeatures(t, earlier).own[f] = GeographicFeatures(t)[f]
           /\ \A f \in IdentityNames : TrainingFeatures(t, earlier).own[f] = IdentityFeatures(t)[f]
<1> DEFINE tables == <<StaticFeatures(t), CategoricalFeatures(t), TemporalFeatures(t.clock),
                       GeographicFeatures(t), IdentityFeatures(t)>>
<1>1. /\ DOMAIN tables = 1 .. 5
      /\ tables[1] = StaticFeatures(t) /\ tables[2] = CategoricalFeatures(t)
      /\ tables[3] = TemporalFeatures(t.clock) /\ tables[4] = GeographicFeatures(t)
      /\ tables[5] = IdentityFeatures(t)
    OBVIOUS
<1>2. TrainingFeatures(t, earlier).own = Combined(tables) /\ TrainingFeatures(t, earlier).velocity = VelocityFeatures(t, earlier)
    BY DEF TrainingFeatures
<1> HIDE DEF tables
<1>3. /\ DOMAIN tables[1] = StaticNames /\ DOMAIN tables[2] = CategoricalNames
      /\ DOMAIN tables[3] = TemporalNames /\ DOMAIN tables[4] = GeographicNames
      /\ DOMAIN tables[5] = IdentityNames
    BY <1>1, Domains
<1>4. \A k \in 1 .. 5 : k \in {1, 2, 3, 4, 5}
    OBVIOUS
<1>5. Apart(tables, 5)
    BY <1>1, <1>3, <1>4, Disjoint DEF Apart
<1>6. /\ DOMAIN Combined(tables) = UNION {DOMAIN tables[k] : k \in 1 .. 5}
      /\ \A k \in 1 .. 5 : \A f \in DOMAIN tables[k] : Combined(tables)[f] = tables[k][f]
    BY <1>5, CombinedFacts
<1>7. UNION {DOMAIN tables[k] : k \in 1 .. 5} = OwnNames
  <2>1. \A f : (\E k \in 1 .. 5 : f \in DOMAIN tables[k]) <=> f \in OwnNames
      BY <1>3, <1>4 DEF OwnNames
  <2> QED
      BY <2>1
<1>8. 1 \in 1 .. 5 /\ 2 \in 1 .. 5 /\ 3 \in 1 .. 5 /\ 4 \in 1 .. 5 /\ 5 \in 1 .. 5
    OBVIOUS
<1> QED
    BY <1>1, <1>2, <1>3, <1>6, <1>7, <1>8

LEMMA OnlineFacts ==
    ASSUME NEW t
    PROVE  /\ DOMAIN OnlineFeatures(t).own = OwnNames
           /\ OnlineFeatures(t).velocity = <<>>
           /\ \A f \in StaticNames : OnlineFeatures(t).own[f] = OnlineStatic(t)[f]
           /\ \A f \in CategoricalNames : OnlineFeatures(t).own[f] = OnlineCategorical(t)[f]
           /\ \A f \in TemporalNames : OnlineFeatures(t).own[f] = OnlineTemporal(t)[f]
           /\ \A f \in GeographicNames : OnlineFeatures(t).own[f] = GeographicFeatures(t)[f]
           /\ \A f \in IdentityNames : OnlineFeatures(t).own[f] = OnlineIdentity(t)[f]
<1> DEFINE tables == <<OnlineStatic(t), OnlineCategorical(t), OnlineTemporal(t),
                       GeographicFeatures(t), OnlineIdentity(t)>>
<1>1. /\ DOMAIN tables = 1 .. 5
      /\ tables[1] = OnlineStatic(t) /\ tables[2] = OnlineCategorical(t)
      /\ tables[3] = OnlineTemporal(t) /\ tables[4] = GeographicFeatures(t)
      /\ tables[5] = OnlineIdentity(t)
    OBVIOUS
<1>2. OnlineFeatures(t).own = Combined(tables)
      /\ OnlineFeatures(t).velocity = <<>>
    BY DEF OnlineFeatures
<1> HIDE DEF tables
<1>3. /\ DOMAIN tables[1] = StaticNames /\ DOMAIN tables[2] = CategoricalNames
      /\ DOMAIN tables[3] = TemporalNames /\ DOMAIN tables[4] = GeographicNames
      /\ DOMAIN tables[5] = IdentityNames
    BY <1>1, Domains
<1>4. \A k \in 1 .. 5 : k \in {1, 2, 3, 4, 5}
    OBVIOUS
<1>5. Apart(tables, 5)
    BY <1>1, <1>3, <1>4, Disjoint DEF Apart
<1>6. /\ DOMAIN Combined(tables) = UNION {DOMAIN tables[k] : k \in 1 .. 5}
      /\ \A k \in 1 .. 5 : \A f \in DOMAIN tables[k] : Combined(tables)[f] = tables[k][f]
    BY <1>5, CombinedFacts
<1>7. UNION {DOMAIN tables[k] : k \in 1 .. 5} = OwnNames
  <2>1. \A f : (\E k \in 1 .. 5 : f \in DOMAIN tables[k]) <=> f \in OwnNames
      BY <1>3, <1>4 DEF OwnNames
  <2> QED
      BY <2>1
<1>8. 1 \in 1 .. 5 /\ 2 \in 1 .. 5 /\ 3 \in 1 .. 5 /\ 4 \in 1 .. 5 /\ 5 \in 1 .. 5
    OBVIOUS
<1> QED
    BY <1>1, <1>2, <1>3, <1>6, <1>7, <1>8

\* Two rows with the same values have the same columns of their own.
LEMMA SameOwn ==
    ASSUME NEW t, NEW earlier,
           \A f \in OwnNames : OnlineFeatures(t).own[f] = TrainingFeatures(t, earlier).own[f]
    PROVE  [f \in OwnNames |-> OnlineFeatures(t).own[f]] = TrainingFeatures(t, earlier).own
<1>1. ASSUME NEW tables PROVE Combined(tables) = [f \in DOMAIN Combined(tables) |-> Combined(tables)[f]]
    BY DEF Combined
<1>2. \E tables : TrainingFeatures(t, earlier).own = Combined(tables)
    BY DEF TrainingFeatures
<1>3. DOMAIN TrainingFeatures(t, earlier).own = OwnNames
    BY TrainingFacts
<1> DEFINE own == TrainingFeatures(t, earlier).own
<1>4. own = [f \in OwnNames |-> own[f]]
  <2> HIDE DEF own
  <2>1. PICK tables : own = Combined(tables)
      BY <1>2 DEF own
  <2> QED
      BY <1>1, <1>3, <2>1 DEF own
<1> QED
    BY <1>4

\* The names of a set of definitions that differ in name, entity and window only.
Definitions(names, entities, windows, history, category) ==
    [name : names, entity : entities, window : windows, history : {history}, category : {category}]

Named(definitions, names, history) ==
    /\ \A d \in definitions : d.name \in names /\ d.history = history
    /\ \A x \in names : \E d \in definitions : d.name = x /\ d.history = history

LEMMA NamesOf ==
    ASSUME NEW names, NEW entities, NEW windows, NEW history \in BOOLEAN, NEW category,
           entities # {}, windows # {}
    PROVE  Named(Definitions(names, entities, windows, history, category), names, history)
<1> DEFINE definitions == Definitions(names, entities, windows, history, category)
<1>1. \A d \in definitions : d.name \in names /\ d.history = history
    BY DEF Definitions
<1>2. ASSUME NEW x \in names PROVE \E d \in definitions : d.name = x /\ d.history = history
  <2>1. PICK e \in entities, w \in windows : TRUE
      OBVIOUS
  <2> DEFINE d == [name |-> x, entity |-> e, window |-> w, history |-> history,
                   category |-> category]
  <2>2. d \in definitions /\ d.name = x
      BY DEF Definitions
  <2> QED
      BY <1>1, <2>2
<1> QED
    BY <1>1, <1>2 DEF Named

\* A name is one of those without history when a definition says so.
Plainly(x) == \E d \in Registry : d.history = FALSE /\ d.name = x

\* An entity has a definition of a name over its whole history.
Spanning(definitions, e, x) ==
    \E d \in definitions : d.history = TRUE /\ d.window = "none" /\ d.entity = e /\ d.name = x

LEMMA SpanningOf ==
    ASSUME NEW names, NEW entities, NEW windows, NEW category, NEW e, NEW x
    PROVE  Spanning(Definitions(names, entities, windows, TRUE, category), e, x)
               <=> "none" \in windows /\ e \in entities /\ x \in names
<1> DEFINE definitions == Definitions(names, entities, windows, TRUE, category)
<1>1. ASSUME NEW d \in definitions, d.window = "none", d.entity = e, d.name = x
      PROVE  "none" \in windows /\ e \in entities /\ x \in names
    BY <1>1 DEF Definitions
<1>2. ASSUME "none" \in windows, e \in entities, x \in names
      PROVE  Spanning(definitions, e, x)
  <2> DEFINE d == [name |-> x, entity |-> e, window |-> "none", history |-> TRUE,
                   category |-> category]
  <2>1. d \in definitions
      BY <1>2 DEF Definitions
  <2>2. d.history = TRUE /\ d.window = "none" /\ d.entity = e /\ d.name = x
      OBVIOUS
  <2> HIDE DEF definitions, d
  <2> QED
      BY <2>1, <2>2 DEF Spanning
<1> HIDE DEF definitions
<1> QED
    BY <1>1, <1>2 DEF Spanning, definitions

LEMMA SpanningNone ==
    ASSUME NEW definitions, NEW names, Named(definitions, names, FALSE), NEW e, NEW x
    PROVE  ~Spanning(definitions, e, x)
<1>1. \A d \in definitions : d.history = FALSE
    BY DEF Named
<1>2. \A d \in definitions : ~(d.history = TRUE)
    BY <1>1
<1> QED
    BY <1>2 DEF Spanning

\* The velocities that the registry defines.
Defined == (EntityTypes \X {"avg_amount", "std_amount", "total_txn_count"})
           \cup ({"customer", "card", "device", "ip"} \X {"time_since_prev"})
           \cup ({"customer", "card"} \X {"amount_zscore"})

\* The registry's features without history are the groups that a transaction
\* has by itself, and those over a history are some of the velocities.
LEMMA RegistryFacts ==
    WithoutHistory = OwnNames /\ WithHistory = Defined
<1> DEFINE none == {"none"}
           amount == {"log_amount", "amount_credit_ratio", "amount_bucket", "is_micro_txn",
                      "is_high_value_txn"}
           static == {"is_international", "is_installment"}
           identity == {"is_new_device", "device_age_bucket", "is_proxy", "is_tor",
                        "is_datacenter", "proxy_risk_score", "customer_tenure_bucket",
                        "card_age_bucket"}
           counts == {"txn_count", "amount_sum"}
           averages == {"avg_amount", "std_amount", "total_txn_count"}
           recent == {"customer", "card", "device", "ip"}
           D1 == Definitions(amount, none, none, FALSE, "amount")
           D2 == Definitions(static, none, none, FALSE, "static")
           D3 == Definitions(CategoricalNames, none, none, FALSE, "categorical")
           D4 == Definitions(TemporalNames, none, none, FALSE, "temporal")
           D5 == Definitions(GeographicNames, none, none, FALSE, "geographic")
           D6 == Definitions(identity, none, none, FALSE, "identity")
           H1 == Definitions(counts, EntityTypes, Windows, TRUE, "velocity")
           H2 == Definitions(averages, EntityTypes, none, TRUE, "entity")
           H3 == Definitions({"time_since_prev"}, recent, none, TRUE, "temporal")
           H4 == Definitions({"amount_zscore"}, {"customer", "card"}, none, TRUE, "amount")
<1>1. Registry = D1 \cup D2 \cup D3 \cup (H1 \cup H2) \cup (D4 \cup H3) \cup D5 \cup D6 \cup H4
  <2>1. StaticDefinitions = D1 \cup D2
      BY DEF StaticDefinitions, FeatureDefinition, Definitions
  <2>2. CategoricalDefinitions = D3
      BY DEF CategoricalDefinitions, FeatureDefinition, Definitions, CategoricalNames
  <2>3. EntityDefinitions = H1 \cup H2
      BY DEF EntityDefinitions, Definitions
  <2>4. TemporalDefinitions = D4 \cup H3
      BY DEF TemporalDefinitions, FeatureDefinition, Definitions, TemporalNames
  <2>5. GeographicDefinitions = D5
    <3>1. GeographicNames = {"txn_country_mismatch", "cross_border_flag", "geo_mismatch_count"}
        BY DEF GeographicNames
    <3> QED
        BY <3>1 DEF GeographicDefinitions, FeatureDefinition, Definitions
  <2>6. IdentityDefinitions = D6
      BY DEF IdentityDefinitions, FeatureDefinition, Definitions
  <2>7. AmountDefinitions = H4
      BY DEF AmountDefinitions, Definitions
  <2> HIDE DEF D1, D2, D3, D4, D5, D6, H1, H2, H3, H4
  <2> QED
      BY <2>1, <2>2, <2>3, <2>4, <2>5, <2>6, <2>7 DEF Registry
<1>2. none # {} /\ EntityTypes # {} /\ Windows # {} /\ recent # {} /\ {"customer", "card"} # {}
    BY DEF EntityTypes, Windows
<1>3. amount \cup static \cup identity \cup CategoricalNames \cup TemporalNames
            \cup GeographicNames = OwnNames
  <2>1. \A x : x \in StaticNames \cup IdentityNames <=> x \in amount \cup static \cup identity
      BY DEF StaticNames, IdentityNames
  <2> HIDE DEF amount, static, identity
  <2> QED
      BY <2>1 DEF OwnNames
<1>0. /\ "none" \in none /\ "none" \notin Windows /\ averages = {"avg_amount", "std_amount", "total_txn_count"}
      /\ recent = {"customer", "card", "device", "ip"}
    BY DEF Windows
<1> HIDE DEF none, amount, static, identity, counts, averages, recent
<1>4. Named(D1, amount, FALSE)
    BY <1>2, NamesOf
<1>5. Named(D2, static, FALSE)
    BY <1>2, NamesOf
<1>6. Named(D3, CategoricalNames, FALSE)
    BY <1>2, NamesOf
<1>7. Named(D4, TemporalNames, FALSE)
    BY <1>2, NamesOf
<1>8. Named(D5, GeographicNames, FALSE)
    BY <1>2, NamesOf
<1>9. Named(D6, identity, FALSE)
    BY <1>2, NamesOf
<1>10. Named(H1, counts, TRUE)
    BY <1>2, NamesOf
<1>11. Named(H2, averages, TRUE)
    BY <1>2, NamesOf
<1>12. Named(H3, {"time_since_prev"}, TRUE)
    BY <1>2, NamesOf
<1>13. Named(H4, {"amount_zscore"}, TRUE)
    BY <1>2, NamesOf
<1>14. ASSUME NEW e, NEW x
       PROVE  /\ ~Spanning(D1, e, x) /\ ~Spanning(D2, e, x) /\ ~Spanning(D3, e, x)
              /\ ~Spanning(D4, e, x) /\ ~Spanning(D5, e, x) /\ ~Spanning(D6, e, x)
              /\ ~Spanning(H1, e, x)
              /\ Spanning(H2, e, x) <=> e \in EntityTypes /\ x \in averages
              /\ Spanning(H3, e, x) <=> e \in recent /\ x = "time_since_prev"
              /\ Spanning(H4, e, x) <=> e \in {"customer", "card"} /\ x = "amount_zscore"
  <2>1. ~Spanning(D1, e, x) /\ ~Spanning(D2, e, x) /\ ~Spanning(D3, e, x)
    <3> HIDE DEF D1, D2, D3
    <3> QED
        BY <1>4, <1>5, <1>6, SpanningNone
  <2>2. ~Spanning(D4, e, x) /\ ~Spanning(D5, e, x) /\ ~Spanning(D6, e, x)
    <3> HIDE DEF D4, D5, D6
    <3> QED
        BY <1>7, <1>8, <1>9, SpanningNone
  <2>3. ~Spanning(H1, e, x)
      BY <1>0, SpanningOf
  <2>4. Spanning(H2, e, x) <=> e \in EntityTypes /\ x \in averages
    <3>1. Spanning(H2, e, x) <=> "none" \in none /\ e \in EntityTypes /\ x \in averages
        BY SpanningOf, Zenon
    <3> HIDE DEF H2
    <3> QED
        BY <1>0, <3>1
  <2>5. Spanning(H3, e, x) <=> e \in recent /\ x = "time_since_prev"
    <3>1. Spanning(H3, e, x) <=> "none" \in none /\ e \in recent /\ x \in {"time_since_prev"}
        BY SpanningOf, Zenon
    <3> HIDE DEF H3
    <3> QED
        BY <1>0, <3>1
  <2>6. Spanning(H4, e, x) <=> e \in {"customer", "card"} /\ x = "amount_zscore"
    <3>1. Spanning(H4, e, x)
              <=> "none" \in none /\ e \in {"customer", "card"} /\ x \in {"amount_zscore"}
        BY SpanningOf, Zenon
    <3> HIDE DEF H4
    <3> QED
        BY <1>0, <3>1
  <2> QED
      BY <2>1, <2>2, <2>3, <2>4, <2>5, <2>6
<1> HIDE DEF D1, D2, D3, D4, D5, D6, H1, H2, H3, H4
<1>15. \A x : x \in WithoutHistory <=> Plainly(x)
  <2>1. \A d \in Registry : d.history \in BOOLEAN
      BY <1>1, <1>4, <1>5, <1>6, <1>7, <1>8, <1>9, <1>10, <1>11, <1>12, <1>13 DEF Named
  <2>2. \A d \in Registry : ~d.history <=> d.history = FALSE
      BY <2>1, Zenon
  <2> QED
      BY <2>2, Zenon DEF WithoutHistory, Plainly
<1>16. \A x : Plainly(x) <=> x \in OwnNames
  <2>1. ASSUME NEW d \in Registry, d.history = FALSE PROVE d.name \in OwnNames
      BY <1>1, <1>3, <1>4, <1>5, <1>6, <1>7, <1>8, <1>9, <1>10, <1>11, <1>12, <1>13, <2>1
         DEF Named
  <2>2. ASSUME NEW x \in OwnNames PROVE Plainly(x)
      BY <1>1, <1>3, <1>4, <1>5, <1>6, <1>7, <1>8, <1>9, <2>2 DEF Named, Plainly
  <2> QED
      BY <2>1, <2>2 DEF Plainly
<1>17. ASSUME NEW e, NEW x PROVE Spanning(Registry, e, x) <=> <<e, x>> \in Defined
  <2>1. Spanning(Registry, e, x) <=> Spanning(H2, e, x) \/ Spanning(H3, e, x) \/ Spanning(H4, e, x)
    <3>1. \A d : d \in Registry <=> \/ d \in D1 \/ d \in D2 \/ d \in D3 \/ d \in D4 \/ d \in D5
                                      \/ d \in D6 \/ d \in H1 \/ d \in H2 \/ d \in H3 \/ d \in H4
        BY <1>1
    <3>2. ASSUME Spanning(Registry, e, x)
          PROVE  Spanning(H2, e, x) \/ Spanning(H3, e, x) \/ Spanning(H4, e, x)
      <4>1. PICK d \in Registry :
                d.history = TRUE /\ d.window = "none" /\ d.entity = e /\ d.name = x
          BY <3>2 DEF Spanning
      <4>2. \A D : d \in D => Spanning(D, e, x)
          BY <4>1 DEF Spanning
      <4> QED
          BY <1>14, <3>1, <4>2
    <3>3. ASSUME NEW D, \A d \in D : d \in Registry, Spanning(D, e, x)
          PROVE  Spanning(Registry, e, x)
        BY <3>3 DEF Spanning
    <3>4. /\ \A d \in H2 : d \in Registry
          /\ \A d \in H3 : d \in Registry
          /\ \A d \in H4 : d \in Registry
        BY <3>1
    <3> QED
        BY <3>2, <3>3, <3>4
  <2>2. <<e, x>> \in Defined <=> \/ e \in EntityTypes /\ x \in averages
                                 \/ e \in recent /\ x = "time_since_prev"
                                 \/ e \in {"customer", "card"} /\ x = "amount_zscore"
      BY <1>0 DEF Defined
  <2> QED
      BY <1>14, <2>1, <2>2
<1>18. WithHistory = Defined
  <2>1. \A d \in Registry : d.history \in BOOLEAN
      BY <1>1, <1>4, <1>5, <1>6, <1>7, <1>8, <1>9, <1>10, <1>11, <1>12, <1>13 DEF Named
  <2>2. \A d \in Registry : d.history <=> d.history = TRUE
      BY <2>1, Zenon
  <2>3. ASSUME NEW p \in WithHistory PROVE p \in Defined
    <3>1. PICK d \in Registry : d.history /\ d.window = "none" /\ p = <<d.entity, d.name>>
        BY <2>3, Zenon DEF WithHistory
    <3>2. d.history = TRUE
        BY <2>2, <3>1, Zenon
    <3>3. Spanning(Registry, d.entity, d.name)
        BY <3>1, <3>2 DEF Spanning
    <3> QED
        BY <1>17, <3>1, <3>3
  <2>4. ASSUME NEW p \in Defined PROVE p \in WithHistory
    <3>1. PICK e, x : p = <<e, x>>
        BY <2>4 DEF Defined
    <3>2. PICK d \in Registry :
              d.history = TRUE /\ d.window = "none" /\ d.entity = e /\ d.name = x
      <4>1. Spanning(Registry, e, x)
          BY <1>17, <2>4, <3>1
      <4> QED
          BY <4>1 DEF Spanning
    <3>3. d.history
        BY <3>2, Zenon
    <3>4. p = <<d.entity, d.name>>
        BY <3>1, <3>2
    <3> QED
        BY <3>2, <3>3, <3>4, Zenon DEF WithHistory
  <2> QED
      BY <2>3, <2>4
<1> QED
    BY <1>15, <1>16, <1>18

-----------------------------------------------------------------------------
\* Group by group.

\* The ratio of an amount that is not negative is not negative.
LEMMA RatioFacts ==
    ASSUME NEW a \in Nat, NEW l \in Nat, l # 0
    PROVE  Percent(a, l) \in Nat
<1>1. 100 * a \in Nat /\ l > 0
    OBVIOUS
<1>2. \A b \in Nat : b \div l \in Nat
    BY <1>1
<1> QED
    BY <1>1, <1>2 DEF Percent

LEMMA StaticAgrees ==
    ASSUME NEW t \in Transaction, t.amount >= 0, t.creditLimit >= 0, NEW f \in StaticNames
    PROVE  OnlineStatic(t)[f] = StaticFeatures(t)[f]
<1>1. /\ t.amount \in Int /\ t.creditLimit \in Int /\ t.tenure \in Int
      /\ t.cardAge \in Int /\ t.deviceAge \in Int
    BY DEF Transaction
<1>2. /\ Cut("-inf", AmountEdges, t.amount) = SearchSorted(AmountEdges, t.amount)
      /\ Cut("-1", AgeEdges, t.tenure) = SearchSorted(AgeEdges, t.tenure)
      /\ Cut("-1", AgeEdges, t.cardAge) = SearchSorted(AgeEdges, t.cardAge)
      /\ Cut("-1", DeviceEdges, t.deviceAge) = SearchSorted(DeviceEdges, t.deviceAge)
    BY <1>1, BucketsAgree, EdgesAscend
<1> DEFINE limit == IF t.creditLimit = 0 THEN 1 ELSE t.creditLimit
           ratio == Percent(t.amount, limit)
<1>3. ratio \in Nat
  <2>1. t.amount \in Nat /\ limit \in Nat /\ limit # 0
      BY <1>1
  <2> HIDE DEF limit
  <2> QED
      BY <2>1, RatioFacts
<1>4. ~(t.creditLimit < 0)
    BY <1>1
<1> HIDE DEF ratio
<1>5. OnlineStatic(t).amount_credit_ratio = IF ratio > 10000 THEN 10000 ELSE ratio
    BY <1>4 DEF OnlineStatic, ratio
<1>6. StaticFeatures(t).amount_credit_ratio =
          IF ratio < 0 THEN 0 ELSE IF ratio > 10000 THEN 10000 ELSE ratio
    BY <1>4 DEF StaticFeatures, ratio
<1>7. OnlineStatic(t).amount_credit_ratio = StaticFeatures(t).amount_credit_ratio
    BY <1>3, <1>5, <1>6
<1>8. /\ OnlineStatic(t).log_amount = StaticFeatures(t).log_amount
      /\ OnlineStatic(t).is_international = StaticFeatures(t).is_international
      /\ OnlineStatic(t).is_installment = StaticFeatures(t).is_installment
      /\ OnlineStatic(t).is_micro_txn = StaticFeatures(t).is_micro_txn
      /\ OnlineStatic(t).is_high_value_txn = StaticFeatures(t).is_high_value_txn
    BY DEF OnlineStatic, StaticFeatures
<1>9. /\ OnlineStatic(t).amount_bucket = StaticFeatures(t).amount_bucket
      /\ OnlineStatic(t).customer_tenure_bucket = StaticFeatures(t).customer_tenure_bucket
      /\ OnlineStatic(t).card_age_bucket = StaticFeatures(t).card_age_bucket
      /\ OnlineStatic(t).device_age_bucket = StaticFeatures(t).device_age_bucket
    BY <1>2 DEF OnlineStatic, StaticFeatures
<1> QED
    BY <1>7, <1>8, <1>9 DEF StaticNames

LEMMA TemporalAgrees ==
    ASSUME NEW t \in Transaction, t.format # "other", NEW f \in TemporalNames
    PROVE  OnlineTemporal(t)[f] = TemporalFeatures(t.clock)[f]
<1>1. t.clock.hour \in 0 .. 23
    BY DEF Transaction, Clock
<1>2. t.clock.hour >= 22 \/ t.clock.hour < 7 <=> t.clock.hour \in 0 .. 6 \cup {22, 23}
    BY <1>1
<1> DEFINE c == t.clock
<1>3. OnlineTemporal(t) =
          [hour_of_day   |-> c.hour,
           minute_bucket |-> c.hour * 4 + c.minute \div 15,
           day_of_week   |-> c.weekday,
           day_of_month  |-> c.day,
           is_weekend    |-> Flag(c.weekday \in {5, 6}),
           is_night      |-> Flag(c.hour >= 22 \/ c.hour < 7)]
    BY DEF OnlineTemporal
<1>4. Flag(c.hour >= 22 \/ c.hour < 7) = Flag(c.hour \in 0 .. 6 \cup {22, 23})
    BY <1>2 DEF Flag
<1> QED
    BY <1>3, <1>4 DEF TemporalFeatures

LEMMA IdentityAgrees ==
    ASSUME NEW t, NEW f \in IdentityNames
    PROVE  OnlineIdentity(t)[f] = IdentityFeatures(t)[f]
<1>1. /\ OnlineIdentity(t).is_new_device = IdentityFeatures(t).is_new_device
      /\ OnlineIdentity(t).is_proxy = IdentityFeatures(t).is_proxy
      /\ OnlineIdentity(t).is_tor = IdentityFeatures(t).is_tor
      /\ OnlineIdentity(t).is_datacenter = IdentityFeatures(t).is_datacenter
    BY DEF OnlineIdentity, IdentityFeatures
<1>2. OnlineIdentity(t).proxy_risk_score = IdentityFeatures(t).proxy_risk_score
    BY DEF OnlineIdentity, IdentityFeatures, Flag
<1> QED
    BY <1>1, <1>2 DEF IdentityNames

LEMMA CategoricalAgrees ==
    ASSUME freqs # Unfitted, NEW t, NEW f \in CategoricalNames
    PROVE  OnlineCategorical(t)[f] = CategoricalFeatures(t)[f]
BY DEF OnlineCategorical, CategoricalFeatures, CategoricalNames

(***************************************************************************)
(* generate_online_features and _generate_features_single agree on every   *)
(* feature that a transaction has by itself.                               *)
(***************************************************************************)
LEMMA FeaturesAgree ==
    ASSUME NEW t \in Transaction, NEW earlier, t.amount >= 0, t.creditLimit >= 0,
           t.format # "other", freqs # Unfitted, NEW f \in OwnNames
    PROVE  OnlineFeatures(t).own[f] = TrainingFeatures(t, earlier).own[f]
<1>1. CASE f \in StaticNames
    BY <1>1, StaticAgrees, OnlineFacts, TrainingFacts
<1>2. CASE f \in CategoricalNames
    BY <1>2, CategoricalAgrees, OnlineFacts, TrainingFacts
<1>3. CASE f \in TemporalNames
    BY <1>3, TemporalAgrees, OnlineFacts, TrainingFacts
<1>4. CASE f \in GeographicNames
    BY <1>4, OnlineFacts, TrainingFacts
<1>5. CASE f \in IdentityNames
    BY <1>5, IdentityAgrees, OnlineFacts, TrainingFacts
<1> QED
    BY <1>1, <1>2, <1>3, <1>4, <1>5 DEF OwnNames

-----------------------------------------------------------------------------
\* The invariant.

LEMMA RowsInductive == Spec => []RowsInv
<1>1. Init => RowsInv
    BY DEF Init, RowsInv
<1>2. ASSUME UNCHANGED <<raw, prior, freqs>>
      PROVE  /\ TrainingFeatures(raw, prior)' = TrainingFeatures(raw, prior)
             /\ Align(OnlineFeatures(raw), TrainingFeatures(raw, prior))'
                    = Align(OnlineFeatures(raw), TrainingFeatures(raw, prior))
  <2>1. TrainingFeatures(raw, prior)' = TrainingFeatures(raw, prior)
      BY <1>2 DEF TrainingFeatures, CategoricalFeatures
  <2>2. OnlineFeatures(raw)' = OnlineFeatures(raw)
      BY <1>2 DEF OnlineFeatures, OnlineCategorical
  <2> QED
      BY <2>1, <2>2 DEF Align, Filled
<1>3. ASSUME RowsInv, Train PROVE RowsInv'
  <2>1. /\ UNCHANGED <<raw, prior, freqs, served>>
        /\ trained' = {TrainingFeatures(raw, prior)}
      BY <1>3 DEF Train
  <2> QED
      BY <1>2, <1>3, <2>1 DEF RowsInv
<1>4. ASSUME RowsInv, Serve PROVE RowsInv'
  <2>1. /\ UNCHANGED <<raw, prior, freqs, trained>>
        /\ served' = {Align(OnlineFeatures(raw), TrainingFeatures(raw, prior))}
      BY <1>4 DEF Serve
  <2> QED
      BY <1>2, <1>4, <2>1 DEF RowsInv
<1>5. ASSUME RowsInv, UNCHANGED vars PROVE RowsInv'
    BY <1>2, <1>5 DEF RowsInv, vars
<1>6. RowsInv /\ [Next]_vars => RowsInv'
    BY <1>3, <1>4, <1>5 DEF Next
<1> QED
    BY <1>1, <1>6, PTL DEF Spec

\* The rows that are compared, by column.
LEMMA RowFacts ==
    ASSUME RowsInv
    PROVE  /\ \A row \in trained : /\ row = TrainingFeatures(raw, prior)
                                   /\ DOMAIN row.own = OwnNames /\ DOMAIN row.velocity = Velocities
           /\ \A x \in served :
                  /\ x.own = [f \in OwnNames |-> OnlineFeatures(raw).own[f]]
                  /\ x.velocity = [c \in Velocities |-> 0]
<1> DEFINE model == TrainingFeatures(raw, prior)
<1>1. /\ \A row \in trained : row = model
      /\ \A x \in served : x = Align(OnlineFeatures(raw), model)
    BY DEF RowsInv
<1>2. DOMAIN model.own = OwnNames /\ DOMAIN model.velocity = Velocities
    BY TrainingFacts, Domains
<1>3. DOMAIN OnlineFeatures(raw).own = OwnNames /\ DOMAIN OnlineFeatures(raw).velocity = {}
  <2>1. DOMAIN <<>> = {}
      OBVIOUS
  <2> QED
      BY <2>1, OnlineFacts
<1> HIDE DEF model
<1>4. /\ Align(OnlineFeatures(raw), model).own = Filled(OnlineFeatures(raw).own, DOMAIN model.own)
      /\ Align(OnlineFeatures(raw), model).velocity =
             Filled(OnlineFeatures(raw).velocity, DOMAIN model.velocity)
    BY DEF Align
<1>5. Filled(OnlineFeatures(raw).own, OwnNames) = [f \in OwnNames |-> OnlineFeatures(raw).own[f]]
    BY <1>3 DEF Filled
<1>6. Filled(OnlineFeatures(raw).velocity, Velocities) = [c \in Velocities |-> 0]
    BY <1>3 DEF Filled
<1> QED
    BY <1>1, <1>2, <1>4, <1>5, <1>6 DEF model

(***************************************************************************)
(* The model is given, for each feature of one transaction alone, what it  *)
(* would have been trained with; these features are those that the         *)
(* registry has without history, and all that it has over the history of   *)
(* an entity are columns of the model.                                     *)
(***************************************************************************)
THEOREM SameFeatures == Spec => []Parity
<1>1. RowsInv => Parity
  <2> SUFFICES ASSUME RowsInv, NEW row \in trained
               PROVE  /\ DOMAIN row.own = WithoutHistory
                      /\ WithHistory \subseteq DOMAIN row.velocity
                      /\ Regular => \A x \in served : x.own = row.own
      BY DEF Parity
  <2>1. /\ row = TrainingFeatures(raw, prior)
        /\ DOMAIN row.own = OwnNames /\ DOMAIN row.velocity = Velocities
      BY RowFacts
  <2>2. Defined \subseteq Velocities
      BY DEF Defined, Velocities, EntityTypes, Statistics
  <2>3. ASSUME Regular, NEW x \in served PROVE x.own = row.own
    <3>1. x.own = [f \in OwnNames |-> OnlineFeatures(raw).own[f]] /\ raw \in Transaction
        BY RowFacts, FeaturesAssumption DEF RowsInv
    <3>2. \A f \in OwnNames : OnlineFeatures(raw).own[f] = TrainingFeatures(raw, prior).own[f]
        BY <2>3, <3>1, FeaturesAgree DEF Regular
    <3>3. [f \in OwnNames |-> OnlineFeatures(raw).own[f]] = TrainingFeatures(raw, prior).own
        BY <3>2, SameOwn
    <3> QED
        BY <2>1, <3>1, <3>3
  <2> QED
      BY <2>1, <2>2, <2>3, RegistryFacts
<1> QED
    BY RowsInductive, <1>1, PTL

(***************************************************************************)
(* "Every production feature has a formal definition"                      *)
(* (features/definitions.py:4): six columns of each trained row, and no    *)
(* others, have none.  The generator gives each of the six entities all    *)
(* statistics; the registry has the time since the earlier transaction of  *)
(* four and the z-score of two.                                            *)
(***************************************************************************)
THEOREM SixUndefined ==
    Spec => [](\A row \in trained : DOMAIN row.velocity \ WithHistory =
                  ({"merchant", "account"} \X {"time_since_prev"})
                  \cup ({"device", "ip", "merchant", "account"} \X {"amount_zscore"}))
<1> DEFINE six == ({"merchant", "account"} \X {"time_since_prev"})
                  \cup ({"device", "ip", "merchant", "account"} \X {"amount_zscore"})
<1>1. Velocities \ Defined = six
  <2>1. ASSUME NEW e, NEW x
        PROVE  <<e, x>> \in Velocities /\ <<e, x>> \notin Defined <=> <<e, x>> \in six
      BY DEF Velocities, Defined, EntityTypes, Statistics
  <2>2. \A p \in Velocities : \E e, x : p = <<e, x>>
      BY DEF Velocities
  <2>3. \A p \in six : \E e, x : p = <<e, x>>
      OBVIOUS
  <2> HIDE DEF six
  <2> QED
      BY <2>1, <2>2, <2>3
<1>2. RowsInv => \A row \in trained : DOMAIN row.velocity \ WithHistory = six
  <2> HIDE DEF six
  <2> QED
      BY <1>1, RowFacts, RegistryFacts
<1> QED
    BY RowsInductive, <1>2, PTL

(***************************************************************************)
(* What stands in the way of NoSkew: whatever the history of an entity,    *)
(* the model is given zero for all its velocities; and the time since the  *)
(* earlier transaction is never that of the row it would be trained with   *)
(* when the entity has none, whatever the transaction.                     *)
(***************************************************************************)
THEOREM VelocitiesAreZero ==
    Spec => [](\A x \in served :
                   /\ \A c \in DOMAIN x.velocity : x.velocity[c] = 0
                   /\ \A row \in trained : \A e \in EntityTypes : prior[e] = <<>> =>
                          x.velocity[<<e, "time_since_prev">>] # row.velocity[<<e, "time_since_prev">>])
<1>1. RowsInv =>
          \A x \in served :
              /\ \A c \in DOMAIN x.velocity : x.velocity[c] = 0
              /\ \A row \in trained : \A e \in EntityTypes : prior[e] = <<>> =>
                     x.velocity[<<e, "time_since_prev">>] # row.velocity[<<e, "time_since_prev">>]
  <2> SUFFICES ASSUME RowsInv, NEW x \in served
               PROVE  /\ \A c \in DOMAIN x.velocity : x.velocity[c] = 0
                      /\ \A row \in trained : \A e \in EntityTypes : prior[e] = <<>> =>
                             x.velocity[<<e, "time_since_prev">>]
                                 # row.velocity[<<e, "time_since_prev">>]
      OBVIOUS
  <2>1. x.velocity = [c \in Velocities |-> 0]
      BY RowFacts
  <2>2. ASSUME NEW row \in trained, NEW e \in EntityTypes, prior[e] = <<>>
        PROVE  row.velocity[<<e, "time_since_prev">>] = -1
    <3> DEFINE c == <<e, "time_since_prev">>
    <3>1. row.velocity = VelocityFeatures(raw, prior)
        BY RowFacts, TrainingFacts
    <3>2. c \in EntityTypes \X Statistics /\ c[1] = e /\ c[2] = "time_since_prev"
        BY DEF Statistics
    <3> HIDE DEF c
    <3>3. VelocityFeatures(raw, prior)[c] = -1
        BY <2>2, <3>2 DEF VelocityFeatures
    <3> QED
        BY <3>1, <3>3 DEF c
  <2>3. \A e \in EntityTypes : <<e, "time_since_prev">> \in Velocities
      BY DEF Velocities, Statistics
  <2> QED
      BY <2>1, <2>2, <2>3
<1> QED
    BY RowsInductive, <1>1, PTL
=============================================================================
