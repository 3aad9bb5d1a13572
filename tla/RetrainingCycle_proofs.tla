----------------------- MODULE RetrainingCycle_proofs -----------------------
(***************************************************************************)
(* Proofs about RetrainingCycle: the search ends with the first optimum,   *)
(* of the model and the method that were to be chosen, for any samples and *)
(* any grid; what a drift report says of the features it compared, for any *)
(* readings and thresholds; and what an approved candidate has shown, for  *)
(* any samples, thresholds and configuration of the gates.                 *)
(***************************************************************************)
EXTENDS RetrainingCycle, FiniteSetTheorems, WellFoundedInduction, TLAPS

-----------------------------------------------------------------------------
\* Sums.

\* A set of natural numbers that is not empty has a least one.
LEMMA LeastNat ==
    ASSUME NEW T, T \subseteq Nat, T # {}
    PROVE  \E n \in T : \A m \in T : n <= m
<1> DEFINE R == OpToRel(<, Nat)
<1>1. IsWellFoundedOn(R, Nat)
    BY NatLessThanWellFounded
<1>2. \A x, y \in Nat : <<x, y>> \in R <=> x < y
    BY DEF OpToRel
<1> HIDE DEF R
<1>3. PICK n \in T : \A m \in T : ~(<<m, n>> \in R)
    BY <1>1, WFMin
<1>4. ASSUME NEW m \in T PROVE n <= m
  <2>1. ~(<<m, n>> \in R) /\ m \in Nat /\ n \in Nat
      BY <1>3
  <2>2. ~(m < n)
      BY <1>2, <2>1
  <2> QED
      BY <2>1, <2>2
<1> QED
    BY <1>4

\* The element that MapThenSumSet takes from a set first.
Pick(s) == CHOOSE x \in s : TRUE


LEMMA PickFacts ==
    ASSUME NEW S, IsFiniteSet(S), NEW s \in SUBSET S
    PROVE  /\ IsFiniteSet(s) /\ Cardinality(s) \in Nat /\ Cardinality(s) <= Cardinality(S)
           /\ s = {} <=> Cardinality(s) = 0
           /\ s # {} => /\ Pick(s) \in s /\ s \ {Pick(s)} \in SUBSET S
                        /\ Cardinality(s \ {Pick(s)}) = Cardinality(s) - 1
<1>1. IsFiniteSet(s) /\ Cardinality(s) \in Nat /\ Cardinality(s) <= Cardinality(S)
    BY FS_Subset, FS_CardinalityType
<1>2. s = {} <=> Cardinality(s) = 0
    BY <1>1, FS_EmptySet
<1>3. ASSUME s # {} PROVE Pick(s) \in s
    BY <1>3 DEF Pick
<1>4. ASSUME s # {} PROVE Cardinality(s \ {Pick(s)}) = Cardinality(s) - 1
    BY <1>1, <1>3, <1>4, FS_RemoveElement
<1> QED
    BY <1>1, <1>2, <1>3, <1>4

\* A function that sums v over each subset of S, as the recursion does.
IsSum(F, S, v) ==
    /\ F = [s \in SUBSET S |-> F[s]]
    /\ \A s \in SUBSET S : F[s] = IF s = {} THEN 0 ELSE v[Pick(s)] + F[s \ {Pick(s)}]

\* The equation of the sum has a solution.
LEMMA SumExists ==
    ASSUME NEW S, IsFiniteSet(S), NEW v, \A x \in S : v[x] \in Int
    PROVE  \E F : IsSum(F, S, v)
<1> DEFINE Rest(s) == s \ {Pick(s)}
           Solves(F, n) == \A s \in SUBSET S : Cardinality(s) <= n =>
                              F[s] = IF s = {} THEN 0 ELSE v[Pick(s)] + F[Rest(s)]
           Bad == {n \in Nat : ~\E F : Solves(F, n)}
<1>1. \A s \in SUBSET S :
          /\ Cardinality(s) \in Nat /\ Cardinality(s) <= Cardinality(S)
          /\ s = {} <=> Cardinality(s) = 0
          /\ s # {} => Rest(s) \in SUBSET S /\ Cardinality(Rest(s)) = Cardinality(s) - 1
    BY PickFacts
<1> HIDE DEF Rest
<1>2. Bad = {}
  <2> SUFFICES ASSUME Bad # {} PROVE FALSE
      OBVIOUS
  <2>1. PICK b \in Bad : \A m \in Bad : b <= m
      BY LeastNat
  <2>2. b \in Nat
      OBVIOUS
  <2>3. CASE b = 0
    <3> DEFINE G == [s \in SUBSET S |-> 0]
    <3>1. \A s \in SUBSET S : Cardinality(s) <= b => s = {} /\ G[s] = 0
        BY <1>1, <2>3
    <3> HIDE DEF G
    <3>2. Solves(G, b)
        BY <3>1
    <3> QED
        BY <3>2
  <2>4. CASE b # 0
    <3>1. b - 1 \in Nat /\ b - 1 \notin Bad
      <4>1. b - 1 \in Nat /\ ~(b <= b - 1)
          BY <2>2, <2>4
      <4> QED
          BY <4>1, <2>1
    <3>2. PICK F : Solves(F, b - 1)
        BY <3>1
    <3> DEFINE G == [s \in SUBSET S |-> IF Cardinality(s) < b THEN F[s]
                                        ELSE v[Pick(s)] + F[Rest(s)]]
    <3>3. \A s \in SUBSET S : G[s] = IF Cardinality(s) < b THEN F[s]
                                     ELSE v[Pick(s)] + F[Rest(s)]
        OBVIOUS
    <3> HIDE DEF G
    <3>4. ASSUME NEW s \in SUBSET S, Cardinality(s) <= b
          PROVE  G[s] = IF s = {} THEN 0 ELSE v[Pick(s)] + G[Rest(s)]
      <4>1. Cardinality(s) \in Nat
          BY <1>1
      <4>2. CASE s = {}
          BY <4>2, <1>1, <2>2, <2>4, <3>2, <3>3
      <4>3. CASE s # {}
        <5>1. Rest(s) \in SUBSET S /\ Cardinality(Rest(s)) = Cardinality(s) - 1
            BY <4>3, <1>1
        <5>2. Cardinality(Rest(s)) < b
            BY <4>1, <5>1, <3>4, <2>2
        <5>3. G[Rest(s)] = F[Rest(s)]
            BY <5>1, <5>2, <3>3
        <5>4. CASE Cardinality(s) < b
          <6>1. Cardinality(s) <= b - 1
              BY <5>4, <4>1, <2>2
          <6>2. F[s] = v[Pick(s)] + F[Rest(s)]
              BY <6>1, <3>2, <4>3
          <6> QED
              BY <6>2, <5>3, <5>4, <3>3, <4>3
        <5>5. CASE ~(Cardinality(s) < b)
            BY <5>3, <5>5, <3>3, <4>3
        <5> QED
            BY <5>4, <5>5
      <4> QED
          BY <4>2, <4>3
    <3>5. Solves(G, b)
        BY <3>4
    <3> QED
        BY <3>5
  <2> QED
      BY <2>3, <2>4
<1>3. Cardinality(S) \in Nat
    BY FS_CardinalityType
<1>4. PICK F : Solves(F, Cardinality(S))
    BY <1>2, <1>3
<1> DEFINE G == [s \in SUBSET S |-> F[s]]
<1>5. G = [s \in SUBSET S |-> G[s]] /\ \A s \in SUBSET S : G[s] = F[s]
    OBVIOUS
<1> HIDE DEF G
<1>6. ASSUME NEW s \in SUBSET S
      PROVE  G[s] = IF s = {} THEN 0 ELSE v[Pick(s)] + G[s \ {Pick(s)}]
  <2>1. CASE s = {}
      BY <2>1, <1>1, <1>4, <1>5
  <2>2. CASE s # {}
    <3>1. Rest(s) \in SUBSET S /\ G[Rest(s)] = F[Rest(s)]
        BY <2>2, <1>1, <1>5
    <3>2. G[s] = v[Pick(s)] + F[Rest(s)]
        BY <2>2, <1>1, <1>4, <1>5
    <3> QED
        BY <2>2, <3>1, <3>2 DEF Rest
  <2> QED
      BY <2>1, <2>2
<1> QED
    BY <1>5, <1>6 DEF IsSum

\* Such a function is an integer on each set.
LEMMA SumType ==
    ASSUME NEW S, IsFiniteSet(S), NEW v, \A x \in S : v[x] \in Int,
           NEW F, IsSum(F, S, v)
    PROVE  F[S] \in Int
<1> DEFINE Bad == {s \in SUBSET S : F[s] \notin Int}
<1>1. \A s \in SUBSET S : F[s] = IF s = {} THEN 0 ELSE v[Pick(s)] + F[s \ {Pick(s)}]
    BY DEF IsSum
<1>2. Bad = {}
  <2> SUFFICES ASSUME Bad # {} PROVE FALSE
      OBVIOUS
  <2> DEFINE Sizes == {Cardinality(s) : s \in Bad}
  <2>1. Sizes \subseteq Nat /\ Sizes # {}
    <3>1. \A s \in SUBSET S : Cardinality(s) \in Nat
        BY PickFacts
    <3> QED
        BY <3>1
  <2>2. PICK n \in Sizes : \A m \in Sizes : n <= m
      BY <2>1, LeastNat
  <2>3. PICK s \in Bad : n = Cardinality(s)
      BY <2>2
  <2>4. s # {}
    <3>1. s \in SUBSET S /\ F[s] \notin Int
        OBVIOUS
    <3>2. s = {} => F[s] = 0
        BY <3>1, <1>1
    <3> QED
        BY <3>1, <3>2
  <2>5. /\ Pick(s) \in S /\ s \ {Pick(s)} \in SUBSET S
        /\ Cardinality(s \ {Pick(s)}) = n - 1 /\ n \in Nat
      BY <2>3, <2>4, PickFacts
  <2>6. s \ {Pick(s)} \notin Bad
    <3>1. ~(n <= n - 1)
        BY <2>5
    <3> QED
        BY <2>2, <2>5, <3>1
  <2>7. F[s \ {Pick(s)}] \in Int /\ v[Pick(s)] \in Int
      BY <2>5, <2>6
  <2>8. F[s] = v[Pick(s)] + F[s \ {Pick(s)}]
      BY <1>1, <2>4
  <2> QED
      BY <2>7, <2>8
<1> QED
    BY <1>2

\* What amounts sum up to.
Total(v, S) == MapThenSumSet(LAMBDA i : v[i], S)

LEMMA TotalType ==
    ASSUME NEW S, IsFiniteSet(S), NEW v, \A x \in S : v[x] \in Int
    PROVE  Total(v, S) \in Int
<1> DEFINE Eq(F) == F = [s \in SUBSET S |-> IF s = {} THEN 0
                                           ELSE v[Pick(s)] + F[s \ {Pick(s)}]]
           sum == CHOOSE F : Eq(F)
<1>1. Total(v, S) = sum[S]
    BY DEF Total, MapThenSumSet, MapThenFoldSet, Pick
<1>2. PICK F : IsSum(F, S, v)
    BY SumExists
<1>3. Eq(F)
    BY <1>2 DEF IsSum
<1>4. Eq(sum)
  <2> HIDE DEF Eq
  <2> QED
      BY <1>3
<1>5. IsSum(sum, S, v)
  <2> HIDE DEF sum
  <2> QED
      BY <1>4 DEF IsSum
<1> HIDE DEF sum
<1> QED
    BY <1>1, <1>5, SumType

\* The Brier score of probabilities is an integer.
LEMMA BrierType ==
    ASSUME NEW fraud, NEW prob \in [Rows -> 0 .. Scale]
    PROVE  Brier(fraud, prob) \in Int
<1> DEFINE Term(i) == IF i \in fraud THEN (Scale - prob[i]) * (Scale - prob[i])
                                     ELSE prob[i] * prob[i]
           Eq(F) == F = [s \in SUBSET Rows |-> IF s = {} THEN 0
                                              ELSE Term(Pick(s)) + F[s \ {Pick(s)}]]
           sum == CHOOSE F : Eq(F)
           v == [i \in Rows |-> Term(i)]
<1>1. Brier(fraud, prob) = sum[Rows]
    BY DEF Brier, MapThenSumSet, MapThenFoldSet, Pick
<1>2. \A i \in Rows : Term(i) \in Int
  <2> SUFFICES ASSUME NEW i \in Rows PROVE Term(i) \in Int
      OBVIOUS
  <2>1. prob[i] \in Int /\ Scale \in Int
      BY CostAssumption
  <2>2. \A x, y \in Int : x * x \in Int /\ (y - x) * (y - x) \in Int
      OBVIOUS
  <2> QED
      BY <2>1, <2>2
<1> HIDE DEF Term
<1>3. (\A i \in Rows : v[i] = Term(i) /\ v[i] \in Int) /\ IsFiniteSet(Rows)
    BY <1>2, CostAssumption
<1>4. \A s \in SUBSET Rows : s # {} => Pick(s) \in Rows
    BY DEF Pick
<1> HIDE DEF v
<1>5. PICK F : IsSum(F, Rows, v)
    BY <1>3, SumExists
<1>6. Eq(F)
    BY <1>3, <1>4, <1>5 DEF IsSum
<1>7. Eq(sum)
  <2> HIDE DEF Eq
  <2> QED
      BY <1>6
<1>8. IsSum(sum, Rows, v)
  <2> HIDE DEF sum
  <2> QED
      BY <1>3, <1>4, <1>7 DEF IsSum
<1> HIDE DEF sum
<1> QED
    BY <1>1, <1>3, <1>8, SumType

\* What a set of rows costs is an integer.
LEMMA LossType ==
    ASSUME NEW amounts \in [Rows -> Int] \cup {NoAmounts}, NEW rows \in SUBSET Rows
    PROVE  LossOf(amounts, rows) \in Int
<1>1. IsFiniteSet(rows) /\ Cardinality(rows) \in Int /\ AvgFraudLoss \in Int
  <2>1. IsFiniteSet(rows) /\ AvgFraudLoss \in Nat
      BY CostAssumption, FS_Subset
  <2> QED
      BY <2>1, FS_CardinalityType
<1>2. CASE amounts = NoAmounts
    BY <1>1, <1>2 DEF LossOf
<1>3. CASE amounts # NoAmounts
  <2>1. \A i \in rows : amounts[i] \in Int
      BY <1>3
  <2>2. Total(amounts, rows) \in Int
      BY <1>1, <2>1, TotalType
  <2> QED
      BY <1>3, <2>2 DEF LossOf, Total
<1> QED
    BY <1>2, <1>3

LEMMA CountType ==
    ASSUME NEW rows \in SUBSET Rows
    PROVE  Cardinality(rows) \in Int
<1>1. IsFiniteSet(rows)
    BY CostAssumption, FS_Subset
<1> QED
    BY <1>1, FS_CardinalityType

LEMMA CostType ==
    ASSUME NEW fraud, NEW amounts \in [Rows -> Int] \cup {NoAmounts}, NEW prob, NEW at, NEW bt
    PROVE  CostAnalysis(fraud, amounts, prob, at, bt).benefit \in Int
<1> DEFINE approve  == {i \in Rows : prob[i] < at}
           review   == {i \in Rows : prob[i] >= at /\ prob[i] < bt}
           block    == {i \in Rows : prob[i] >= bt}
           declines == Cardinality(block \ fraud)
           reviews  == Cardinality(review)
           lost     == LossOf(amounts, approve \cap fraud)
           saved    == LossOf(amounts, (block \cup review) \cap fraud)
<1>1. /\ approve \cap fraud \in SUBSET Rows /\ (block \cup review) \cap fraud \in SUBSET Rows
      /\ block \ fraud \in SUBSET Rows /\ review \in SUBSET Rows
    OBVIOUS
<1>2. CostAnalysis(fraud, amounts, prob, at, bt).benefit =
          saved - (lost + declines * FalsePositiveCost + reviews * ManualReviewCost)
    BY DEF CostAnalysis
<1> HIDE DEF approve, review, block
<1>3. lost \in Int /\ saved \in Int
    BY <1>1, LossType
<1>4. declines \in Int /\ reviews \in Int
    BY <1>1, CountType
<1>5. FalsePositiveCost \in Int /\ ManualReviewCost \in Int
    BY CostAssumption
<1> HIDE DEF declines, reviews, lost, saved
<1>6. declines * FalsePositiveCost \in Int /\ reviews * ManualReviewCost \in Int
    BY <1>4, <1>5
<1> QED
    BY <1>2, <1>3, <1>6

-----------------------------------------------------------------------------
\* The grid.

\* Every number up to Pairs is that of a pair of the grid.
LEMMA GridPair ==
    ASSUME NEW n \in 1 .. Pairs
    PROVE  /\ Pair(n) = [at |-> Pair(n).at, bt |-> Pair(n).bt]
           /\ Pair(n).at \in Int /\ Pair(n).bt \in Int
<1> DEFINE rows == Len(ApproveGrid)
           columns == Len(BlockGrid)
           q == (n - 1) \div columns
           r == (n - 1) % columns
<1>1. rows \in Nat \ {0} /\ columns \in Nat \ {0} /\ Pairs = rows * columns
    BY SelectionAssumption DEF Pairs
<1>2. /\ \A k \in 1 .. rows : ApproveGrid[k] \in Int
      /\ \A k \in 1 .. columns : BlockGrid[k] \in Int
    BY SelectionAssumption
<1>3. Pair(n) = [at |-> ApproveGrid[q + 1], bt |-> BlockGrid[r + 1]]
    BY DEF Pair
<1> HIDE DEF rows, columns
<1>4. n - 1 \in Int /\ 0 <= n - 1 /\ n - 1 < rows * columns
    BY <1>1
<1>5. q \in Int /\ r \in 0 .. columns - 1 /\ n - 1 = columns * q + r
    BY <1>1, <1>4
<1> HIDE DEF q, r
<1>6. q >= 0
  <2> SUFFICES ASSUME q <= -1 PROVE FALSE
      BY <1>5
  <2>1. columns * q <= columns * (-1)
      BY <1>1, <1>5
  <2> QED
      BY <1>1, <1>4, <1>5, <2>1
<1>7. q < rows
  <2> SUFFICES ASSUME q >= rows PROVE FALSE
      BY <1>1, <1>5
  <2>1. columns * q >= columns * rows
      BY <1>1, <1>5
  <2>2. columns * rows = rows * columns
      BY <1>1
  <2> QED
      BY <1>1, <1>4, <1>5, <2>1, <2>2
<1>8. q + 1 \in 1 .. rows /\ r + 1 \in 1 .. columns
    BY <1>1, <1>5, <1>6, <1>7
<1> QED
    BY <1>2, <1>3, <1>8

-----------------------------------------------------------------------------
\* The gates.

LEMMA GatesPass ==
    ASSUME NEW m, NEW c, FailedGates(m, c) = {}
    PROVE  /\ ~(m.prAuc < MinPrAuc)
           /\ AtLeast(m.tp, m.tp + m.fn, MinRecall)
           /\ "calibration" \in c.required => c.calibrated
           /\ "drift" \in c.required => ~c.drift
           /\ "leakage" \in c.required => ~c.leakage
<1>1. ~(m.prAuc < MinPrAuc)
    BY DEF FailedGates
<1>2. AtLeast(m.tp, m.tp + m.fn, MinRecall)
    BY DEF FailedGates
<1>3. "calibration" \in c.required => c.calibrated
    BY DEF FailedGates
<1>4. "drift" \in c.required => ~c.drift
    BY DEF FailedGates
<1>5. "leakage" \in c.required => ~c.leakage
    BY DEF FailedGates
<1> QED
    BY <1>1, <1>2, <1>3, <1>4, <1>5

\* No fraud caught is no recall, of however many frauds.
LEMMA NoRecall ==
    ASSUME NEW missed \in Nat, NEW percent \in Nat \ {0}
    PROVE  ~AtLeast(0, 0 + missed, percent)
<1>1. CASE missed = 0
    BY <1>1 DEF AtLeast
<1>2. CASE missed # 0
  <2>1. percent * missed > 0
      BY <1>2
  <2> QED
      BY <1>2, <2>1 DEF AtLeast
<1> QED
    BY <1>1, <1>2

\* The metrics of a candidate that passes the gates for PR-AUC and recall.
LEMMA Caught ==
    ASSUME NEW c,
           [fraud |-> c.fraud, amounts |-> c.amounts, prob |-> c.prob,
            prAuc |-> c.prAuc] \in Candidates,
           ~(MetricsOf(c).prAuc < MinPrAuc),
           AtLeast(MetricsOf(c).tp, MetricsOf(c).tp + MetricsOf(c).fn, MinRecall)
    PROVE  /\ c.fraud \notin {{}, Rows}
           /\ \E i \in c.fraud : 2 * c.prob[i] >= Scale
<1> DEFINE flagged == {i \in Rows : 2 * c.prob[i] >= Scale}
<1>1. c.fraud \subseteq Rows /\ MinPrAuc \in Nat \ {0} /\ MinRecall \in Nat \ {0}
    BY GatesAssumption
<1>2. /\ MetricsOf(c).prAuc = IF c.fraud = {} \/ c.fraud = Rows THEN 0 ELSE c.prAuc
      /\ MetricsOf(c).tp = Cardinality(flagged \cap c.fraud)
      /\ MetricsOf(c).fn = Cardinality(c.fraud \ flagged)
    BY DEF MetricsOf, FraudMetrics
<1>3. c.fraud \notin {{}, Rows}
    BY <1>1, <1>2
<1>4. IsFiniteSet(c.fraud \ flagged)
    BY <1>1, CostAssumption, FS_Subset
<1>5. Cardinality(c.fraud \ flagged) \in Nat
    BY <1>4, FS_CardinalityType
<1>6. flagged \cap c.fraud # {}
  <2> SUFFICES ASSUME flagged \cap c.fraud = {} PROVE FALSE
      OBVIOUS
  <2>1. Cardinality(flagged \cap c.fraud) = 0
      BY FS_EmptySet
  <2> DEFINE missed == Cardinality(c.fraud \ flagged)
  <2>2. missed \in Nat /\ AtLeast(0, 0 + missed, MinRecall)
      BY <1>2, <1>5, <2>1
  <2> HIDE DEF missed
  <2> QED
      BY <1>1, <2>2, NoRecall
<1> QED
    BY <1>3, <1>6

\* The severity of a value says which of the thresholds it has reached.
LEMMA SeverityFacts ==
    ASSUME NEW value \in Nat, NEW warning \in Nat, NEW critical \in Nat, warning <= critical
    PROVE  /\ Severity(value, warning, critical) = "critical" <=> value >= critical
           /\ Severity(value, warning, critical) = "none" <=> ~(value >= warning)
           /\ Severity(value, warning, critical) \in Severities
<1>1. CASE value >= critical
    BY <1>1 DEF Severity, Severities
<1>2. CASE ~(value >= critical) /\ value >= warning
    BY <1>2 DEF Severity, Severities
<1>3. CASE ~(value >= warning)
    BY <1>3 DEF Severity, Severities
<1> QED
    BY <1>1, <1>2, <1>3

\* A severity is among the results when some feature that was compared has it.
LEMMA ResultsFacts ==
    ASSUME NEW level
    PROVE  level \in Results <=>
               \E f \in Features :
                  /\ readings[f] # Skipped
                  /\ \/ level = Severity(readings[f].psi, PsiWarning, PsiCritical)
                     \/ level = Severity(readings[f].ks, KsWarning, KsCritical)
BY DEF Results

\* The report is of the statistics that were computed, and of no other.
LEMMA ReportFacts ==
    ASSUME readings \in Readings
    PROVE  /\ Overall = "critical" <=> Reached(PsiCritical, KsCritical)
           /\ Overall = "none" <=> ~Reached(PsiWarning, KsWarning)
<1>1. /\ PsiWarning \in Nat /\ PsiCritical \in Nat /\ PsiWarning <= PsiCritical
      /\ KsWarning \in Nat /\ KsCritical \in Nat /\ KsWarning <= KsCritical
    BY GatesAssumption
<1>2. \A f \in Features : readings[f] # Skipped => readings[f].psi \in Nat /\ readings[f].ks \in Nat
  <2>1. readings \in [Features -> Reading]
      BY GatesAssumption
  <2> QED
      BY <2>1 DEF Reading
<1> DEFINE P(f) == Severity(readings[f].psi, PsiWarning, PsiCritical)
           K(f) == Severity(readings[f].ks, KsWarning, KsCritical)
<1>3. ASSUME NEW f \in Features, readings[f] # Skipped
      PROVE  /\ P(f) = "critical" <=> readings[f].psi >= PsiCritical
             /\ P(f) = "none" <=> ~(readings[f].psi >= PsiWarning)
             /\ K(f) = "critical" <=> readings[f].ks >= KsCritical
             /\ K(f) = "none" <=> ~(readings[f].ks >= KsWarning)
             /\ P(f) \in Severities /\ K(f) \in Severities
  <2>1. readings[f].psi \in Nat /\ readings[f].ks \in Nat
      BY <1>2, <1>3
  <2>2. /\ P(f) = "critical" <=> readings[f].psi >= PsiCritical
        /\ P(f) = "none" <=> ~(readings[f].psi >= PsiWarning)
        /\ P(f) \in Severities
      BY <1>1, <2>1, SeverityFacts
  <2>3. /\ K(f) = "critical" <=> readings[f].ks >= KsCritical
        /\ K(f) = "none" <=> ~(readings[f].ks >= KsWarning)
        /\ K(f) \in Severities
      BY <1>1, <2>1, SeverityFacts
  <2> QED
      BY <2>2, <2>3
<1>4. ASSUME NEW level
      PROVE  level \in Results <=>
                 \E f \in Features : readings[f] # Skipped /\ (level = P(f) \/ level = K(f))
    BY ResultsFacts
<1> HIDE DEF P, K
<1>5. "critical" \in Results <=> Reached(PsiCritical, KsCritical)
    BY <1>3, <1>4 DEF Reached
<1>6. "critical" \in Results \/ "warning" \in Results <=> Reached(PsiWarning, KsWarning)
  <2>1. ASSUME NEW f \in Features, readings[f] # Skipped
        PROVE  (readings[f].psi >= PsiWarning \/ readings[f].ks >= KsWarning)
                  <=> {P(f), K(f)} # {"none"}
      BY <1>3, <2>1
  <2>2. ASSUME NEW f \in Features, readings[f] # Skipped
        PROVE  {P(f), K(f)} # {"none"}
                  <=> \/ P(f) = "critical" \/ K(f) = "critical"
                      \/ P(f) = "warning" \/ K(f) = "warning"
      BY <1>3, <2>2 DEF Severities
  <2> QED
      BY <1>4, <2>1, <2>2 DEF Reached
<1>7. /\ Overall = "critical" <=> "critical" \in Results
      /\ Overall = "none" <=> "critical" \notin Results /\ "warning" \notin Results
    BY DEF Overall
<1> QED
    BY <1>5, <1>6, <1>7

-----------------------------------------------------------------------------
\* The steps.

LEMMA InitInv == Init => IInv
<1> SUFFICES ASSUME Init PROVE IInv
    OBVIOUS
<1>1. /\ call = "none" /\ readings = [f \in Features |-> Skipped]
      /\ report = "none" /\ retrain = FALSE
      /\ baseline = NoPerformance /\ current = NoPerformance
      /\ candidate = NoCandidate /\ failedGates = {}
    BY DEF Init, GatesInit
<1>2. NoPerformance \in Performance
    BY DEF NoPerformance, Performance
<1>3. readings \in [Features -> Reading]
  <2>1. Skipped \in Reading
      BY DEF Reading
  <2> QED
      BY <1>1, <2>1
<1>4. GatesTypeOK
    BY <1>1, <1>2, <1>3 DEF GatesTypeOK, Severities
<1> QED
    BY <1>1, <1>4 DEF IInv, ReportInv, EvaluatedInv

LEMMA DriftStep ==
    ASSUME IInv, FullDriftCheck
    PROVE  IInv'
<1>1. /\ call' = "drift" /\ readings' \in Readings /\ report' = Overall'
      /\ UNCHANGED <<baseline, current, retrain, candidate, failedGates>>
    BY DEF FullDriftCheck
<1>2. report' \in Severities
    BY <1>1 DEF Overall, Severities
<1>3. readings' \in [Features -> Reading]
    BY <1>1, GatesAssumption
<1>4. GatesTypeOK'
    BY <1>1, <1>2, <1>3 DEF IInv, GatesTypeOK
<1> QED
    BY <1>1, <1>4 DEF IInv, ReportInv, EvaluatedInv

LEMMA ConsultStep ==
    ASSUME IInv, Consult
    PROVE  IInv'
<1>1. call' = "retrain" /\ UNCHANGED <<readings, report, candidate, failedGates>>
    BY DEF Consult
<1>2. PICK from, to \in Performances, drift \in BOOLEAN :
          /\ baseline' = from /\ current' = to
          /\ retrain' = ShouldRetrain(from, to, drift)
    BY DEF Consult
<1>3. {baseline', current'} \subseteq Performance
    BY <1>2, GatesAssumption
<1>4. retrain' \in BOOLEAN
    BY <1>2 DEF ShouldRetrain
<1>5. GatesTypeOK'
    BY <1>1, <1>3, <1>4 DEF IInv, GatesTypeOK
<1> QED
    BY <1>1, <1>5 DEF IInv, ReportInv, EvaluatedInv

LEMMA EvaluateStep ==
    ASSUME IInv, Evaluate
    PROVE  IInv'
<1>1. /\ call' = "evaluate" /\ UNCHANGED <<readings, report, baseline, current, retrain>>
      /\ failedGates' = FailedGates(MetricsOf(candidate'), candidate')
    BY DEF Evaluate
<1>2. PICK c \in Candidates, required \in SUBSET Optional,
           calibrated, drift, leakage \in BOOLEAN :
          candidate' = [required |-> required, calibrated |-> calibrated, drift |-> drift,
                        leakage |-> leakage, fraud |-> c.fraud, amounts |-> c.amounts,
                        prob |-> c.prob, prAuc |-> c.prAuc]
    BY DEF Evaluate
<1>3. [fraud |-> candidate'.fraud, amounts |-> candidate'.amounts,
       prob |-> candidate'.prob, prAuc |-> candidate'.prAuc] \in Candidates
  <2>1. c = [fraud |-> c.fraud, amounts |-> c.amounts, prob |-> c.prob, prAuc |-> c.prAuc]
      BY GatesAssumption
  <2>2. /\ candidate'.fraud = c.fraud /\ candidate'.amounts = c.amounts
        /\ candidate'.prob = c.prob /\ candidate'.prAuc = c.prAuc
      BY <1>2
  <2> QED
      BY <2>1, <2>2
<1>4. /\ candidate'.required \subseteq Optional
      /\ {candidate'.calibrated, candidate'.drift, candidate'.leakage} \subseteq BOOLEAN
    BY <1>2
<1>5. failedGates' \subseteq Gates
  <2>1. failedGates' \subseteq {"pr_auc", "recall", "fpr", "brier", "cost"} \cup candidate'.required
      BY <1>1 DEF FailedGates
  <2> QED
      BY <1>4, <2>1 DEF Gates, Optional
<1>6. GatesTypeOK'
    BY <1>1, <1>3, <1>5 DEF IInv, GatesTypeOK
<1>7. EvaluatedInv'
  <2>1. (FailedGates(MetricsOf(candidate), candidate))' = FailedGates(MetricsOf(candidate'), candidate')
      BY DEF FailedGates, MetricsOf
  <2> QED
      BY <1>1, <1>3, <1>4, <2>1 DEF EvaluatedInv
<1> QED
    BY <1>1, <1>6, <1>7 DEF IInv, ReportInv

LEMMA GatesStay ==
    ASSUME IInv, UNCHANGED gatesVars
    PROVE  IInv'
<1>1. UNCHANGED <<call, readings, report, baseline, current, retrain, candidate, failedGates>>
    BY DEF gatesVars
<1>2. GatesTypeOK'
    BY <1>1 DEF IInv, GatesTypeOK
<1>3. ReportInv'
    BY <1>1 DEF IInv, ReportInv, Overall, Results
<1>4. EvaluatedInv'
    BY <1>1 DEF IInv, EvaluatedInv
<1> QED
    BY <1>2, <1>3, <1>4 DEF IInv

(***************************************************************************)
(* Each answer is about what its operation was asked, whatever the caller  *)
(* hands in: in every state.                                               *)
(***************************************************************************)
THEOREM Inductive == Spec => []IInv
<1>1. IInv /\ [Next]_vars => IInv'
    BY DriftStep, ConsultStep, EvaluateStep, GatesStay DEF Next, GatesNext, vars
<1> QED
    BY InitInv, <1>1, PTL DEF Spec

(***************************************************************************)
(* full_drift_check hides no feature that it compared: the overall         *)
(* severity is critical when a statistic of some feature reached its       *)
(* critical threshold, and none when no statistic reached that of a        *)
(* warning, for any features, readings and thresholds.                     *)
(***************************************************************************)
THEOREM DriftReported == Spec => []DriftIsReported
<1>1. IInv => DriftIsReported
    BY ReportFacts DEF IInv, ReportInv, DriftIsReported
<1> QED
    BY Inductive, <1>1, PTL

(***************************************************************************)
(* A candidate that ModelPromotionValidator approves was evaluated on rows *)
(* of both classes, caught some fraud, and meets each of the requirements  *)
(* that are switched on, whatever the configuration and the sample.        *)
(***************************************************************************)
THEOREM Guarded == Spec => []GuardedPromotion
<1>1. IInv => GuardedPromotion
  <2> SUFFICES ASSUME IInv, Approved
               PROVE  /\ candidate.fraud \notin {{}, Rows}
                      /\ \E i \in candidate.fraud : 2 * candidate.prob[i] >= Scale
                      /\ "calibration" \in candidate.required => candidate.calibrated
                      /\ "drift" \in candidate.required => ~candidate.drift
                      /\ "leakage" \in candidate.required => ~candidate.leakage
      BY DEF GuardedPromotion
  <2>1. /\ [fraud |-> candidate.fraud, amounts |-> candidate.amounts,
            prob |-> candidate.prob, prAuc |-> candidate.prAuc] \in Candidates
        /\ FailedGates(MetricsOf(candidate), candidate) = {}
      BY DEF IInv, EvaluatedInv, Approved
  <2> DEFINE m == MetricsOf(candidate)
  <2>2. FailedGates(m, candidate) = {}
      BY <2>1
  <2> HIDE DEF m
  <2>3. /\ ~(m.prAuc < MinPrAuc) /\ AtLeast(m.tp, m.tp + m.fn, MinRecall)
        /\ "calibration" \in candidate.required => candidate.calibrated
        /\ "drift" \in candidate.required => ~candidate.drift
        /\ "leakage" \in candidate.required => ~candidate.leakage
      BY <2>2, GatesPass
  <2>4. /\ candidate.fraud \notin {{}, Rows}
        /\ \E i \in candidate.fraud : 2 * candidate.prob[i] >= Scale
      BY <2>1, <2>3, Caught DEF m
  <2> QED
      BY <2>3, <2>4
<1> QED
    BY Inductive, <1>1, PTL

-----------------------------------------------------------------------------
\* The selection of a model.

LEMMA ExperimentFacts ==
    /\ DOMAIN Experiments = 1 .. 4 /\ Len(Experiments) = 4
    /\ Experiments[1] = "lr_basic" /\ Experiments[2] = "xgb_basic"
    /\ Experiments[3] = "xgb_eng" /\ Experiments[4] = "lgb_eng"
BY DEF Experiments

LEMMA PlaceFacts ==
    /\ Place("lr_basic") = 1 /\ Place("xgb_basic") = 2
    /\ Place("xgb_eng") = 3 /\ Place("lgb_eng") = 4
BY ExperimentFacts DEF Place

\* Of the experiments with a result there is a first one of the best, which is
\* the one that max gives.
LEMMA SelectedFacts ==
    ASSUME ResultsTypeOK, "lr_basic" \in DOMAIN results
    PROVE  /\ Selected \in DOMAIN results
           /\ \A e \in DOMAIN results : results[e] <= results[Selected]
<1> DEFINE Beats(e, f) == \/ results[e] > results[f]
                          \/ results[e] = results[f] /\ Place(e) <= Place(f)
<1>1. \A e \in DOMAIN results : results[e] \in Nat /\ Place(e) \in 1 .. 4
  <2> SUFFICES ASSUME NEW e \in DOMAIN results PROVE results[e] \in Nat /\ Place(e) \in 1 .. 4
      OBVIOUS
  <2>1. results[e] \in PrAucs /\ e \in {"lr_basic", "xgb_basic", "xgb_eng", "lgb_eng"}
      BY DEF ResultsTypeOK
  <2>2. results[e] \in Nat
      BY <2>1, SelectionAssumption
  <2>3. Place(e) \in 1 .. 4
      BY <2>1, PlaceFacts
  <2> QED
      BY <2>2, <2>3
<1>2. \E e \in DOMAIN results : \A f \in DOMAIN results : Beats(e, f)
  <2> DEFINE Better(e, f) == IF f \in DOMAIN results /\ ~Beats(e, f) THEN f ELSE e
             first  == "lr_basic"
             second == Better(first, "xgb_basic")
             third  == Better(second, "xgb_eng")
             fourth == Better(third, "lgb_eng")
  <2>1. \A e, f \in DOMAIN results : Beats(e, f) \/ Beats(f, e)
      BY <1>1
  <2>2. \A e, f, g \in DOMAIN results : Beats(e, f) /\ Beats(f, g) => Beats(e, g)
    <3> SUFFICES ASSUME NEW e \in DOMAIN results, NEW f \in DOMAIN results,
                        NEW g \in DOMAIN results, Beats(e, f), Beats(f, g)
                 PROVE  Beats(e, g)
        OBVIOUS
    <3>1. /\ results[e] \in Nat /\ results[f] \in Nat /\ results[g] \in Nat
          /\ Place(e) \in Nat /\ Place(f) \in Nat /\ Place(g) \in Nat
        BY <1>1
    <3> QED
        BY <3>1
  <2> HIDE DEF Beats
  <2>3. \A e, f : e \in DOMAIN results =>
            /\ Better(e, f) \in DOMAIN results
            /\ Beats(Better(e, f), e)
            /\ f \in DOMAIN results => Beats(Better(e, f), f)
      BY <2>1
  <2> HIDE DEF Better
  <2>4. /\ first \in DOMAIN results /\ second \in DOMAIN results
        /\ third \in DOMAIN results /\ fourth \in DOMAIN results
      BY <2>3
  <2>5. Beats(fourth, third) /\ Beats(third, second) /\ Beats(second, first)
      BY <2>3, <2>4
  <2>6. /\ "xgb_basic" \in DOMAIN results => Beats(second, "xgb_basic")
        /\ "xgb_eng" \in DOMAIN results => Beats(third, "xgb_eng")
        /\ "lgb_eng" \in DOMAIN results => Beats(fourth, "lgb_eng")
      BY <2>3, <2>4
  <2> HIDE DEF second, third, fourth
  <2>7. Beats(fourth, second) /\ Beats(fourth, first)
      BY <2>2, <2>4, <2>5
  <2>8. ASSUME NEW f \in DOMAIN results PROVE Beats(fourth, f)
    <3>1. f \in {"lr_basic", "xgb_basic", "xgb_eng", "lgb_eng"}
        BY DEF ResultsTypeOK
    <3> QED
        BY <2>2, <2>4, <2>5, <2>6, <2>7, <3>1
  <2> QED
      BY <2>4, <2>8
<1>3. Selected \in DOMAIN results /\ \A f \in DOMAIN results : Beats(Selected, f)
  <2>1. Selected = CHOOSE e \in DOMAIN results : \A f \in DOMAIN results : Beats(e, f)
      BY DEF Selected
  <2> HIDE DEF Beats
  <2> QED
      BY <1>2, <2>1
<1> QED
    BY <1>1, <1>3

\* The benefit of a pair of thresholds is an integer.
LEMMA BenefitType ==
    ASSUME SelectionTypeOK, NEW pair
    PROVE  Benefit(pair) \in Int
<1>1. sample.amounts \in [Rows -> Int] \cup {NoAmounts}
    BY SelectionAssumption DEF SelectionTypeOK
<1> QED
    BY <1>1, CostType DEF Benefit

LEMMA SelectionInitInv == Init => SelectionInv
<1> SUFFICES ASSUME Init PROVE SelectionInv
    OBVIOUS
<1>1. /\ step = "experiment" /\ results = <<>> /\ best = "none"
      /\ sample = [fraud |-> {}, amounts |-> NoAmounts]
      /\ calibrator = [platt |-> Unfitted, isotonic |-> Unfitted, active |-> "platt"]
      /\ search = [next |-> 1, found |-> FALSE, at |-> 0, bt |-> 0, benefit |-> 0]
    BY DEF Init, SelectionInit
<1>2. DOMAIN results = {}
    BY <1>1
<1>3. SelectionTypeOK
    BY <1>1, <1>2, ExperimentFacts DEF SelectionTypeOK, ResultsTypeOK, SearchTypeOK, Steps
<1> QED
    BY <1>1, <1>3, ExperimentFacts
    DEF SelectionInv, ExperimentInv, SelectInv, FitInv, SearchInv

LEMMA ExperimentStep ==
    ASSUME SelectionInv, Experiment
    PROVE  SelectionInv'
<1>1. /\ step = "experiment" /\ search.next \in 1 .. 4 /\ ~search.found
      /\ UNCHANGED <<best, sample, calibrator>>
      /\ search.next > 1 => "lr_basic" \in DOMAIN results
    BY ExperimentFacts DEF Experiment, SelectionInv, ExperimentInv, SelectInv
<1>2. SelectionTypeOK
    BY DEF SelectionInv
<1>3. /\ Turn \in {"lr_basic", "xgb_basic", "xgb_eng", "lgb_eng"}
      /\ Turn = "lr_basic" <=> search.next = 1
  <2>1. search.next \in {1, 2, 3, 4}
      BY <1>1
  <2> QED
      BY <2>1, ExperimentFacts DEF Turn
<1>4. ResultsTypeOK' /\ "lr_basic" \in DOMAIN results'
  <2>1. CASE UNCHANGED results /\ Turn # "lr_basic"
    <3>1. "lr_basic" \in DOMAIN results
        BY <1>1, <1>3, <2>1
    <3> QED
        BY <1>1, <1>2, <2>1, <3>1 DEF SelectionTypeOK, ResultsTypeOK
  <2>2. ASSUME NEW a \in PrAucs,
               results' = [e \in DOMAIN results \cup {Turn} |-> IF e = Turn THEN a ELSE results[e]]
        PROVE  ResultsTypeOK' /\ "lr_basic" \in DOMAIN results'
    <3>1. /\ DOMAIN results' = DOMAIN results \cup {Turn}
          /\ \A e \in DOMAIN results' : results'[e] = IF e = Turn THEN a ELSE results[e]
        BY <2>2
    <3>2. "lr_basic" \in DOMAIN results'
        BY <1>1, <1>3, <3>1
    <3>3. ResultsTypeOK'
        BY <1>1, <1>2, <1>3, <3>1 DEF SelectionTypeOK, ResultsTypeOK
    <3> QED
        BY <3>2, <3>3
  <2> QED
      BY <2>1, <2>2 DEF Experiment
<1>5. /\ search \in [next : (1 .. Pairs + 1) \cup (1 .. 4), found : BOOLEAN,
                     at : Int, bt : Int, benefit : Int]
      /\ 1 \in 1 .. Pairs + 1
  <2>1. Pairs \in Nat
      BY SelectionAssumption DEF Pairs
  <2> QED
      BY <1>2, <2>1, ExperimentFacts DEF SelectionTypeOK, SearchTypeOK
<1>6. CASE search.next < 4
  <2>1. search' = [search EXCEPT !.next = search.next + 1] /\ step' = step
      BY <1>6, ExperimentFacts DEF Experiment
  <2>2. /\ search'.next = search.next + 1 /\ search'.found = search.found
        /\ search' \in [next : (1 .. Pairs + 1) \cup (1 .. 4), found : BOOLEAN,
                        at : Int, bt : Int, benefit : Int]
      BY <1>1, <1>5, <1>6, <2>1
  <2>3. SelectionTypeOK'
      BY <1>1, <1>2, <1>4, <2>1, <2>2, ExperimentFacts DEF SelectionTypeOK, SearchTypeOK
  <2> QED
      BY <1>1, <1>4, <1>6, <2>1, <2>2, <2>3, ExperimentFacts
      DEF SelectionInv, ExperimentInv, SelectInv, FitInv, SearchInv
<1>7. CASE ~(search.next < 4)
  <2>1. search' = [search EXCEPT !.next = 1] /\ step' = "select"
      BY <1>7, ExperimentFacts DEF Experiment
  <2>2. /\ search'.next = 1 /\ search'.found = search.found
        /\ search' \in [next : (1 .. Pairs + 1) \cup (1 .. 4), found : BOOLEAN,
                        at : Int, bt : Int, benefit : Int]
      BY <1>5, <2>1
  <2>3. SelectionTypeOK'
      BY <1>1, <1>2, <1>4, <1>5, <2>1, <2>2, ExperimentFacts
      DEF SelectionTypeOK, SearchTypeOK, Steps
  <2> QED
      BY <1>1, <1>4, <2>1, <2>2, <2>3
      DEF SelectionInv, ExperimentInv, SelectInv, FitInv, SearchInv
<1> QED
    BY <1>6, <1>7

LEMMA SelectStep ==
    ASSUME SelectionInv, Select
    PROVE  SelectionInv'
<1>1. /\ step = "select" /\ step' = "platt" /\ best' = Selected
      /\ UNCHANGED <<results, calibrator, search>>
    BY DEF Select
<1>2. PICK fraud \in Frauds, amounts \in Amounts : sample' = [fraud |-> fraud, amounts |-> amounts]
    BY DEF Select
<1>3. SelectionTypeOK /\ ResultsTypeOK /\ "lr_basic" \in DOMAIN results
      /\ ~search.found /\ search.next = 1
    BY <1>1 DEF SelectionInv, SelectionTypeOK, ExperimentInv, SelectInv
<1>4. best' \in DOMAIN results /\ \A e \in DOMAIN results : results[e] <= results[best']
    BY <1>1, <1>3, SelectedFacts
<1>5. BestModel' /\ ResultsTypeOK'
    BY <1>1, <1>3, <1>4 DEF BestModel, ResultsTypeOK
<1>6. sample' \in [fraud : Frauds \cup {{}}, amounts : Amounts \cup {NoAmounts}]
    BY <1>2
<1>7. SelectionTypeOK'
    BY <1>1, <1>3, <1>5, <1>6 DEF SelectionTypeOK, SearchTypeOK, Steps
<1> QED
    BY <1>1, <1>3, <1>5, <1>7
    DEF SelectionInv, ExperimentInv, SelectInv, FitInv, SearchInv

LEMMA FitStep ==
    ASSUME SelectionInv, NEW m \in {"platt", "isotonic"}, Fit(m)
    PROVE  SelectionInv'
<1>1. /\ step = m /\ step' = IF m = "platt" THEN "isotonic" ELSE "pick"
      /\ UNCHANGED <<results, best, sample, search>>
    BY DEF Fit
<1>2. PICK prob \in Calibrated : calibrator' = [calibrator EXCEPT ![m] = prob]
    BY DEF Fit
<1>3. /\ SelectionTypeOK /\ "lr_basic" \in DOMAIN results /\ BestModel
      /\ ~search.found /\ search.next = 1
      /\ m = "isotonic" => calibrator.platt \in Calibrated
    BY <1>1 DEF SelectionInv, ExperimentInv, SelectInv, FitInv
<1>4. /\ calibrator' \in [platt : Calibrated \cup {Unfitted}, isotonic : Calibrated \cup {Unfitted},
                          active : {"platt", "isotonic"}]
      /\ m = "platt" => calibrator'.platt \in Calibrated
      /\ m = "isotonic" => calibrator'.isotonic \in Calibrated /\ calibrator'.platt = calibrator.platt
  <2>1. calibrator \in [platt : Calibrated \cup {Unfitted}, isotonic : Calibrated \cup {Unfitted},
                        active : {"platt", "isotonic"}]
      BY <1>3 DEF SelectionTypeOK
  <2>2. CASE m = "platt"
      BY <1>2, <2>1, <2>2
  <2>3. CASE m = "isotonic"
      BY <1>2, <2>1, <2>3
  <2> QED
      BY <2>2, <2>3
<1>5. SelectionTypeOK'
    BY <1>1, <1>3, <1>4 DEF SelectionTypeOK, ResultsTypeOK, SearchTypeOK, Steps
<1>6. BestModel'
    BY <1>1, <1>3 DEF BestModel
<1> QED
    BY <1>1, <1>3, <1>4, <1>5, <1>6
    DEF SelectionInv, ExperimentInv, SelectInv, FitInv, SearchInv

LEMMA PickStep ==
    ASSUME SelectionInv, PickMethod
    PROVE  SelectionInv'
<1> DEFINE active == IF BrierOf("isotonic") < BrierOf("platt") THEN "isotonic" ELSE "platt"
<1>1. /\ step = "pick" /\ step' = "search" /\ calibrator' = [calibrator EXCEPT !.active = active]
      /\ UNCHANGED <<results, best, sample, search>>
    BY DEF PickMethod
<1>2. /\ SelectionTypeOK /\ "lr_basic" \in DOMAIN results /\ BestModel
      /\ ~search.found /\ search.next = 1
      /\ calibrator.platt \in Calibrated /\ calibrator.isotonic \in Calibrated
    BY <1>1 DEF SelectionInv, ExperimentInv, SelectInv, FitInv
<1>3. /\ calibrator' \in [platt : Calibrated \cup {Unfitted}, isotonic : Calibrated \cup {Unfitted},
                          active : {"platt", "isotonic"}]
      /\ calibrator'.platt = calibrator.platt /\ calibrator'.isotonic = calibrator.isotonic
      /\ calibrator'.active = active
  <2>1. active \in {"platt", "isotonic"}
      OBVIOUS
  <2> HIDE DEF active
  <2> QED
      BY <1>1, <1>2, <2>1 DEF SelectionTypeOK
<1>4. BestMethod'
  <2>1. BrierOf("platt")' = BrierOf("platt") /\ BrierOf("isotonic")' = BrierOf("isotonic")
      BY <1>1, <1>3 DEF BrierOf
  <2>2. calibrator["platt"] \in [Rows -> 0 .. Scale] /\ calibrator["isotonic"] \in [Rows -> 0 .. Scale]
      BY <1>2, SelectionAssumption
  <2>3. BrierOf("platt") \in Int /\ BrierOf("isotonic") \in Int
      BY <2>2, BrierType DEF BrierOf
  <2> QED
      BY <1>3, <2>1, <2>3 DEF BestMethod
<1>5. BestModel'
    BY <1>1, <1>2 DEF BestModel
<1>6. SelectionTypeOK'
    BY <1>1, <1>2, <1>3 DEF SelectionTypeOK, ResultsTypeOK, SearchTypeOK, Steps
<1>7. FoundFirst'
    BY <1>1, <1>2 DEF FoundFirst, Seen
<1> QED
    BY <1>1, <1>2, <1>3, <1>4, <1>5, <1>6, <1>7
    DEF SelectionInv, ExperimentInv, SelectInv, FitInv, SearchInv

\* One more pair was seen: the best of those seen is the one found before, or
\* the new one, which is better than all of them.
LEMMA FoundStep ==
    ASSUME SelectionInv, Try
    PROVE  FoundFirst'
<1> DEFINE n == search.next
           valid == Pair(n).bt > Pair(n).at
           better == valid /\ (~search.found \/ Benefit(Pair(n)) > search.benefit)
<1>1. /\ step = "search" /\ n <= Pairs /\ UNCHANGED <<sample, calibrator>>
      /\ search' = IF better THEN [next |-> n + 1, found |-> TRUE, at |-> Pair(n).at,
                                   bt |-> Pair(n).bt, benefit |-> Benefit(Pair(n))]
                             ELSE [search EXCEPT !.next = n + 1]
    BY DEF Try
<1>2. FoundFirst /\ SelectionTypeOK
    BY <1>1 DEF SelectionInv, SearchInv
<1>3. /\ n \in Nat \ {0} /\ search.benefit \in Int
      /\ search \in [next : (1 .. Pairs + 1) \cup DOMAIN Experiments, found : BOOLEAN,
                     at : Int, bt : Int, benefit : Int]
  <2>1. Pairs \in Nat /\ DOMAIN Experiments = 1 .. 4
      BY SelectionAssumption, ExperimentFacts DEF Pairs
  <2> QED
      BY <1>2, <2>1 DEF SelectionTypeOK, SearchTypeOK
<1>4. \A pair : Benefit(pair)' = Benefit(pair)
    BY <1>1 DEF Benefit, ActiveProbabilities
<1>5. \A k : Benefit(Pair(k)) \in Int
    BY <1>2, BenefitType
<1>6. /\ search'.next = n + 1
      /\ better => /\ search'.found /\ search'.at = Pair(n).at /\ search'.bt = Pair(n).bt
                   /\ search'.benefit = Benefit(Pair(n))
      /\ ~better => /\ search'.found = search.found /\ search'.at = search.at
                    /\ search'.bt = search.bt /\ search'.benefit = search.benefit
  <2> HIDE DEF better
  <2>1. CASE better
      BY <1>1, <2>1
  <2>2. CASE ~better
      BY <1>1, <1>3, <2>2
  <2> QED
      BY <2>1, <2>2
<1>7. Seen' = IF valid THEN Seen \cup {n} ELSE Seen
  <2>1. Seen' = {k \in 1 .. n : Pair(k).bt > Pair(k).at}
      BY <1>3, <1>6 DEF Seen
  <2>2. \A k : k \in 1 .. n <=> k \in 1 .. n - 1 \/ k = n
      BY <1>3
  <2>3. Seen = {k \in 1 .. n - 1 : Pair(k).bt > Pair(k).at}
      BY DEF Seen
  <2> QED
      BY <2>1, <2>2, <2>3
<1>8. Pair(n) = [at |-> Pair(n).at, bt |-> Pair(n).bt]
    BY DEF Pair
<1>9. \A k \in Seen : k \in Nat /\ k < n
    BY <1>3 DEF Seen
<1> HIDE DEF n
<1>10. CASE better
  <2>1. Seen' = Seen \cup {n} /\ search'.found /\ search'.benefit = Benefit(Pair(n))
      BY <1>6, <1>7, <1>10
  <2>2. \A k \in Seen : Benefit(Pair(k)) < Benefit(Pair(n))
    <3>1. CASE ~search.found
        BY <1>2, <3>1 DEF FoundFirst
    <3>2. CASE search.found
      <4>1. \A k \in Seen : Benefit(Pair(k)) <= search.benefit
          BY <1>2, <3>2 DEF FoundFirst
      <4>2. Benefit(Pair(n)) > search.benefit
          BY <1>10, <3>2
      <4> QED
          BY <1>3, <1>5, <4>1, <4>2
    <3> QED
        BY <3>1, <3>2
  <2>3. \A k \in Seen \cup {n} : /\ Benefit(Pair(k)) <= Benefit(Pair(n))
                                 /\ k < n => Benefit(Pair(k)) < Benefit(Pair(n))
      BY <1>3, <1>5, <2>2 DEF n
  <2>4. Pair(n) = [at |-> search'.at, bt |-> search'.bt]
      BY <1>6, <1>8, <1>10
  <2> HIDE DEF better
  <2> QED
      BY <1>4, <2>1, <2>3, <2>4 DEF FoundFirst
<1>11. CASE ~better
  <2>1. /\ search'.found = search.found /\ search'.at = search.at
        /\ search'.bt = search.bt /\ search'.benefit = search.benefit
      BY <1>6, <1>11
  <2>2. CASE ~search.found
    <3>1. Seen' = {}
        BY <1>2, <1>7, <1>11, <2>2 DEF FoundFirst
    <3> QED
        BY <2>1, <2>2, <3>1 DEF FoundFirst
  <2>3. CASE search.found
    <3>1. PICK m \in Seen :
            /\ Pair(m) = [at |-> search.at, bt |-> search.bt]
            /\ search.benefit = Benefit(Pair(m))
            /\ \A k \in Seen : /\ Benefit(Pair(k)) <= search.benefit
                               /\ k < m => Benefit(Pair(k)) < search.benefit
        BY <1>2, <2>3 DEF FoundFirst
    <3>2. ASSUME NEW k \in Seen'
          PROVE  /\ Benefit(Pair(k)) <= search.benefit
                 /\ k < m => Benefit(Pair(k)) < search.benefit
      <4>1. CASE k \in Seen
          BY <3>1, <4>1
      <4>2. CASE k \notin Seen
        <5>1. k = n /\ valid
            BY <1>7, <3>2, <4>2
        <5>2. ~(Benefit(Pair(n)) > search.benefit)
            BY <1>11, <2>3, <5>1
        <5>3. Benefit(Pair(n)) <= search.benefit
            BY <1>3, <1>5, <5>2
        <5>4. ~(n < m)
            BY <1>3, <1>9, <3>1 DEF n
        <5> QED
            BY <5>1, <5>3, <5>4
      <4> QED
          BY <4>1, <4>2
    <3>3. m \in Seen'
        BY <1>7
    <3> HIDE DEF better
    <3> QED
        BY <1>4, <2>1, <2>3, <3>1, <3>2, <3>3 DEF FoundFirst
  <2> QED
      BY <2>2, <2>3
<1> QED
    BY <1>10, <1>11

LEMMA TryStep ==
    ASSUME SelectionInv, Try
    PROVE  SelectionInv'
<1>1. /\ step = "search" /\ search.next <= Pairs
      /\ UNCHANGED <<step, results, best, sample, calibrator>>
    BY DEF Try
<1>2. /\ SelectionTypeOK /\ "lr_basic" \in DOMAIN results /\ BestModel /\ BestMethod
      /\ calibrator.platt \in Calibrated /\ calibrator.isotonic \in Calibrated
    BY <1>1 DEF SelectionInv, ExperimentInv, SelectInv, FitInv
<1>3. /\ search'.next \in 1 .. Pairs + 1
      /\ search' \in [next : (1 .. Pairs + 1) \cup DOMAIN Experiments, found : BOOLEAN,
                      at : Int, bt : Int, benefit : Int]
  <2>1. Pairs \in Nat
      BY SelectionAssumption DEF Pairs
  <2>2. /\ search \in [next : (1 .. Pairs + 1) \cup DOMAIN Experiments, found : BOOLEAN,
                       at : Int, bt : Int, benefit : Int]
        /\ search.next \in 1 .. Pairs + 1
      BY <1>1, <1>2 DEF SelectionTypeOK, SearchTypeOK
  <2> DEFINE pair == Pair(search.next)
             worth == Benefit(pair)
             one == [next |-> search.next + 1, found |-> TRUE, at |-> pair.at, bt |-> pair.bt,
                     benefit |-> worth]
             other == [search EXCEPT !.next = search.next + 1]
  <2>3. search' = one \/ search' = other
      BY DEF Try
  <2>4. search.next \in 1 .. Pairs /\ search.next + 1 \in 1 .. Pairs + 1
      BY <1>1, <2>1, <2>2
  <2>5. pair.at \in Int /\ pair.bt \in Int /\ worth \in Int
      BY <1>2, <2>4, GridPair, BenefitType
  <2> HIDE DEF pair, worth
  <2>6. CASE search' = one
      BY <2>4, <2>5, <2>6
  <2>7. CASE search' = other
      BY <2>2, <2>4, <2>7
  <2> QED
      BY <2>3, <2>6, <2>7
<1>4. SelectionTypeOK'
    BY <1>1, <1>2, <1>3 DEF SelectionTypeOK, ResultsTypeOK, SearchTypeOK
<1>5. BestModel' /\ BestMethod'
    BY <1>1, <1>2 DEF BestModel, BestMethod, BrierOf
<1>6. FoundFirst'
    BY FoundStep
<1> QED
    BY <1>1, <1>2, <1>4, <1>5, <1>6
    DEF SelectionInv, ExperimentInv, SelectInv, FitInv, SearchInv

LEMMA EndSearchStep ==
    ASSUME SelectionInv, EndSearch
    PROVE  SelectionInv'
<1>1. /\ step = "search" /\ search.next > Pairs
      /\ step' = IF search.found THEN "optimized" ELSE "failed"
      /\ UNCHANGED <<results, best, sample, calibrator, search>>
    BY DEF EndSearch
<1>2. /\ SelectionTypeOK /\ "lr_basic" \in DOMAIN results /\ BestModel /\ BestMethod /\ FoundFirst
      /\ calibrator.platt \in Calibrated /\ calibrator.isotonic \in Calibrated
    BY <1>1 DEF SelectionInv, ExperimentInv, SelectInv, FitInv, SearchInv
<1>3. search.next = Pairs + 1
  <2>1. Pairs \in Nat
      BY SelectionAssumption DEF Pairs
  <2> QED
      BY <1>1, <1>2, <2>1 DEF SelectionTypeOK, SearchTypeOK
<1>4. SelectionTypeOK'
    BY <1>1, <1>2 DEF SelectionTypeOK, ResultsTypeOK, SearchTypeOK, Steps
<1>5. BestModel' /\ BestMethod'
    BY <1>1, <1>2 DEF BestModel, BestMethod, BrierOf
<1>6. FoundFirst'
    BY <1>1, <1>2 DEF FoundFirst, Seen, Benefit, ActiveProbabilities
<1> QED
    BY <1>1, <1>2, <1>3, <1>4, <1>5, <1>6
    DEF SelectionInv, ExperimentInv, SelectInv, FitInv, SearchInv

LEMMA RaiseStep ==
    ASSUME SelectionInv, Raise
    PROVE  SelectionInv'
<1>1. /\ step \notin {"optimized", "failed"} /\ step' = "failed"
      /\ UNCHANGED <<results, best, sample, calibrator, search>>
    BY DEF Raise
<1>2. SelectionTypeOK'
    BY <1>1 DEF SelectionInv, SelectionTypeOK, ResultsTypeOK, SearchTypeOK, Steps
<1> QED
    BY <1>1, <1>2 DEF SelectionInv, ExperimentInv, SelectInv, FitInv, SearchInv

LEMMA SelectionStays ==
    SelectionInv /\ UNCHANGED selectionVars => SelectionInv'
<1> SUFFICES ASSUME SelectionInv, UNCHANGED selectionVars PROVE SelectionInv'
    OBVIOUS
<1>1. UNCHANGED <<step, results, best, sample, calibrator, search>>
    BY DEF selectionVars
<1>2. SelectionTypeOK'
    BY <1>1 DEF SelectionInv, SelectionTypeOK, ResultsTypeOK, SearchTypeOK
<1>3. (BestModel => BestModel') /\ (BestMethod => BestMethod')
    BY <1>1 DEF BestModel, BestMethod, BrierOf
<1>4. FoundFirst => FoundFirst'
    BY <1>1 DEF FoundFirst, Seen, Benefit, ActiveProbabilities
<1> QED
    BY <1>1, <1>2, <1>3, <1>4
    DEF SelectionInv, ExperimentInv, SelectInv, FitInv, SearchInv

(***************************************************************************)
(* What each step of the training job finds done by the ones before it     *)
(* holds in every state, whatever the experiments, the fits and the sample *)
(* give.                                                                   *)
(***************************************************************************)
THEOREM SelectionInductive == Spec => []SelectionInv
<1>1. SelectionInv /\ [Next]_vars => SelectionInv'
  <2> SUFFICES ASSUME SelectionInv, [Next]_vars PROVE SelectionInv'
      OBVIOUS
  <2>1. CASE SelectionNext
      BY <2>1, ExperimentStep, SelectStep, FitStep, PickStep, TryStep, EndSearchStep, RaiseStep
      DEF SelectionNext
  <2>2. CASE UNCHANGED selectionVars
      BY <2>2, SelectionStays
  <2> QED
      BY <2>1, <2>2 DEF Next, vars
<1> QED
    BY SelectionInitInv, <1>1, PTL DEF Spec

(***************************************************************************)
(* The thresholds that optimize returns are the first of the greatest net  *)
(* benefit in the whole grid, on the probabilities of the method with the  *)
(* lower Brier score, of a model that no other experiment has beaten; and  *)
(* the job that finds no valid pair fails: for any sample, any amounts and *)
(* any grid.                                                               *)
(***************************************************************************)
THEOREM Optimum == Spec => []FirstOptimum
<1>1. SelectionInv => FirstOptimum
    BY DEF SelectionInv, SelectInv, FitInv, SearchInv, FirstOptimum
<1> QED
    BY SelectionInductive, <1>1, PTL

-----------------------------------------------------------------------------
\* Types.

(***************************************************************************)
(* The type invariant: the search never leaves the grid, best names an     *)
(* experiment with a result, and an approved candidate was handed in.      *)
(***************************************************************************)
THEOREM TypeCorrect == Spec => []TypeOK
<1>1. IInv => GatesTypeOK
    BY DEF IInv
<1>2. Spec => [](process \in {"training", "promotion"})
  <2>1. Init => process \in {"training", "promotion"}
      BY DEF Init
  <2>2. process \in {"training", "promotion"} /\ [Next]_vars
            => (process \in {"training", "promotion"})'
      BY DEF Next, vars
  <2> QED
      BY <2>1, <2>2, PTL DEF Spec
<1>3. process \in {"training", "promotion"} /\ SelectionInv /\ GatesTypeOK => TypeOK
    BY DEF SelectionInv, TypeOK
<1> QED
    BY SelectionInductive, Inductive, <1>1, <1>2, <1>3, PTL
=============================================================================
