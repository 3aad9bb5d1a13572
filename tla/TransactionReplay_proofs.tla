---------------------- MODULE TransactionReplay_proofs ----------------------
(***************************************************************************)
(* Proofs about TransactionReplay: its types, the order of first           *)
(* appearances and the bounded copies in every partition, and no silent    *)
(* loss, for any number of transactions, any partitions, any number of     *)
(* retries and however the client forms its batches.                       *)
(***************************************************************************)
EXTENDS TransactionReplay, FiniteSetTheorems, TLAPS

-----------------------------------------------------------------------------
\* Sequences.

\* What is left of a sequence without its head.
LEMMA TailFacts ==
    ASSUME NEW S, NEW q \in Seq(S), q # <<>>
    PROVE  /\ Len(q) \in Nat \ {0}
           /\ Head(q) = q[1] /\ Head(q) \in S
           /\ Tail(q) \in Seq(S)
           /\ Len(Tail(q)) = Len(q) - 1
           /\ \A i \in 1 .. Len(q) - 1 : Tail(q)[i] = q[i + 1]
OBVIOUS

\* A sequence with one more element at its end.
LEMMA AppendFacts ==
    ASSUME NEW S, NEW q \in Seq(S), NEW x \in S
    PROVE  /\ Append(q, x) \in Seq(S)
           /\ Len(Append(q, x)) = Len(q) + 1
           /\ \A i \in 1 .. Len(q) : Append(q, x)[i] = q[i]
           /\ Append(q, x)[Len(q) + 1] = x
OBVIOUS

\* One sequence behind another.
LEMMA ConcatFacts ==
    ASSUME NEW S, NEW l \in Seq(S), NEW m \in Seq(S)
    PROVE  /\ l \o m \in Seq(S)
           /\ Len(l \o m) = Len(l) + Len(m) /\ Len(l) \in Nat /\ Len(m) \in Nat
           /\ \A i \in 1 .. Len(l) : (l \o m)[i] = l[i]
           /\ \A i \in 1 .. Len(m) : (l \o m)[Len(l) + i] = m[i]
OBVIOUS

\* A batch that is queued again keeps its place.
LEMMA RequeuedFacts ==
    ASSUME NEW S, NEW q \in Seq(S), q # <<>>, NEW x \in S
    PROVE  /\ Requeued(Tail(q), x) \in Seq(S)
           /\ Len(Requeued(Tail(q), x)) = Len(q)
           /\ Requeued(Tail(q), x)[1] = x
           /\ \A i \in 2 .. Len(q) : Requeued(Tail(q), x)[i] = q[i]
<1> DEFINE rest == Tail(q)
<1>1. /\ Len(q) \in Nat \ {0} /\ rest \in Seq(S) /\ Len(rest) = Len(q) - 1
      /\ \A i \in 1 .. Len(q) - 1 : rest[i] = q[i + 1]
    BY TailFacts
<1> HIDE DEF rest
<1>2. /\ <<x>> \o rest \in Seq(S)
      /\ Len(<<x>> \o rest) = 1 + Len(rest)
      /\ (<<x>> \o rest)[1] = x
      /\ \A i \in 2 .. 1 + Len(rest) : (<<x>> \o rest)[i] = rest[i - 1]
    BY <1>1
<1>3. \A i \in 2 .. Len(q) : rest[i - 1] = q[i]
    BY <1>1
<1> QED
    BY <1>1, <1>2, <1>3 DEF Requeued, rest

\* The elements of a sequence.
LEMMA RangeFacts ==
    ASSUME NEW S, NEW l \in Seq(S)
    PROVE  /\ Range(l) = {l[i] : i \in 1 .. Len(l)}
           /\ Range(l) \subseteq S
           /\ \A i \in 1 .. Len(l) : l[i] \in Range(l)
           /\ \A x \in Range(l) : \E i \in 1 .. Len(l) : x = l[i]
<1>1. Range(l) = {l[i] : i \in 1 .. Len(l)}
    BY DEF Range
<1> QED
    BY <1>1

LEMMA RangeAppend ==
    ASSUME NEW S, NEW l \in Seq(S), NEW x \in S
    PROVE  Range(Append(l, x)) = Range(l) \union {x}
<1> DEFINE longer == Append(l, x)
<1>1. /\ longer \in Seq(S) /\ Len(longer) = Len(l) + 1 /\ Len(l) \in Nat
      /\ (\A i \in 1 .. Len(l) : longer[i] = l[i]) /\ longer[Len(l) + 1] = x
    BY AppendFacts
<1> HIDE DEF longer
<1>2. /\ Range(longer) = {longer[i] : i \in 1 .. Len(l) + 1}
      /\ Range(l) = {l[i] : i \in 1 .. Len(l)}
    BY <1>1, RangeFacts
<1>3. 1 .. Len(l) + 1 = (1 .. Len(l)) \union {Len(l) + 1}
    BY <1>1
<1> QED
    BY <1>1, <1>2, <1>3 DEF longer

LEMMA RangeConcat ==
    ASSUME NEW S, NEW l \in Seq(S), NEW m \in Seq(S)
    PROVE  Range(l \o m) = Range(l) \union Range(m)
<1> DEFINE both == l \o m
<1>1. /\ both \in Seq(S)
      /\ Len(both) = Len(l) + Len(m) /\ Len(l) \in Nat /\ Len(m) \in Nat
      /\ \A i \in 1 .. Len(l) : both[i] = l[i]
      /\ \A i \in 1 .. Len(m) : both[Len(l) + i] = m[i]
    BY ConcatFacts
<1> HIDE DEF both
<1>2. ASSUME NEW x \in Range(both) PROVE x \in Range(l) \union Range(m)
  <2>1. PICK i \in 1 .. Len(both) : x = both[i]
      BY <1>1, RangeFacts
  <2>2. CASE i <= Len(l)
      BY <2>1, <2>2, <1>1, RangeFacts
  <2>3. CASE i > Len(l)
    <3>1. i - Len(l) \in 1 .. Len(m) /\ Len(l) + (i - Len(l)) = i
        BY <2>3, <1>1
    <3>2. m[i - Len(l)] = both[i]
        BY <3>1, <1>1
    <3> QED
        BY <3>1, <3>2, <2>1, RangeFacts
  <2> QED
      BY <2>2, <2>3, <1>1
<1>3. ASSUME NEW x \in Range(l) PROVE x \in Range(both)
  <2>1. PICK i \in 1 .. Len(l) : x = l[i]
      BY RangeFacts
  <2>2. i \in 1 .. Len(both) /\ both[i] = x
      BY <2>1, <1>1
  <2> QED
      BY <2>2, <1>1, RangeFacts
<1>4. ASSUME NEW x \in Range(m) PROVE x \in Range(both)
  <2>1. PICK i \in 1 .. Len(m) : x = m[i]
      BY RangeFacts
  <2>2. Len(l) + i \in 1 .. Len(both) /\ both[Len(l) + i] = x
      BY <2>1, <1>1
  <2> QED
      BY <2>2, <1>1, RangeFacts
<1> QED
    BY <1>2, <1>3, <1>4 DEF both

-----------------------------------------------------------------------------
\* How a partition's log grows by a batch.

LEMMA TxnsAreNumbers == Txns \subseteq Int /\ \A t \in Txns : 1 <= t /\ t <= N
BY ReplayAssumption DEF Txns

LEMMA BatchFacts ==
    ASSUME NEW b \in Batch
    PROVE  /\ b.txns \in Seq(Txns) /\ b.tries \in 0 .. Retries /\ b.tries \in Int
           /\ Elems(b) \subseteq Txns /\ Elems(b) = Range(b.txns)
           /\ DOMAIN b.txns = 1 .. Len(b.txns)
           /\ \A i \in 1 .. Len(b.txns) : b.txns[i] \in Elems(b)
           /\ \A x \in Elems(b) : \E i \in 1 .. Len(b.txns) : x = b.txns[i]
<1>1. b.txns \in Seq(Txns) /\ b.tries \in 0 .. Retries
    BY DEF Batch
<1>2. b.tries \in Int
    BY <1>1, ReplayAssumption
<1> QED
    BY <1>1, <1>2, RangeFacts DEF Elems

\* Copies are positions: one more where the batch has the transaction.
LEMMA CopiesGrow ==
    ASSUME NEW l \in Seq(Txns), NEW b \in Batch, Ascending(b), NEW t \in Txns
    PROVE  /\ Copies(l, t) \in Nat
           /\ Copies(l \o b.txns, t) \in Nat
           /\ Copies(l \o b.txns, t) <= Copies(l, t) + 1
           /\ t \notin Elems(b) => Copies(l \o b.txns, t) = Copies(l, t)
<1> DEFINE m == b.txns
           both == l \o m
           Before == {i \in 1 .. Len(l) : l[i] = t}
           After == {i \in 1 .. Len(both) : both[i] = t}
<1>1. /\ m \in Seq(Txns) /\ DOMAIN m = 1 .. Len(m) /\ m = b.txns
      /\ \A i \in 1 .. Len(m) : m[i] \in Elems(b)
      /\ \A i \in 1 .. Len(m) : m[i] \in Int
    BY BatchFacts, TxnsAreNumbers
<1> HIDE DEF m
<1>2. /\ both \in Seq(Txns)
      /\ Len(both) = Len(l) + Len(m) /\ Len(l) \in Nat /\ Len(m) \in Nat
      /\ \A i \in 1 .. Len(l) : both[i] = l[i]
      /\ \A i \in 1 .. Len(m) : both[Len(l) + i] = m[i]
    BY <1>1, ConcatFacts
<1> HIDE DEF both
<1>3. IsFiniteSet(Before)
  <2>1. IsFiniteSet(1 .. Len(l))
      BY <1>2, FS_Interval
  <2> QED
      BY <2>1, FS_Subset
<1>4. Copies(l, t) = Cardinality(Before) /\ Copies(both, t) = Cardinality(After)
  <2>1. DOMAIN l = 1 .. Len(l) /\ DOMAIN both = 1 .. Len(both)
      BY <1>2
  <2> QED
      BY <2>1, Zenon DEF Copies
<1>5. ASSUME NEW i \in After, i \notin Before
      PROVE  i - Len(l) \in 1 .. Len(m) /\ m[i - Len(l)] = t
  <2>1. i \in 1 .. Len(both) /\ both[i] = t
      OBVIOUS
  <2>2. i > Len(l)
      BY <2>1, <1>2, <1>5
  <2>3. i - Len(l) \in 1 .. Len(m) /\ Len(l) + (i - Len(l)) = i
      BY <2>1, <2>2, <1>2
  <2>4. both[Len(l) + (i - Len(l))] = m[i - Len(l)]
      BY <2>3, <1>2
  <2> QED
      BY <2>1, <2>3, <2>4
<1>6. Before \subseteq After
    BY <1>2
<1>7. t \notin Elems(b) => After = Before
    BY <1>1, <1>5, <1>6
<1>8. CASE t \in Elems(b)
  <2>1. PICK k \in 1 .. Len(m) : m[k] = t
      BY <1>1, <1>8, BatchFacts DEF m
  <2>2. ASSUME NEW i \in After, i \notin Before PROVE i = Len(l) + k
    <3>1. i - Len(l) \in 1 .. Len(m) /\ m[i - Len(l)] = t
        BY <1>5, <2>2
    <3>2. ~(i - Len(l) < k) /\ ~(k < i - Len(l))
        BY <3>1, <2>1, <1>1 DEF Ascending
    <3>3. \A x, y, z \in Int : ~(x - y < z) /\ ~(z < x - y) => x = y + z
        OBVIOUS
    <3>4. i \in Int /\ k \in Int /\ Len(l) \in Int
        BY <1>2
    <3> QED
        BY <3>2, <3>3, <3>4
  <2>3. After \subseteq Before \union {Len(l) + k}
      BY <2>2
  <2>4. /\ IsFiniteSet(Before \union {Len(l) + k})
        /\ Cardinality(Before \union {Len(l) + k}) \in {Cardinality(Before), Cardinality(Before) + 1}
      BY <1>3, FS_AddElement
  <2>5. /\ IsFiniteSet(After)
        /\ Cardinality(After) <= Cardinality(Before \union {Len(l) + k})
      BY <2>3, <2>4, FS_Subset
  <2>6. Cardinality(Before) \in Nat /\ Cardinality(After) \in Nat
      BY <1>3, <2>5, FS_CardinalityType
  <2>7. Cardinality(After) <= Cardinality(Before) + 1
      BY <2>4, <2>5, <2>6
  <2> QED
      BY <2>6, <2>7, <1>4, <1>8 DEF both, m
<1>9. CASE t \notin Elems(b)
  <2>1. Cardinality(Before) \in Nat
      BY <1>3, FS_CardinalityType
  <2>2. Cardinality(After) = Cardinality(Before)
      BY <1>7, <1>9
  <2>3. Copies(both, t) = Copies(l, t) /\ Copies(l, t) \in Nat
      BY <2>1, <2>2, <1>4
  <2>4. Copies(both, t) <= Copies(l, t) + 1
      BY <2>3
  <2> QED
      BY <2>3, <2>4 DEF both, m
<1> QED
    BY <1>8, <1>9

\* A batch that is newer than the log, or is in it already, keeps the order of
\* first appearances.
LEMMA InOrderGrows ==
    ASSUME NEW l \in Seq(Txns), NEW b \in Batch, Ascending(b), InOrder(l),
           Newer(b, l) \/ Elems(b) \subseteq Range(l)
    PROVE  InOrder(l \o b.txns)
<1> DEFINE m == b.txns
           both == l \o m
<1>1. /\ m \in Seq(Txns) /\ DOMAIN m = 1 .. Len(m)
      /\ \A i \in 1 .. Len(m) : m[i] \in Elems(b)
      /\ \A i \in 1 .. Len(m) : m[i] \in Int
      /\ \A i, j \in 1 .. Len(m) : i < j => m[i] < m[j]
    BY BatchFacts, TxnsAreNumbers DEF Ascending
<1> HIDE DEF m
<1>2. /\ both \in Seq(Txns)
      /\ Len(both) = Len(l) + Len(m) /\ Len(l) \in Nat /\ Len(m) \in Nat
      /\ \A i \in 1 .. Len(l) : both[i] = l[i]
      /\ \A i \in 1 .. Len(m) : both[Len(l) + i] = m[i]
    BY <1>1, ConcatFacts
<1> HIDE DEF both
<1>3. /\ DOMAIN both = 1 .. Len(both) /\ DOMAIN l = 1 .. Len(l)
      /\ \A i \in 1 .. Len(l) : l[i] \in Int /\ l[i] \in Range(l)
  <2>1. \A i \in 1 .. Len(l) : l[i] \in Range(l) /\ l[i] \in Txns
      BY RangeFacts
  <2>2. DOMAIN both = 1 .. Len(both) /\ DOMAIN l = 1 .. Len(l)
      BY <1>2
  <2> QED
      BY <2>1, <2>2, TxnsAreNumbers
<1>4. ASSUME NEW i \in 1 .. Len(both), i > Len(l)
      PROVE  i - Len(l) \in 1 .. Len(m) /\ both[i] = m[i - Len(l)]
    BY <1>2, <1>4
<1> SUFFICES ASSUME NEW i \in 1 .. Len(both), NEW j \in 1 .. Len(both),
                    i < j, both[j] < both[i]
             PROVE  \E k \in 1 .. i - 1 : both[k] = both[j]
    BY <1>3 DEF InOrder, both, m
<1>5. CASE j <= Len(l)
  <2>1. i \in DOMAIN l /\ j \in DOMAIN l /\ l[j] < l[i] /\ both[j] = l[j]
      BY <1>5, <1>2, <1>3
  <2>2. PICK k \in 1 .. i - 1 : l[k] = l[j]
      BY <2>1 DEF InOrder
  <2> QED
      BY <2>1, <2>2, <1>2, <1>3
<1>6. CASE j > Len(l) /\ i <= Len(l)
  <2>1. /\ both[j] \in Elems(b) /\ both[j] \in Int
        /\ i \in 1 .. Len(l) /\ both[i] = l[i]
      BY <1>1, <1>2, <1>4, <1>6
  <2>2. ~Newer(b, l)
      BY <2>1, <1>3 DEF Newer
  <2>3. PICK k \in 1 .. Len(l) : l[k] = both[j]
      BY <2>1, <2>2, RangeFacts
  <2>4. CASE k < i
      BY <2>3, <2>4, <1>2
  <2>5. CASE i < k
    <3>1. i \in DOMAIN l /\ k \in DOMAIN l /\ l[k] < l[i]
        BY <2>1, <2>3, <1>3
    <3>2. PICK n \in 1 .. i - 1 : l[n] = l[k]
        BY <3>1, <2>5 DEF InOrder
    <3>3. n \in 1 .. Len(l) /\ both[n] = l[n]
        BY <2>1, <1>2
    <3> QED
        BY <3>2, <3>3, <2>3
  <2>6. k # i
      BY <2>1, <2>3, <1>3
  <2> QED
      BY <2>4, <2>5, <2>6, <1>2
<1>7. CASE j > Len(l) /\ i > Len(l)
  <2>1. /\ i - Len(l) \in 1 .. Len(m) /\ both[i] = m[i - Len(l)]
        /\ j - Len(l) \in 1 .. Len(m) /\ both[j] = m[j - Len(l)]
        /\ i - Len(l) < j - Len(l)
      BY <1>2, <1>4, <1>7
  <2>2. /\ m[i - Len(l)] < m[j - Len(l)]
        /\ m[i - Len(l)] \in Int /\ m[j - Len(l)] \in Int
      BY <2>1, <1>1
  <2> QED
      BY <2>1, <2>2
<1> QED
    BY <1>5, <1>6, <1>7, <1>2

-----------------------------------------------------------------------------
\* What happens to the batches of one partition keeps them in order.

LEMMA OrderedEmpty ==
    ASSUME NEW l \in Seq(Txns), NEW q \in Seq(Batch), Ordered(q, l)
    PROVE  Ordered(<<>>, l)
BY DEF Ordered

\* The log with the first batch appended.
LEMMA AppendedFacts ==
    ASSUME NEW q \in Seq(Batch), NEW l \in Seq(Txns), Ordered(q, l), q # <<>>
    PROVE  /\ q[1] \in Batch /\ 1 \in DOMAIN q /\ DOMAIN q = 1 .. Len(q) /\ Len(q) \in Nat \ {0}
           /\ l \o q[1].txns \in Seq(Txns)
           /\ Range(l \o q[1].txns) = Range(l) \union Elems(q[1])
           /\ InOrder(l \o q[1].txns)
           /\ \A t \in Txns : Copies(l \o q[1].txns, t) <= Retries + 1
           /\ \A t \in Elems(q[1]) : Copies(l \o q[1].txns, t) <= q[1].tries + 1
           /\ \A j \in DOMAIN q : j # 1 =>
                 /\ Newer(q[j], l) /\ Newer(q[j], l \o q[1].txns)
                 /\ \A t \in Elems(q[j]) : Copies(l \o q[1].txns, t) <= q[j].tries
<1> DEFINE b == q[1]
           l2 == l \o b.txns
<1>1. b \in Batch /\ 1 \in DOMAIN q /\ DOMAIN q = 1 .. Len(q) /\ Len(q) \in Nat \ {0}
    BY TailFacts
<1>2. /\ Ascending(b) /\ InOrder(l)
      /\ Newer(b, l) \/ Elems(b) \subseteq Range(l)
      /\ \A t \in Elems(b) : Copies(l, t) <= b.tries
      /\ \A t \in Txns : Copies(l, t) <= Retries + 1
    BY <1>1 DEF Ordered, Repeated
<1>3. b.txns \in Seq(Txns) /\ Elems(b) \subseteq Txns /\ b.tries \in 0 .. Retries /\ Elems(b) = Range(b.txns)
    BY <1>1, BatchFacts
<1>4. ASSUME NEW j \in DOMAIN q, j # 1
      PROVE  /\ Newer(q[j], l) /\ Elems(q[j]) \subseteq Txns
             /\ \A x \in Elems(b), y \in Elems(q[j]) : x < y
             /\ \A t \in Elems(q[j]) : Copies(l, t) <= q[j].tries
  <2>1. 1 < j /\ q[j] \in Batch
      BY <1>1, <1>4
  <2> QED
      BY <2>1, <1>1, <1>4, BatchFacts DEF Ordered
<1> HIDE DEF b
<1>5. l2 \in Seq(Txns) /\ Range(l2) = Range(l) \union Elems(b)
    BY <1>3, ConcatFacts, RangeConcat
<1>6. InOrder(l2)
    BY <1>1, <1>2, InOrderGrows
<1>7. \A t \in Txns : /\ Copies(l, t) \in Nat /\ Copies(l2, t) \in Nat
                      /\ Copies(l2, t) <= Copies(l, t) + 1
                      /\ t \notin Elems(b) => Copies(l2, t) = Copies(l, t)
    BY <1>1, <1>2, CopiesGrow
<1> HIDE DEF l2
<1>8. \A t \in Elems(b) : Copies(l2, t) <= b.tries + 1
    BY <1>2, <1>3, <1>7
<1>9. ASSUME NEW t \in Txns PROVE Copies(l2, t) <= Retries + 1
  <2>1. Copies(l2, t) \in Nat /\ Retries \in Nat
      BY <1>7, ReplayAssumption
  <2>2. CASE t \in Elems(b)
    <3>1. Copies(l2, t) <= b.tries + 1
        BY <2>2, <1>8
    <3>2. b.tries \in Int /\ b.tries <= Retries
        BY <2>1, <1>3
    <3> QED
        BY <3>1, <3>2, <2>1
  <2>3. CASE t \notin Elems(b)
      BY <2>3, <1>2, <1>7
  <2> QED
      BY <2>2, <2>3
<1>10. ASSUME NEW j \in DOMAIN q, j # 1
       PROVE  /\ Newer(q[j], l2)
              /\ \A t \in Elems(q[j]) : Copies(l2, t) <= q[j].tries
  <2>1. Newer(q[j], l2)
      BY <1>4, <1>5, <1>10 DEF Newer
  <2>2. ASSUME NEW t \in Elems(q[j]) PROVE t \notin Elems(b) /\ t \in Txns
    <3>1. t \in Txns /\ \A x \in Elems(b) : x < t
        BY <1>4, <1>10
    <3>2. ~(t < t)
        BY <3>1, TxnsAreNumbers
    <3> QED
        BY <3>1, <3>2
  <2> QED
      BY <2>1, <2>2, <1>4, <1>7, <1>10
<1> QED
    BY <1>1, <1>4, <1>5, <1>6, <1>8, <1>9, <1>10 DEF b, l2

\* The first batch is done with, and was appended to the log or not.
LEMMA OrderedNext ==
    ASSUME NEW q \in Seq(Batch), NEW l \in Seq(Txns), Ordered(q, l), q # <<>>,
           NEW l2 \in {l, l \o q[1].txns}
    PROVE  Ordered(Tail(q), l2)
<1> DEFINE rest == Tail(q)
<1>1. /\ Len(q) \in Nat \ {0} /\ rest \in Seq(Batch) /\ Len(rest) = Len(q) - 1
      /\ \A i \in 1 .. Len(q) - 1 : rest[i] = q[i + 1]
      /\ DOMAIN q = 1 .. Len(q)
    BY TailFacts
<1> HIDE DEF rest
<1>2. \A j \in DOMAIN rest : j + 1 \in DOMAIN q /\ j + 1 # 1 /\ rest[j] = q[j + 1] /\ j \in Int
    BY <1>1
<1>3. /\ InOrder(l2)
      /\ \A t \in Txns : Copies(l2, t) <= Retries + 1
      /\ \A j \in DOMAIN q : j # 1 =>
            Newer(q[j], l2) /\ \A t \in Elems(q[j]) : Copies(l2, t) <= q[j].tries
  <2>1. CASE l2 = l
      BY <2>1, AppendedFacts DEF Ordered
  <2>2. CASE l2 = l \o q[1].txns
      BY <2>2, AppendedFacts
  <2> QED
      BY <2>1, <2>2
<1>4. \A j \in DOMAIN rest : Ascending(rest[j])
    BY <1>2 DEF Ordered
<1>5. ASSUME NEW i \in DOMAIN rest, NEW j \in DOMAIN rest, i < j
      PROVE  \A x \in Elems(rest[i]), y \in Elems(rest[j]) : x < y
  <2>1. i + 1 < j + 1
      BY <1>2, <1>5
  <2> QED
      BY <2>1, <1>2 DEF Ordered
<1>6. \A j \in DOMAIN rest :
          Newer(rest[j], l2) /\ \A t \in Elems(rest[j]) : Copies(l2, t) <= rest[j].tries
    BY <1>2, <1>3
<1> QED
    BY <1>3, <1>4, <1>5, <1>6 DEF Ordered, rest

\* The first batch is tried again, and was appended to the log or not.
LEMMA OrderedAgain ==
    ASSUME NEW q \in Seq(Batch), NEW l \in Seq(Txns), Ordered(q, l), q # <<>>,
           q[1].tries < Retries,
           NEW l2 \in {l, l \o q[1].txns},
           NEW again \in Seq(Batch), Len(again) = Len(q),
           again[1].txns = q[1].txns, again[1].tries = q[1].tries + 1,
           \A i \in 2 .. Len(q) : again[i] = q[i]
    PROVE  Ordered(again, l2)
<1>1. /\ q[1] \in Batch /\ 1 \in DOMAIN q /\ DOMAIN q = 1 .. Len(q) /\ Len(q) \in Nat \ {0}
      /\ DOMAIN again = DOMAIN q
    BY AppendedFacts
<1>2. q[1].tries \in 0 .. Retries /\ Elems(q[1]) \subseteq Txns /\ l \in Seq(Txns)
    BY <1>1, BatchFacts
<1>3. \A j \in DOMAIN q : j # 1 => again[j] = q[j]
    BY <1>1
<1>4. Elems(again[1]) = Elems(q[1]) /\ (Ascending(again[1]) <=> Ascending(q[1]))
    BY DEF Elems, Ascending
<1>5. \A j \in DOMAIN q : Elems(again[j]) = Elems(q[j]) /\ (Ascending(again[j]) <=> Ascending(q[j]))
    BY <1>3, <1>4
<1>6. \A j \in DOMAIN q : Ascending(again[j])
    BY <1>5 DEF Ordered
<1>7. \A i, j \in DOMAIN q : i < j => \A x \in Elems(again[i]), y \in Elems(again[j]) : x < y
    BY <1>5 DEF Ordered
<1>8. /\ InOrder(l2)
      /\ \A t \in Txns : Copies(l2, t) <= Retries + 1
      /\ \A j \in DOMAIN q : j # 1 =>
            Newer(q[j], l2) /\ \A t \in Elems(q[j]) : Copies(l2, t) <= q[j].tries
  <2>1. CASE l2 = l
      BY <2>1, AppendedFacts DEF Ordered
  <2>2. CASE l2 = l \o q[1].txns
      BY <2>2, AppendedFacts
  <2> QED
      BY <2>1, <2>2
<1>9. /\ Newer(again[1], l2) \/ Repeated(again[1], l2)
      /\ \A t \in Elems(again[1]) : Copies(l2, t) <= again[1].tries
  <2>1. CASE l2 = l
    <3>1. Newer(again[1], l) \/ Repeated(again[1], l)
      <4>1. CASE Newer(q[1], l)
          BY <4>1, <1>4 DEF Newer
      <4>2. CASE Repeated(q[1], l)
          BY <4>2, <1>2, <1>4 DEF Repeated
      <4> QED
          BY <4>1, <4>2, <1>1 DEF Ordered
    <3>2. ASSUME NEW t \in Elems(q[1]) PROVE Copies(l, t) <= q[1].tries + 1
      <4>1. Copies(l, t) <= q[1].tries
          BY <1>1 DEF Ordered
      <4>2. Copies(l, t) \in Nat
          BY <1>1, <1>2, CopiesGrow DEF Ordered
      <4> QED
          BY <4>1, <4>2, <1>2
    <3> QED
        BY <3>1, <3>2, <2>1, <1>4
  <2>2. CASE l2 = l \o q[1].txns
    <3>1. Elems(q[1]) \subseteq Range(l2)
        BY <2>2, AppendedFacts
    <3>2. Repeated(again[1], l2)
        BY <3>1, <1>2, <1>4 DEF Repeated
    <3>3. \A t \in Elems(q[1]) : Copies(l2, t) <= q[1].tries + 1
        BY <2>2, AppendedFacts
    <3> QED
        BY <3>2, <3>3, <1>4
  <2> QED
      BY <2>1, <2>2
<1>10. \A j \in DOMAIN q : /\ Newer(again[j], l2) \/ (j = 1 /\ Repeated(again[j], l2))
                           /\ \A t \in Elems(again[j]) : Copies(l2, t) <= again[j].tries
    BY <1>3, <1>8, <1>9
<1> QED
    BY <1>1, <1>6, <1>7, <1>8, <1>10 DEF Ordered

-----------------------------------------------------------------------------
\* How a record joins a batch or starts one.

LEMMA NoCopies ==
    ASSUME NEW l \in Seq(Txns), NEW t \in Txns, t \notin Range(l)
    PROVE  Copies(l, t) = 0
<1>1. {i \in DOMAIN l : l[i] = t} = {}
    BY RangeFacts
<1> QED
    BY <1>1, FS_EmptySet DEF Copies

LEMMA NewBatch ==
    ASSUME NEW t \in Txns
    PROVE  /\ [txns |-> <<t>>, tries |-> 0] \in Batch
           /\ Elems([txns |-> <<t>>, tries |-> 0]) = {t}
           /\ Ascending([txns |-> <<t>>, tries |-> 0])
<1> DEFINE b == [txns |-> <<t>>, tries |-> 0]
<1>1. b.txns = <<t>> /\ <<t>> \in Seq(Txns) /\ DOMAIN <<t>> = {1} /\ <<t>>[1] = t
    OBVIOUS
<1>2. b \in Batch
    BY <1>1, ReplayAssumption DEF Batch
<1>3. Elems(b) = {t}
    BY <1>1 DEF Elems, Range
<1>4. Ascending(b)
    BY <1>1 DEF Ascending
<1> QED
    BY <1>2, <1>3, <1>4

LEMMA LongerBatch ==
    ASSUME NEW b \in Batch, NEW t \in Txns, NEW b2,
           b2 = [b EXCEPT !.txns = Append(@, t)]
    PROVE  /\ b2 \in Batch /\ b2.tries = b.tries
           /\ Elems(b2) = Elems(b) \union {t}
           /\ Ascending(b) /\ (\A x \in Elems(b) : x < t) => Ascending(b2)
<1>1. b.txns \in Seq(Txns) /\ \A i \in 1 .. Len(b.txns) : b.txns[i] \in Elems(b)
    BY BatchFacts
<1>2. /\ Append(b.txns, t) \in Seq(Txns)
      /\ Len(Append(b.txns, t)) = Len(b.txns) + 1 /\ Len(b.txns) \in Nat
      /\ \A i \in 1 .. Len(b.txns) : Append(b.txns, t)[i] = b.txns[i]
      /\ Append(b.txns, t)[Len(b.txns) + 1] = t
    BY <1>1, AppendFacts
<1>3. b2 \in Batch /\ b2.tries = b.tries /\ b2.txns = Append(b.txns, t)
    BY <1>2 DEF Batch
<1>4. Elems(b2) = Elems(b) \union {t}
    BY <1>1, <1>3, RangeAppend DEF Elems
<1>5. ASSUME Ascending(b), \A x \in Elems(b) : x < t PROVE Ascending(b2)
  <2> SUFFICES ASSUME NEW i \in 1 .. Len(b.txns) + 1, NEW j \in 1 .. Len(b.txns) + 1, i < j
               PROVE b2.txns[i] < b2.txns[j]
      BY <1>2, <1>3 DEF Ascending
  <2>1. i \in 1 .. Len(b.txns) /\ b2.txns[i] = b.txns[i]
      BY <1>2, <1>3
  <2>2. CASE j = Len(b.txns) + 1
      BY <2>1, <2>2, <1>1, <1>2, <1>3, <1>5
  <2>3. CASE j \in 1 .. Len(b.txns)
      BY <2>1, <2>3, <1>1, <1>2, <1>3, <1>5 DEF Ascending
  <2> QED
      BY <2>2, <2>3, <1>2
<1> QED
    BY <1>3, <1>4, <1>5

\* The transactions of the batches, as they come and go.
LEMMA TxnsOfFacts ==
    ASSUME NEW q \in Seq(Batch)
    PROVE  /\ TxnsOf(q) \subseteq Txns
           /\ \A j \in DOMAIN q : q[j] \in Batch /\ Elems(q[j]) \subseteq TxnsOf(q)
           /\ \A t \in TxnsOf(q) : \E j \in DOMAIN q : t \in Elems(q[j])
<1>1. \A j \in DOMAIN q : q[j] \in Batch
    OBVIOUS
<1>2. \A j \in DOMAIN q : Elems(q[j]) \subseteq Txns
    BY <1>1, BatchFacts
<1> QED
    BY <1>1, <1>2 DEF TxnsOf

LEMMA StartedFacts ==
    ASSUME NEW q \in Seq(Batch), NEW t \in Txns
    PROVE  /\ Started(q, t) \in Seq(Batch)
           /\ TxnsOf(Started(q, t)) = TxnsOf(q) \union {t}
           /\ DOMAIN q = 1 .. Len(q) /\ Len(q) \in Nat
           /\ DOMAIN Started(q, t) = 1 .. Len(q) + 1
           /\ \A j \in 1 .. Len(q) : Started(q, t)[j] = q[j]
           /\ Started(q, t)[Len(q) + 1] = [txns |-> <<t>>, tries |-> 0]
<1> DEFINE b == [txns |-> <<t>>, tries |-> 0]
           longer == Append(q, b)
<1>1. b \in Batch /\ Elems(b) = {t}
    BY NewBatch
<1> HIDE DEF b
<1>2. /\ longer \in Seq(Batch) /\ Len(longer) = Len(q) + 1 /\ Len(q) \in Nat
      /\ \A j \in 1 .. Len(q) : longer[j] = q[j]
      /\ longer[Len(q) + 1] = b
    BY <1>1, AppendFacts
<1> HIDE DEF longer
<1>3. /\ DOMAIN q = 1 .. Len(q)
      /\ DOMAIN longer = (1 .. Len(q)) \union {Len(q) + 1}
      /\ DOMAIN longer = 1 .. Len(q) + 1
    BY <1>2
<1>4. TxnsOf(longer) = TxnsOf(q) \union {t}
  <2>1. ASSUME NEW x \in TxnsOf(longer) PROVE x \in TxnsOf(q) \union {t}
    <3>1. PICK j \in DOMAIN longer : x \in Elems(longer[j])
        BY <1>2, TxnsOfFacts
    <3>2. CASE j \in 1 .. Len(q)
        BY <3>1, <3>2, <1>2, <1>3 DEF TxnsOf
    <3>3. CASE j = Len(q) + 1
        BY <3>1, <3>3, <1>1, <1>2
    <3> QED
        BY <3>2, <3>3, <1>3
  <2>2. TxnsOf(q) \subseteq TxnsOf(longer)
      BY <1>2, <1>3 DEF TxnsOf
  <2>3. t \in TxnsOf(longer)
      BY <1>1, <1>2, <1>3 DEF TxnsOf
  <2> QED
      BY <2>1, <2>2, <2>3
<1> QED
    BY <1>2, <1>3, <1>4 DEF Started, longer, b

LEMMA JoinedFacts ==
    ASSUME NEW q \in Seq(Batch), NEW t \in Txns, q # <<>>
    PROVE  /\ Joined(q, t) \in Seq(Batch)
           /\ TxnsOf(Joined(q, t)) = TxnsOf(q) \union {t}
           /\ DOMAIN q = 1 .. Len(q) /\ Len(q) \in Nat \ {0}
           /\ DOMAIN Joined(q, t) = 1 .. Len(q)
           /\ \A j \in 1 .. Len(q) - 1 : Joined(q, t)[j] = q[j]
           /\ q[Len(q)] \in Batch
           /\ Joined(q, t)[Len(q)] = [q[Len(q)] EXCEPT !.txns = Append(@, t)]
<1> DEFINE n == Len(q)
           b2 == [q[n] EXCEPT !.txns = Append(@, t)]
           longer == [q EXCEPT ![n] = b2]
<1>1. n \in Nat \ {0} /\ DOMAIN q = 1 .. n /\ q[n] \in Batch
    BY TailFacts
<1> HIDE DEF n
<1>2. b2 \in Batch /\ Elems(b2) = Elems(q[n]) \union {t}
    BY <1>1, LongerBatch
<1> HIDE DEF b2
<1>3. /\ longer \in Seq(Batch) /\ DOMAIN longer = 1 .. n
      /\ longer[n] = b2 /\ \A j \in 1 .. n - 1 : longer[j] = q[j]
  <2>1. q \in [1 .. n -> Batch]
      BY <1>1 DEF n
  <2>2. longer \in [1 .. n -> Batch]
      BY <2>1, <1>2
  <2>3. longer[n] = b2 /\ \A j \in 1 .. n - 1 : longer[j] = q[j]
      BY <2>1, <1>1
  <2>4. longer \in Seq(Batch)
      BY <2>2, <1>1
  <2> QED
      BY <2>2, <2>3, <2>4
<1> HIDE DEF longer
<1>4. TxnsOf(longer) = TxnsOf(q) \union {t}
  <2>1. \A j \in 1 .. n : j = n \/ j \in 1 .. n - 1
      BY <1>1
  <2>2. ASSUME NEW x \in TxnsOf(longer) PROVE x \in TxnsOf(q) \union {t}
    <3>1. PICK j \in 1 .. n : x \in Elems(longer[j])
        BY <1>3, TxnsOfFacts
    <3>2. CASE j \in 1 .. n - 1
        BY <3>1, <3>2, <1>1, <1>3 DEF TxnsOf
    <3>3. CASE j = n
        BY <3>1, <3>3, <1>1, <1>2, <1>3 DEF TxnsOf
    <3> QED
        BY <3>2, <3>3, <2>1
  <2>3. ASSUME NEW x \in TxnsOf(q) PROVE x \in TxnsOf(longer)
    <3>1. PICK j \in 1 .. n : x \in Elems(q[j])
        BY <1>1, TxnsOfFacts
    <3>2. x \in Elems(longer[j])
        BY <3>1, <2>1, <1>2, <1>3
    <3> QED
        BY <3>2, <1>3 DEF TxnsOf
  <2>4. n \in DOMAIN longer /\ t \in Elems(longer[n])
      BY <1>1, <1>2, <1>3
  <2>5. t \in TxnsOf(longer)
      BY <2>4 DEF TxnsOf
  <2> QED
      BY <2>2, <2>3, <2>5
<1>5. Joined(q, t) = longer
    BY DEF Joined, longer, b2, n
<1> QED
    BY <1>1, <1>3, <1>4, <1>5 DEF b2, n

\* A transaction that is newer than all of them is queued.
LEMMA OrderedStarted ==
    ASSUME NEW q \in Seq(Batch), NEW l \in Seq(Txns), Ordered(q, l),
           NEW t \in Txns,
           \A x \in TxnsOf(q) : x < t,
           \A x \in Range(l) : x < t
    PROVE  Ordered(Started(q, t), l)
<1> DEFINE n == Len(q) + 1
           b == [txns |-> <<t>>, tries |-> 0]
           longer == Started(q, t)
<1>1. /\ DOMAIN q = 1 .. Len(q) /\ Len(q) \in Nat
      /\ DOMAIN longer = 1 .. n
      /\ \A j \in 1 .. Len(q) : longer[j] = q[j]
      /\ longer[n] = b
    BY StartedFacts
<1>2. Elems(b) = {t} /\ Ascending(b) /\ b.tries = 0
    BY NewBatch
<1>3. \A j \in DOMAIN longer : j = n \/ (j \in DOMAIN q /\ longer[j] = q[j] /\ j < n)
    BY <1>1
<1>4. Newer(b, l)
    BY <1>2 DEF Newer
<1>5. Copies(l, t) = 0
  <2>1. t \notin Range(l)
    <3>1. ~(t < t)
        BY TxnsAreNumbers
    <3> QED
        BY <3>1
  <2> QED
      BY <2>1, NoCopies
<1> HIDE DEF longer, b, n
<1>6. \A j \in DOMAIN longer : Ascending(longer[j])
    BY <1>1, <1>2, <1>3 DEF Ordered
<1>7. ASSUME NEW i \in DOMAIN longer, NEW j \in DOMAIN longer, i < j,
             NEW x \in Elems(longer[i]), NEW y \in Elems(longer[j])
      PROVE  x < y
  <2>1. i \in DOMAIN q /\ longer[i] = q[i]
      BY <1>1, <1>3, <1>7 DEF n
  <2>2. CASE j = n
    <3>1. x \in TxnsOf(q)
        BY <2>1, <1>7, TxnsOfFacts
    <3> QED
        BY <3>1, <2>2, <1>1, <1>2, <1>7
  <2>3. CASE j \in DOMAIN q /\ longer[j] = q[j]
      BY <2>1, <2>3, <1>7 DEF Ordered
  <2> QED
      BY <2>2, <2>3, <1>3
<1>8. \A j \in DOMAIN longer : Newer(longer[j], l) \/ (j = 1 /\ Repeated(longer[j], l))
    BY <1>1, <1>3, <1>4 DEF Ordered
<1>9. \A j \in DOMAIN longer : \A x \in Elems(longer[j]) : Copies(l, x) <= longer[j].tries
  <2>1. \A x \in Elems(b) : Copies(l, x) <= b.tries
      BY <1>2, <1>5
  <2> QED
      BY <2>1, <1>1, <1>3 DEF Ordered
<1>10. InOrder(l) /\ \A x \in Txns : Copies(l, x) <= Retries + 1
    BY DEF Ordered
<1> QED
    BY <1>6, <1>7, <1>8, <1>9, <1>10 DEF Ordered, longer

LEMMA OrderedJoined ==
    ASSUME NEW q \in Seq(Batch), NEW l \in Seq(Txns), Ordered(q, l),
           NEW t \in Txns, q # <<>>, q[Len(q)].tries = 0,
           \A x \in TxnsOf(q) : x < t,
           \A x \in Range(l) : x < t
    PROVE  Ordered(Joined(q, t), l)
<1> DEFINE n == Len(q)
           b == q[n]
           b2 == [b EXCEPT !.txns = Append(@, t)]
           longer == Joined(q, t)
<1>1. /\ DOMAIN q = 1 .. n /\ n \in Nat \ {0}
      /\ DOMAIN longer = 1 .. n
      /\ \A j \in 1 .. n - 1 : longer[j] = q[j]
      /\ longer[n] = b2 /\ b \in Batch /\ b.tries = 0
    BY JoinedFacts
<1>2. b2.tries = 0 /\ Elems(b2) = Elems(b) \union {t} /\ Ascending(b2)
  <2>1. Ascending(b) /\ \A x \in Elems(b) : x < t
      BY <1>1, TxnsOfFacts DEF Ordered
  <2> HIDE DEF b
  <2> QED
      BY <2>1, <1>1, LongerBatch
<1>3. \A j \in DOMAIN longer : j = n \/ (j \in DOMAIN q /\ longer[j] = q[j] /\ j < n)
    BY <1>1
<1>4. Newer(b2, l)
  <2>1. n \in DOMAIN q /\ ~Repeated(b, l)
      BY <1>1 DEF Repeated
  <2>2. Newer(b, l)
      BY <2>1 DEF Ordered
  <2> QED
      BY <2>2, <1>2 DEF Newer
<1>5. Copies(l, t) = 0 /\ \A x \in Elems(b) : Copies(l, x) <= 0
  <2>1. t \notin Range(l)
    <3>1. ~(t < t)
        BY TxnsAreNumbers
    <3> QED
        BY <3>1
  <2>2. \A x \in Elems(b) : Copies(l, x) <= b.tries
      BY <1>1 DEF Ordered
  <2> QED
      BY <2>1, <2>2, <1>1, NoCopies
<1> HIDE DEF longer, b2
<1>6. \A j \in DOMAIN longer : Ascending(longer[j])
    BY <1>1, <1>2, <1>3 DEF Ordered
<1>7. ASSUME NEW i \in DOMAIN longer, NEW j \in DOMAIN longer, i < j,
             NEW x \in Elems(longer[i]), NEW y \in Elems(longer[j])
      PROVE  x < y
  <2> HIDE DEF n
  <2>1. i \in DOMAIN q /\ longer[i] = q[i]
      BY <1>1, <1>3, <1>7
  <2>2. CASE j = n
    <3>1. x \in TxnsOf(q)
        BY <2>1, <1>7, TxnsOfFacts
    <3>2. y = t \/ y \in Elems(b)
        BY <2>2, <1>1, <1>2, <1>7
    <3>3. CASE y \in Elems(b)
        BY <3>3, <2>1, <2>2, <1>1, <1>7 DEF Ordered
    <3> QED
        BY <3>1, <3>2, <3>3
  <2>3. CASE j \in DOMAIN q /\ longer[j] = q[j]
      BY <2>1, <2>3, <1>7 DEF Ordered
  <2> QED
      BY <2>2, <2>3, <1>3
<1> HIDE DEF b
<1>8. \A j \in DOMAIN longer : Newer(longer[j], l) \/ (j = 1 /\ Repeated(longer[j], l))
    BY <1>1, <1>3, <1>4 DEF Ordered
<1>9. \A j \in DOMAIN longer : \A x \in Elems(longer[j]) : Copies(l, x) <= longer[j].tries
  <2>1. \A x \in Elems(b2) : Copies(l, x) <= b2.tries
      BY <1>2, <1>5
  <2> QED
      BY <2>1, <1>1, <1>3 DEF Ordered
<1>10. InOrder(l) /\ \A x \in Txns : Copies(l, x) <= Retries + 1
    BY DEF Ordered
<1> QED
    BY <1>6, <1>7, <1>8, <1>9, <1>10 DEF Ordered, longer

LEMMA TxnsOfTail ==
    ASSUME NEW q \in Seq(Batch), NEW l \in Seq(Txns), Ordered(q, l), q # <<>>
    PROVE  /\ Elems(q[1]) \subseteq TxnsOf(q)
           /\ TxnsOf(Tail(q)) \subseteq TxnsOf(q) \ Elems(q[1])
<1>1. /\ Len(q) \in Nat \ {0} /\ Tail(q) \in Seq(Batch)
      /\ Len(Tail(q)) = Len(q) - 1 /\ \A i \in 1 .. Len(q) - 1 : Tail(q)[i] = q[i + 1]
    BY TailFacts
<1>2. DOMAIN q = 1 .. Len(q) /\ DOMAIN Tail(q) = 1 .. Len(q) - 1 /\ 1 \in DOMAIN q
    BY <1>1
<1>3. ASSUME NEW t \in TxnsOf(Tail(q))
      PROVE t \in TxnsOf(q) \ Elems(q[1])
  <2>1. PICK i \in DOMAIN Tail(q) : t \in Elems(Tail(q)[i])
      BY <1>1, TxnsOfFacts
  <2>2. i + 1 \in DOMAIN q /\ 1 < i + 1 /\ Tail(q)[i] = q[i + 1]
      BY <1>1, <1>2
  <2>3. t \in TxnsOf(q) /\ t \in Txns
      BY <2>1, <2>2, TxnsOfFacts
  <2>4. \A x \in Elems(q[1]) : x < t
      BY <2>1, <2>2, <1>2 DEF Ordered
  <2>5. ~(t < t)
      BY <2>3, TxnsAreNumbers
  <2> QED
      BY <2>3, <2>4, <2>5
<1> QED
    BY <1>2, <1>3, TxnsOfFacts

-----------------------------------------------------------------------------
\* Each action preserves the invariant.

Topics == Partitions \union {Dlq}

LEMMA PartitionFacts ==
    /\ \A p \in Partitions : p \in Topics /\ p # Dlq
    /\ \A t \in Txns : PartitionOf(t) \in Partitions
    /\ N \in Nat /\ Retries \in Nat
BY ReplayAssumption DEF Topics, Txns

\* TypeOK, of one partition.
LEMMA Types ==
    ASSUME TypeOK
    PROVE  /\ \A p \in Topics : queue[p] \in Seq(Batch) /\ log[p] \in Seq(Txns)
           /\ DOMAIN queue = Topics /\ DOMAIN log = Topics
           /\ next \in 1 .. N + 1 /\ next \in Int
           /\ DOMAIN future = Txns
BY ReplayAssumption DEF TypeOK, Topics

LEMMA InitInv == Init => IInv
<1> SUFFICES ASSUME Init PROVE IInv
    OBVIOUS
<1>1. TypeOK
    BY ReplayAssumption DEF Init, TypeOK, Txns
<1>2. ControlInv
    BY DEF Init, ControlInv, LogOnly
<1>3. OrderInv /\ PlaceInv
  <2>1. \A t \in Txns : Copies(<<>>, t) = 0
    <3>1. <<>> \in Seq(Txns) /\ Range(<<>>) = {}
        BY DEF Range
    <3> QED
        BY <3>1, NoCopies
  <2>2. \A p \in Partitions : queue[p] = <<>> /\ log[p] = <<>>
      BY DEF Init
  <2>3. Ordered(<<>>, <<>>)
      BY <2>1, ReplayAssumption DEF Ordered, InOrder
  <2> QED
      BY <2>2, <2>3 DEF OrderInv, PlaceInv, TxnsOf, Range
<1>4. OutcomeInv
    BY DEF Init, OutcomeInv, Txns
<1> QED
    BY <1>1, <1>2, <1>3, <1>4 DEF IInv

\* What the sender thread does with one partition: the queue becomes q and the
\* log l, and the head of the queue is still queued or is resolved.
LEMMA SenderStep ==
    ASSUME IInv, NEW p \in Topics, queue[p] # <<>>,
           NEW q \in Seq(Batch), NEW l \in Seq(Txns), NEW E, E = Elems(queue[p][1]),
           UNCHANGED <<phase, next, sentCount, failures>>,
           queue' = [queue EXCEPT ![p] = q],
           log' = [log EXCEPT ![p] = l],
           future' \in [Txns -> {"none", "pending", "done", "failed"}],
           Range(log[p]) \subseteq Range(l),
           Range(l) \subseteq Range(log[p]) \union E,
           p \in Partitions => Ordered(q, l),
           p \in Partitions =>
               \/ future' = future /\ TxnsOf(q) \subseteq TxnsOf(queue[p])
               \/ /\ \A t \in Txns : t \notin E => future'[t] = future[t]
                  /\ \A t \in E : future'[t] = "done" => t \in Range(l)
                  /\ TxnsOf(q) \subseteq TxnsOf(queue[p]) \ E,
           p = Dlq => future' = future
    PROVE  IInv'
<1>1. /\ \A r \in Topics : queue[r] \in Seq(Batch) /\ log[r] \in Seq(Txns)
      /\ DOMAIN queue = Topics /\ DOMAIN log = Topics /\ TypeOK
    BY Types DEF IInv
<1>2. /\ queue'[p] = q /\ log'[p] = l
      /\ \A r \in Topics : r # p => queue'[r] = queue[r] /\ log'[r] = log[r]
    BY <1>1
<1>3. phase \notin {"start", "complete"}
    BY DEF IInv, ControlInv, Topics
<1>4. TypeOK'
  <2>1. queue' \in [Topics -> Seq(Batch)] /\ log' \in [Topics -> Seq(Txns)]
      BY <1>1 DEF TypeOK, Topics
  <2> QED
      BY <2>1, <1>1 DEF TypeOK, Topics
<1>5. ControlInv'
    BY <1>3 DEF IInv, ControlInv
<1>6. OrderInv'
    BY <1>2, PartitionFacts DEF IInv, OrderInv
<1>7. p \in Partitions => E \subseteq TxnsOf(queue[p]) /\ E \subseteq Txns
  <2> SUFFICES ASSUME p \in Partitions PROVE E \subseteq TxnsOf(queue[p]) /\ E \subseteq Txns
      OBVIOUS
  <2>1. Ordered(queue[p], log[p])
      BY DEF IInv, OrderInv
  <2> QED
      BY <2>1, <1>1, TxnsOfTail, TxnsOfFacts
<1>8. p \in Partitions => \A t \in E : PartitionOf(t) = p /\ future[t] = "pending" /\ Sent(t)
    BY <1>7 DEF IInv, PlaceInv
<1>9. \A t : Sent(t)' <=> Sent(t)
    BY DEF Sent
<1>10. PlaceInv'
  <2> SUFFICES ASSUME NEW r \in Partitions
               PROVE /\ \A t \in TxnsOf(queue'[r]) :
                            PartitionOf(t) = r /\ future'[t] = "pending" /\ Sent(t)'
                     /\ \A t \in Range(log'[r]) : Sent(t)'
      BY DEF PlaceInv
  <2>1. /\ \A t \in TxnsOf(queue[r]) : PartitionOf(t) = r /\ future[t] = "pending" /\ Sent(t)
        /\ \A t \in Range(log[r]) : Sent(t)
      BY DEF IInv, PlaceInv
  <2>2. TxnsOf(queue[r]) \subseteq Txns /\ r \in Topics
      BY <1>1, PartitionFacts, TxnsOfFacts
  <2>3. CASE r = p
    <3>1. \A t \in TxnsOf(q) : t \in TxnsOf(queue[r]) /\ future'[t] = future[t]
        BY <2>2, <2>3
    <3>2. \A t \in Range(l) : t \in Range(log[r]) \/ t \in E
        BY <2>3
    <3> QED
        BY <3>1, <3>2, <2>1, <2>3, <1>2, <1>8, <1>9
  <2>4. CASE r # p
    <3>1. queue'[r] = queue[r] /\ log'[r] = log[r]
        BY <1>2, <2>2, <2>4
    <3>2. ASSUME NEW t \in TxnsOf(queue[r]) PROVE future'[t] = future[t]
      <4>1. CASE p = Dlq
          BY <4>1
      <4>2. CASE p \in Partitions
        <5>1. t \notin E /\ t \in Txns
            BY <4>2, <2>1, <2>2, <2>4, <1>8
        <5> QED
            BY <5>1, <4>2
      <4> QED
          BY <4>1, <4>2 DEF Topics
    <3> QED
        BY <3>1, <3>2, <2>1, <1>9
  <2> QED
      BY <2>3, <2>4
<1>11. OutcomeInv'
  <2>1. ASSUME NEW t \in Txns, future'[t] = "done" PROVE t \in Range(log'[PartitionOf(t)])
    <3>1. PartitionOf(t) \in Topics /\ PartitionOf(t) \in Partitions /\ PartitionOf(t) # Dlq
        BY PartitionFacts
    <3>2. CASE future[t] = "done"
      <4>1. t \in Range(log[PartitionOf(t)])
          BY <3>2 DEF IInv, OutcomeInv
      <4> QED
          BY <4>1, <3>1, <1>2
    <3>3. CASE future[t] # "done"
      <4>1. p \in Partitions /\ t \in E /\ t \in Range(l)
          BY <3>3, <2>1 DEF Topics
      <4> QED
          BY <4>1, <1>2, <1>8
    <3> QED
        BY <3>2, <3>3
  <2>2. ASSUME NEW t \in Txns, t < next' PROVE t \in failures' \/ future'[t] = "done"
    <3>1. t \in failures \/ future[t] = "done"
        BY <2>2, <1>3 DEF IInv, OutcomeInv
    <3>2. future[t] = "done" => future'[t] = "done"
      <4> SUFFICES ASSUME future[t] = "done" PROVE future'[t] = "done"
          OBVIOUS
      <4>1. CASE p \in Partitions
          BY <4>1, <1>8
      <4> QED
          BY <4>1 DEF Topics
    <3> QED
        BY <3>1, <3>2
  <2> QED
      BY <2>1, <2>2 DEF OutcomeInv
<1> QED
    BY <1>4, <1>5, <1>6, <1>10, <1>11 DEF IInv

\* The head of a partition's queue, before the sender handles it.
LEMMA HeadFacts ==
    ASSUME IInv, NEW p \in Topics, queue[p] # <<>>
    PROVE  /\ queue[p] \in Seq(Batch) /\ log[p] \in Seq(Txns)
           /\ Head(queue[p]) = queue[p][1] /\ queue[p][1] \in Batch
           /\ Elems(queue[p][1]) \subseteq Txns
           /\ Tail(queue[p]) \in Seq(Batch)
           /\ future \in [Txns -> {"none", "pending", "done", "failed"}]
           /\ log[p] \o queue[p][1].txns \in Seq(Txns)
           /\ Range(log[p] \o queue[p][1].txns) = Range(log[p]) \union Elems(queue[p][1])
           /\ p \in Partitions => Ordered(queue[p], log[p])
           /\ p \in Partitions => p # Dlq
<1>1. queue[p] \in Seq(Batch) /\ log[p] \in Seq(Txns)
    BY Types DEF IInv
<1>2. Head(queue[p]) = queue[p][1] /\ queue[p][1] \in Batch /\ Tail(queue[p]) \in Seq(Batch)
    BY <1>1, TailFacts
<1>3. /\ queue[p][1].txns \in Seq(Txns) /\ Elems(queue[p][1]) \subseteq Txns
      /\ Elems(queue[p][1]) = Range(queue[p][1].txns)
    BY <1>2, BatchFacts
<1>4. /\ log[p] \o queue[p][1].txns \in Seq(Txns)
      /\ Range(log[p] \o queue[p][1].txns) = Range(log[p]) \union Elems(queue[p][1])
    BY <1>1, <1>3, ConcatFacts, RangeConcat
<1>5. p \in Partitions => Ordered(queue[p], log[p]) /\ p # Dlq
    BY PartitionFacts DEF IInv, OrderInv
<1> QED
    BY <1>1, <1>2, <1>3, <1>4, <1>5 DEF IInv, TypeOK

\* The head of the queue is resolved: its log l is as before or has it appended.
LEMMA ResolvedInv ==
    ASSUME IInv, NEW p \in Topics, queue[p] # <<>>,
           NEW l \in {log[p], log[p] \o queue[p][1].txns},
           NEW outcome \in {"done", "failed"},
           outcome = "done" => l = log[p] \o queue[p][1].txns,
           UNCHANGED <<phase, next, sentCount, failures>>,
           queue' = [queue EXCEPT ![p] = Tail(@)],
           log' = [log EXCEPT ![p] = l],
           Resolve(p, Head(queue[p]), outcome)
    PROVE  IInv'
<1> DEFINE E == Elems(queue[p][1])
           q == Tail(queue[p])
<1>1. /\ queue[p] \in Seq(Batch) /\ log[p] \in Seq(Txns) /\ E \subseteq Txns
      /\ q \in Seq(Batch) /\ Head(queue[p]) = queue[p][1]
      /\ future \in [Txns -> {"none", "pending", "done", "failed"}]
      /\ log[p] \o queue[p][1].txns \in Seq(Txns)
      /\ Range(log[p] \o queue[p][1].txns) = Range(log[p]) \union E
      /\ p \in Partitions => Ordered(queue[p], log[p])
      /\ p \in Partitions => p # Dlq
    BY HeadFacts
<1>2. p \in Partitions => Ordered(q, l)
    BY <1>1, OrderedNext
<1>3. p \in Partitions => TxnsOf(q) \subseteq TxnsOf(queue[p]) \ E
    BY <1>1, TxnsOfTail
<1>4. queue' = [queue EXCEPT ![p] = q]
    OBVIOUS
<1>5. future' = IF p = Dlq THEN future
                ELSE [t \in Txns |-> IF t \in E THEN outcome ELSE future[t]]
    BY <1>1 DEF Resolve
<1>6. /\ l \in Seq(Txns)
      /\ Range(log[p]) \subseteq Range(l) /\ Range(l) \subseteq Range(log[p]) \union E
      /\ outcome = "done" => E \subseteq Range(l)
    BY <1>1
<1> HIDE DEF E, q
<1>7. /\ future' \in [Txns -> {"none", "pending", "done", "failed"}]
      /\ p = Dlq => future' = future
      /\ p # Dlq => \A t \in Txns : future'[t] = IF t \in E THEN outcome ELSE future[t]
    BY <1>1, <1>5
<1>8. p \in Partitions => /\ \A t \in Txns : t \notin E => future'[t] = future[t]
                          /\ \A t \in E : future'[t] = "done" => t \in Range(l)
    BY <1>1, <1>6, <1>7
<1> QED
    BY <1>1, <1>2, <1>3, <1>4, <1>6, <1>7, <1>8, SenderStep DEF E

\* The head of the queue keeps its place: its log l is as before or has it
\* appended.
LEMMA RetriedInv ==
    ASSUME IInv, NEW p \in Topics, queue[p] # <<>>, Head(queue[p]).tries < Retries,
           NEW l \in {log[p], log[p] \o queue[p][1].txns},
           UNCHANGED <<phase, next, sentCount, failures, future>>,
           queue' = [queue EXCEPT ![p] =
                        Requeued(Tail(@), [Head(queue[p]) EXCEPT !.tries = @ + 1])],
           log' = [log EXCEPT ![p] = l]
    PROVE  IInv'
<1> DEFINE b == queue[p][1]
           b2 == [b EXCEPT !.tries = @ + 1]
           q == Requeued(Tail(queue[p]), b2)
<1>1. /\ queue[p] \in Seq(Batch) /\ log[p] \in Seq(Txns)
      /\ Head(queue[p]) = b /\ b \in Batch
      /\ future \in [Txns -> {"none", "pending", "done", "failed"}]
      /\ log[p] \o b.txns \in Seq(Txns)
      /\ Range(log[p] \o b.txns) = Range(log[p]) \union Elems(b)
      /\ p \in Partitions => Ordered(queue[p], log[p])
      /\ p \in Partitions => p # Dlq
    BY HeadFacts
<1>2. b2 \in Batch /\ b2.txns = b.txns /\ b2.tries = b.tries + 1 /\ b.tries < Retries
  <2>1. b.tries < Retries
      BY <1>1
  <2> HIDE DEF b
  <2> QED
      BY <2>1, <1>1, ReplayAssumption DEF Batch
<1>3. queue' = [queue EXCEPT ![p] = q]
    BY <1>1
<1>4. /\ q \in Seq(Batch) /\ Len(q) = Len(queue[p]) /\ q[1] = b2
      /\ \A i \in 2 .. Len(queue[p]) : q[i] = queue[p][i]
  <2> HIDE DEF b2
  <2> DEFINE s == queue[p]
  <2>1. s \in Seq(Batch) /\ s # <<>> /\ b2 \in Batch
      BY <1>1, <1>2
  <2> HIDE DEF s
  <2>2. /\ Requeued(Tail(s), b2) \in Seq(Batch)
        /\ Len(Requeued(Tail(s), b2)) = Len(s)
        /\ Requeued(Tail(s), b2)[1] = b2
        /\ \A i \in 2 .. Len(s) : Requeued(Tail(s), b2)[i] = s[i]
      BY <2>1, RequeuedFacts
  <2> QED
      BY <2>2 DEF s
<1> HIDE DEF q, b2
<1>5. p \in Partitions => Ordered(q, l)
    BY <1>1, <1>2, <1>4, OrderedAgain DEF b
<1>6. TxnsOf(q) \subseteq TxnsOf(queue[p])
  <2> SUFFICES ASSUME NEW t \in TxnsOf(q) PROVE t \in TxnsOf(queue[p])
      OBVIOUS
  <2>1. PICK j \in DOMAIN q : t \in Elems(q[j])
      BY <1>4, TxnsOfFacts
  <2>2. j \in DOMAIN queue[p] /\ j \in 1 .. Len(queue[p])
      BY <1>1, <1>4
  <2>3. Elems(b2) = Elems(b)
      BY <1>2 DEF Elems
  <2>4. t \in Elems(queue[p][j])
    <3>1. CASE j = 1
        BY <3>1, <2>1, <2>3, <1>4 DEF b
    <3>2. CASE j # 1
        BY <3>2, <2>1, <2>2, <1>4
    <3> QED
        BY <3>1, <3>2
  <2> QED
      BY <2>2, <2>4, <1>1, TxnsOfFacts
<1>7. /\ l \in Seq(Txns)
      /\ Range(log[p]) \subseteq Range(l) /\ Range(l) \subseteq Range(log[p]) \union Elems(b)
    BY <1>1 DEF b
<1> QED
    BY <1>1, <1>3, <1>4, <1>5, <1>6, <1>7, SenderStep DEF b

LEMMA SenderInv ==
    ASSUME IInv, NEW p \in Topics, Sender(p)
    PROVE  IInv'
<1>1. queue[p] # <<>>
    BY DEF Sender, Deliver, LoseRequest, LoseAnswer, Expire
<1>2. log[p] \in Seq(Txns) /\ DOMAIN log = Topics /\ Head(queue[p]) = queue[p][1]
    BY <1>1, Types, HeadFacts DEF IInv
<1>3. log = [log EXCEPT ![p] = log[p]]
    BY <1>2, Types DEF IInv, TypeOK
<1>4. CASE Deliver(p)
    BY <1>1, <1>2, <1>4, ResolvedInv DEF Deliver, BrokerAppends
<1>5. ASSUME NEW l \in {log[p], log[p] \o queue[p][1].txns},
             RetryOrGiveUp(p), log' = [log EXCEPT ![p] = l],
             UNCHANGED <<phase, next, sentCount, failures>>
      PROVE  IInv'
  <2>1. CASE Head(queue[p]).tries < Retries
      BY <2>1, <1>1, <1>5, RetriedInv DEF RetryOrGiveUp
  <2>2. CASE ~(Head(queue[p]).tries < Retries)
      BY <2>2, <1>1, <1>5, ResolvedInv DEF RetryOrGiveUp, GiveUp
  <2> QED
      BY <2>1, <2>2
<1>6. CASE LoseRequest(p)
    BY <1>3, <1>5, <1>6 DEF LoseRequest
<1>7. CASE LoseAnswer(p)
    BY <1>2, <1>5, <1>7 DEF LoseAnswer, BrokerAppends
<1>8. CASE Expire(p)
    BY <1>1, <1>3, <1>8, ResolvedInv DEF Expire, GiveUp
<1> QED
    BY <1>4, <1>6, <1>7, <1>8 DEF Sender

LEMMA EnqueueFacts ==
    ASSUME TypeOK, NEW p \in Topics, NEW t \in Txns, Enqueue(p, t)
    PROVE  /\ queue' \in [Topics -> Seq(Batch)]
           /\ \A r \in Topics : r # p => queue'[r] = queue[r]
           /\ TxnsOf(queue'[p]) = TxnsOf(queue[p]) \union {t}
           /\ \A l \in Seq(Txns) :
                 /\ Ordered(queue[p], l)
                 /\ \A x \in TxnsOf(queue[p]) : x < t
                 /\ \A x \in Range(l) : x < t
                 => Ordered(queue'[p], l)
<1>1. queue \in [Topics -> Seq(Batch)] /\ queue[p] \in Seq(Batch)
    BY DEF TypeOK, Topics
<1>2. CASE queue' = [queue EXCEPT ![p] = Started(@, t)]
  <2>1. queue'[p] = Started(queue[p], t) /\ Started(queue[p], t) \in Seq(Batch)
      BY <1>1, <1>2, StartedFacts
  <2>2. TxnsOf(queue'[p]) = TxnsOf(queue[p]) \union {t}
      BY <2>1, <1>1, StartedFacts
  <2>3. ASSUME NEW l \in Seq(Txns), Ordered(queue[p], l),
               \A x \in TxnsOf(queue[p]) : x < t, \A x \in Range(l) : x < t
        PROVE  Ordered(queue'[p], l)
      BY <2>1, <2>3, <1>1, OrderedStarted
  <2>4. /\ queue' \in [Topics -> Seq(Batch)]
        /\ \A r \in Topics : r # p => queue'[r] = queue[r]
      BY <2>1, <1>1, <1>2
  <2> QED
      BY <2>2, <2>3, <2>4
<1>3. CASE /\ queue[p] # <<>> /\ queue[p][Len(queue[p])].tries = 0
           /\ queue' = [queue EXCEPT ![p] = Joined(@, t)]
  <2>1. queue'[p] = Joined(queue[p], t) /\ Joined(queue[p], t) \in Seq(Batch)
      BY <1>1, <1>3, JoinedFacts
  <2>2. TxnsOf(queue'[p]) = TxnsOf(queue[p]) \union {t}
      BY <2>1, <1>1, <1>3, JoinedFacts
  <2>3. ASSUME NEW l \in Seq(Txns), Ordered(queue[p], l),
               \A x \in TxnsOf(queue[p]) : x < t, \A x \in Range(l) : x < t
        PROVE  Ordered(queue'[p], l)
      BY <2>1, <2>3, <1>1, <1>3, OrderedJoined
  <2>4. /\ queue' \in [Topics -> Seq(Batch)]
        /\ \A r \in Topics : r # p => queue'[r] = queue[r]
      BY <2>1, <1>1, <1>3
  <2> QED
      BY <2>2, <2>3, <2>4
<1> QED
    BY <1>2, <1>3 DEF Enqueue

\* What the transactions in the client and at the broker are: numbers.
LEMMA PlaceTypes ==
    ASSUME TypeOK, NEW p \in Partitions
    PROVE  TxnsOf(queue[p]) \subseteq Txns /\ Range(log[p]) \subseteq Txns
<1>1. queue[p] \in Seq(Batch) /\ log[p] \in Seq(Txns)
    BY Types, PartitionFacts
<1> QED
    BY <1>1, TxnsOfFacts, RangeFacts

LEMMA InitKafkaInv ==
    ASSUME IInv, InitKafka
    PROVE  IInv'
<1>1. /\ TypeOK /\ phase = "start" /\ UNCHANGED <<future, failures, queue, log>>
      /\ \/ phase' = "sending" /\ UNCHANGED <<next, sentCount>>
         \/ phase' = "complete" /\ next' = N + 1 /\ sentCount' = N
    BY DEF IInv, InitKafka
<1>2. LogOnly /\ \A p \in Partitions \union {Dlq} : queue[p] = <<>>
    BY <1>1 DEF IInv, ControlInv
<1>3. TypeOK'
    BY <1>1, PartitionFacts DEF TypeOK, Txns
<1>4. ControlInv'
    BY <1>1, <1>2, PartitionFacts DEF IInv, ControlInv, LogOnly
<1>5. OrderInv'
    BY <1>1 DEF IInv, OrderInv
<1>6. PlaceInv'
  <2>1. ASSUME NEW p \in Partitions, NEW t \in Range(log[p]) PROVE Sent(t)'
    <3>1. t \in Txns /\ Sent(t)
        BY <1>1, <2>1, PlaceTypes DEF IInv, PlaceInv
    <3> QED
        BY <3>1, <1>1, TxnsAreNumbers, PartitionFacts DEF Sent
  <2>2. \A p \in Partitions : TxnsOf(queue[p]) = {}
      BY <1>2 DEF TxnsOf
  <2> QED
      BY <2>1, <2>2, <1>1 DEF PlaceInv
<1>7. OutcomeInv'
    BY <1>1, <1>2 DEF IInv, OutcomeInv, LogOnly
<1> QED
    BY <1>3, <1>4, <1>5, <1>6, <1>7 DEF IInv

LEMMA PublishInv ==
    ASSUME IInv, Publish
    PROVE  IInv'
<1> DEFINE p0 == PartitionOf(next)
<1>1. /\ TypeOK /\ phase = "sending" /\ next \in Txns /\ phase' = "waiting"
      /\ Enqueue(p0, next)
      /\ future' = [future EXCEPT ![next] = "pending"]
      /\ UNCHANGED <<next, sentCount, failures, log>>
    BY DEF IInv, Publish
<1>2. p0 \in Partitions /\ p0 \in Topics
    BY <1>1, PartitionFacts
<1> HIDE DEF p0
<1>3. /\ queue' \in [Topics -> Seq(Batch)]
      /\ \A r \in Topics : r # p0 => queue'[r] = queue[r]
      /\ TxnsOf(queue'[p0]) = TxnsOf(queue[p0]) \union {next}
      /\ \A l \in Seq(Txns) :
            /\ Ordered(queue[p0], l)
            /\ \A x \in TxnsOf(queue[p0]) : x < next
            /\ \A x \in Range(l) : x < next
            => Ordered(queue'[p0], l)
    BY <1>1, <1>2, EnqueueFacts
<1>4. /\ future' \in [Txns -> {"none", "pending", "done", "failed"}]
      /\ future'[next] = "pending"
      /\ \A t \in Txns : t # next => future'[t] = future[t]
    BY <1>1 DEF TypeOK
<1>5. \A t \in Txns : Sent(t) => t < next /\ Sent(t)'
    BY <1>1, TxnsAreNumbers DEF Sent
<1>6. TypeOK'
    BY <1>1, <1>3, <1>4 DEF TypeOK, Topics
<1>7. ControlInv'
    BY <1>1 DEF IInv, ControlInv
<1>8. OrderInv'
  <2> SUFFICES ASSUME NEW p \in Partitions PROVE Ordered(queue'[p], log[p])
      BY <1>1 DEF OrderInv
  <2>1. Ordered(queue[p], log[p]) /\ queue[p] \in Seq(Batch) /\ log[p] \in Seq(Txns)
      BY <1>1, Types, PartitionFacts DEF IInv, OrderInv
  <2>2. CASE p = p0
    <3>1. /\ \A x \in TxnsOf(queue[p]) : x < next
          /\ \A x \in Range(log[p]) : x < next
        BY <1>1, <1>5, PlaceTypes DEF IInv, PlaceInv
    <3> QED
        BY <3>1, <2>1, <2>2, <1>3
  <2>3. CASE p # p0
      BY <2>1, <2>3, <1>3, PartitionFacts
  <2> QED
      BY <2>2, <2>3
<1>9. PlaceInv'
  <2> SUFFICES ASSUME NEW p \in Partitions
               PROVE /\ \A t \in TxnsOf(queue'[p]) :
                            PartitionOf(t) = p /\ future'[t] = "pending" /\ Sent(t)'
                     /\ \A t \in Range(log[p]) : Sent(t)'
      BY <1>1 DEF PlaceInv
  <2>1. /\ \A t \in TxnsOf(queue[p]) : PartitionOf(t) = p /\ future[t] = "pending" /\ Sent(t)
        /\ \A t \in Range(log[p]) : Sent(t)
      BY DEF IInv, PlaceInv
  <2>2. TxnsOf(queue[p]) \subseteq Txns /\ queue[p] \in Seq(Batch)
      BY <1>1, Types, PartitionFacts, PlaceTypes
  <2>3. /\ \A t \in TxnsOf(queue[p]) : future'[t] = "pending" /\ Sent(t)'
        /\ \A t \in Range(log[p]) : Sent(t)'
      BY <2>1, <2>2, <1>1, <1>4, <1>5, PlaceTypes
  <2>4. \A t \in Txns : t = next => Sent(t)'
      BY <1>1, TxnsAreNumbers DEF Sent
  <2>5. CASE p = p0
    <3>1. TxnsOf(queue'[p]) = TxnsOf(queue[p]) \union {next}
        BY <2>5, <1>3
    <3>2. PartitionOf(next) = p
        BY <2>5 DEF p0
    <3>3. ASSUME NEW t \in TxnsOf(queue'[p])
          PROVE PartitionOf(t) = p /\ future'[t] = "pending" /\ Sent(t)'
      <4>1. CASE t = next
          BY <4>1, <3>2, <2>4, <1>1, <1>4
      <4>2. CASE t \in TxnsOf(queue[p])
          BY <4>2, <2>1, <2>3
      <4> QED
          BY <3>1, <3>3, <4>1, <4>2
    <3> QED
        BY <3>3, <2>3
  <2>6. CASE p # p0
      BY <2>1, <2>3, <2>6, <1>3, PartitionFacts
  <2> QED
      BY <2>5, <2>6
<1>10. OutcomeInv'
  <2>1. ASSUME NEW t \in Txns, future'[t] = "done" PROVE t \in Range(log[PartitionOf(t)])
      BY <2>1, <1>4 DEF IInv, OutcomeInv
  <2>2. ASSUME NEW t \in Txns, t < next PROVE t \in failures \/ future'[t] = "done"
    <3>1. t # next
        BY <2>2, <1>1, TxnsAreNumbers
    <3> QED
        BY <3>1, <2>2, <1>1, <1>4 DEF IInv, OutcomeInv
  <2> QED
      BY <2>1, <2>2, <1>1 DEF OutcomeInv
<1> QED
    BY <1>6, <1>7, <1>8, <1>9, <1>10 DEF IInv

\* The loop goes on to the next row: the row it was at has been appended, or
\* is among the failures and possibly queued for the dead letter topic.
LEMMA NextRowInv ==
    ASSUME IInv, phase \in {"sending", "waiting"}, next \in Txns, NextRow,
           Enqueue(Dlq, next) \/ UNCHANGED queue,
           failures' \in {failures, failures \union {next}},
           next \in failures' \/ future[next] = "done",
           UNCHANGED <<future, log>>
    PROVE  IInv'
<1>1. TypeOK /\ next \in 1 .. N /\ next \in Int /\ Dlq \in Topics
    BY ReplayAssumption DEF IInv, Txns, Topics
<1>2. queue' \in [Topics -> Seq(Batch)] /\ \A p \in Partitions : queue'[p] = queue[p]
  <2>1. /\ queue' \in [Topics -> Seq(Batch)]
        /\ \A r \in Topics : r # Dlq => queue'[r] = queue[r]
    <3>1. CASE Enqueue(Dlq, next)
        BY <3>1, <1>1, EnqueueFacts
    <3>2. CASE UNCHANGED queue
        BY <3>2, <1>1 DEF TypeOK, Topics
    <3> QED
        BY <3>1, <3>2
  <2> QED
      BY <2>1, PartitionFacts
<1>3. phase' = "sending" /\ next' = next + 1 /\ sentCount' = sentCount + 1
    BY DEF NextRow
<1>4. sentCount = next - 1
    BY DEF IInv, ControlInv
<1>5. TypeOK'
  <2>1. next' \in 1 .. N + 1 /\ sentCount' \in 0 .. N
      BY <1>1, <1>3, <1>4, PartitionFacts
  <2> QED
      BY <2>1, <1>1, <1>2, <1>3 DEF TypeOK, Topics
<1>6. ControlInv'
    BY <1>1, <1>3, <1>4 DEF ControlInv
<1>7. OrderInv'
    BY <1>2 DEF IInv, OrderInv
<1>8. ASSUME NEW t \in Txns, Sent(t) PROVE Sent(t)'
    BY <1>8, <1>1, <1>3, TxnsAreNumbers DEF Sent
<1>9. PlaceInv'
  <2> SUFFICES ASSUME NEW p \in Partitions
               PROVE /\ \A t \in TxnsOf(queue[p]) :
                            PartitionOf(t) = p /\ future[t] = "pending" /\ Sent(t)'
                     /\ \A t \in Range(log[p]) : Sent(t)'
      BY <1>2 DEF PlaceInv
  <2>1. TxnsOf(queue[p]) \subseteq Txns /\ Range(log[p]) \subseteq Txns
      BY <1>1, PlaceTypes
  <2> QED
      BY <2>1, <1>8 DEF IInv, PlaceInv
<1>10. OutcomeInv'
  <2>1. ASSUME NEW t \in Txns, t < next' PROVE t \in failures' \/ future[t] = "done"
    <3>1. t < next \/ t = next
        BY <2>1, <1>1, <1>3, TxnsAreNumbers
    <3> QED
        BY <3>1 DEF IInv, OutcomeInv
  <2> QED
      BY <2>1 DEF IInv, OutcomeInv
<1> QED
    BY <1>5, <1>6, <1>7, <1>9, <1>10 DEF IInv

LEMMA FlushInv ==
    ASSUME IInv, Flush
    PROVE  IInv'
<1>1. /\ TypeOK /\ phase = "sending" /\ next = N + 1 /\ phase' = "flushing"
      /\ UNCHANGED <<next, sentCount, future, failures, queue, log>>
    BY DEF IInv, Flush
<1>2. TypeOK' /\ ControlInv' /\ OrderInv' /\ OutcomeInv'
    BY <1>1 DEF IInv, TypeOK, ControlInv, OrderInv, OutcomeInv
<1>3. PlaceInv'
  <2>1. \A t : Sent(t) => Sent(t)'
      BY <1>1 DEF Sent
  <2> QED
      BY <2>1, <1>1 DEF IInv, PlaceInv
<1> QED
    BY <1>2, <1>3 DEF IInv

LEMMA CompleteInv ==
    ASSUME IInv, Complete
    PROVE  IInv'
<1>1. /\ TypeOK /\ phase = "flushing" /\ phase' = "complete"
      /\ \A p \in DOMAIN queue : queue[p] = <<>>
      /\ UNCHANGED <<next, sentCount, future, failures, queue, log>>
    BY DEF IInv, Complete
<1>2. TypeOK' /\ ControlInv' /\ OrderInv' /\ OutcomeInv'
    BY <1>1 DEF IInv, TypeOK, ControlInv, OrderInv, OutcomeInv
<1>3. PlaceInv'
  <2>1. \A t : Sent(t) => Sent(t)'
      BY <1>1 DEF Sent
  <2> QED
      BY <2>1, <1>1 DEF IInv, PlaceInv
<1> QED
    BY <1>2, <1>3 DEF IInv

LEMMA CrashInv ==
    ASSUME IInv, Crash
    PROVE  IInv'
<1>1. /\ TypeOK /\ phase \notin {"complete", "dead"} /\ phase' = "dead"
      /\ queue' = [p \in DOMAIN queue |-> <<>>]
      /\ UNCHANGED <<next, sentCount, future, failures, log>>
    BY DEF IInv, Crash
<1>2. DOMAIN queue = Topics
    BY <1>1, Types
<1>3. TypeOK'
    BY <1>1, <1>2 DEF TypeOK, Topics
<1>4. ControlInv'
    BY <1>1 DEF IInv, ControlInv
<1>5. OrderInv'
  <2> SUFFICES ASSUME NEW p \in Partitions PROVE Ordered(queue'[p], log[p])
      BY <1>1 DEF OrderInv
  <2> QED
      BY <1>1, <1>2, Types, PartitionFacts, OrderedEmpty DEF IInv, OrderInv
<1>6. PlaceInv'
  <2>1. \A t : Sent(t) => Sent(t)'
      BY <1>1 DEF Sent
  <2>2. \A p \in Partitions : TxnsOf(queue'[p]) = {}
      BY <1>1, <1>2, PartitionFacts DEF TxnsOf
  <2> QED
      BY <2>1, <2>2, <1>1 DEF IInv, PlaceInv
<1>7. OutcomeInv'
    BY <1>1 DEF IInv, OutcomeInv
<1> QED
    BY <1>3, <1>4, <1>5, <1>6, <1>7 DEF IInv

LEMMA StutterInv ==
    ASSUME IInv, UNCHANGED vars
    PROVE  IInv'
<1>1. UNCHANGED <<phase, next, sentCount, future, failures, queue, log>>
    BY DEF vars
<1>2. TypeOK' /\ ControlInv' /\ OrderInv' /\ PlaceInv' /\ OutcomeInv'
    BY <1>1 DEF IInv, TypeOK, ControlInv, LogOnly, OrderInv, PlaceInv, Sent, OutcomeInv
<1> QED
    BY <1>2 DEF IInv

LEMMA StepInv == IInv /\ [Next]_vars => IInv'
<1> SUFFICES ASSUME IInv, [Next]_vars PROVE IInv'
    OBVIOUS
<1>1. CASE InitKafka
    BY <1>1, InitKafkaInv
<1>2. CASE Publish
    BY <1>2, PublishInv
<1>3. CASE Acknowledged
  <2>1. next \in Txns
      BY <1>3 DEF Acknowledged, IInv, ControlInv
  <2> QED
      BY <2>1, <1>3, NextRowInv DEF Acknowledged
<1>4. CASE SendRefused
    BY <1>4, NextRowInv DEF SendRefused, DeadLetter
<1>5. CASE SendFails
  <2>1. next \in Txns
      BY <1>5 DEF SendFails, IInv, ControlInv
  <2> QED
      BY <2>1, <1>5, NextRowInv DEF SendFails, DeadLetter
<1>6. CASE Flush
    BY <1>6, FlushInv
<1>7. CASE Complete
    BY <1>7, CompleteInv
<1>8. CASE Crash
    BY <1>8, CrashInv
<1>9. ASSUME NEW p \in Partitions \union {Dlq}, Sender(p) PROVE IInv'
    BY <1>9, SenderInv DEF Topics
<1>10. CASE UNCHANGED vars
    BY <1>10, StutterInv
<1> QED
    BY <1>1, <1>2, <1>3, <1>4, <1>5, <1>6, <1>7, <1>8, <1>9, <1>10 DEF Next, Loop

-----------------------------------------------------------------------------
\* The theorems.

\* The inductive invariant holds throughout.
THEOREM Inductive == Spec => []IInv
<1>1. Init => IInv
    BY InitInv
<1>2. IInv /\ [Next]_vars => IInv'
    BY StepInv
<1> QED
    BY <1>1, <1>2, PTL DEF Spec

\* Every variable keeps its type, with any number of transactions and retries.
THEOREM TypeCorrect == Spec => []TypeOK
<1>1. IInv => TypeOK
    BY DEF IInv
<1> QED
    BY <1>1, Inductive, PTL

\* Timeouts, lost answers and retries of whole batches never let a transaction
\* overtake an older one: what is behind a newer one was there before it
\* (kafka_client.py:44).
THEOREM Chronological == Spec => []PartitionChronological
<1>1. IInv => PartitionChronological
    BY DEF IInv, OrderInv, Ordered, PartitionChronological
<1> QED
    BY <1>1, Inductive, PTL

\* The copies of a transaction in a partition are never more than the tries
\* that the producer has for it (kafka_client.py:42).
THEOREM AtMostEveryTry == Spec => []BoundedDuplicates
<1>1. IInv => BoundedDuplicates
    BY DEF IInv, OrderInv, Ordered, BoundedDuplicates
<1> QED
    BY <1>1, Inductive, PTL

\* When a replay through Kafka says that it is complete, every transaction is
\* in transactions.raw or was logged as a failure (replay_service.py:135-144).
THEOREM NothingLostSilently == Spec => []NoSilentLoss
<1>1. IInv => NoSilentLoss
  <2> SUFFICES ASSUME IInv, phase = "complete", ~LogOnly, NEW t \in Txns
               PROVE t \in failures \union Published
      BY DEF NoSilentLoss
  <2>1. next = N + 1 /\ t < next
      BY TxnsAreNumbers, PartitionFacts DEF IInv, ControlInv
  <2>2. t \in failures \/ future[t] = "done"
      BY <2>1 DEF IInv, OutcomeInv
  <2>3. future[t] = "done" => t \in Range(log[PartitionOf(t)])
      BY DEF IInv, OutcomeInv
  <2> QED
      BY <2>2, <2>3, PartitionFacts DEF Published
<1> QED
    BY <1>1, Inductive, PTL
=============================================================================
