------------------------- MODULE FeatureStore_proofs -------------------------
(***************************************************************************)
(* Proofs about FeatureStore: types, counting for the whole window, no     *)
(* lost update and an expiry for every counter, for any clients, windows,  *)
(* retries and transactions.                                               *)
(***************************************************************************)
EXTENDS FeatureStore, FiniteSetTheorems, TLAPS

\* The sets of counted transactions are finite.
LEMMA CountedFinite ==
    ASSUME TypeOK, NEW k \in Counters
    PROVE  /\ IsFiniteSet(counted[k])
           /\ Cardinality(counted[k]) \in Nat
<1>1. IsFiniteSet(Txns)
    BY FS_Interval, StoreAssumption DEF Txns
<1>2. counted[k] \in SUBSET Txns
    BY DEF TypeOK, RedisTypes, ClientTypes, HistoryTypes
<1> QED
    BY <1>1, <1>2, FS_Subset, FS_CardinalityType

\* n applications of an increment for one more transaction.
LEMMA Overcount ==
    ASSUME NEW n \in 1 .. Tries, NEW v \in Nat, NEW m \in Nat, m <= v, v <= Tries * m
    PROVE  m + 1 <= v + n /\ v + n <= Tries * (m + 1)
<1>1. Tries * (m + 1) = Tries * m + Tries /\ Tries * m \in Nat
    BY StoreAssumption
<1> QED
    BY <1>1, StoreAssumption

-----------------------------------------------------------------------------
\* Each action preserves the invariant.

LEMMA InitInv == Init => IInv
<1> SUFFICES ASSUME Init PROVE IInv
    OBVIOUS
<1> USE StoreAssumption DEF Init, Nothing, Counters, Txns
<1>1. TypeOK
  <2>1. RedisTypes
      BY DEF RedisTypes
  <2>2. ClientTypes
      BY DEF ClientTypes
  <2>3. HistoryTypes
    <3>1. left \in [Counters -> [Txns -> Nat]]
        OBVIOUS
    <3>2. \A k \in Counters, t \in Txns : left[k][t] <= Ttl[k]
        OBVIOUS
    <3> QED
        BY <3>1, <3>2 DEF HistoryTypes
  <2> QED
      BY <2>1, <2>2, <2>3 DEF TypeOK
<1>2. NoLostUpdate
  <2>1. \A k \in Counters : value[k] = 0 /\ counted[k] = {}
      OBVIOUS
  <2>2. Tries * 0 = 0
      OBVIOUS
  <2> QED
      BY <2>1, <2>2, FS_EmptySet DEF NoLostUpdate
<1> QED
    BY <1>1, <1>2 DEF IInv, OwnTransaction, NotYetCounted, OnlyBegun, FreshIsCounted,
       WindowIsOpen, ExpiryOnItsWay

LEMMA ConnectInv == IInv /\ (\E c \in Clients : Connect(c)) => IInv'
<1> SUFFICES ASSUME IInv, NEW c \in Clients, Connect(c) PROVE IInv'
    OBVIOUS
<1> USE DEF IInv, Connect, redis, history
<1>1. TypeOK'
  <2>1. RedisTypes'
      BY DEF TypeOK, RedisTypes
  <2>2. ClientTypes'
    <3>1. Nothing \in [Counters -> Nat]
        BY DEF Nothing
    <3>2. mode' \in [Clients -> {"none", "redis", "memory"}] /\ memory' \in [Clients -> [Counters -> Nat]]
        BY <3>1 DEF TypeOK, ClientTypes
    <3> QED
        BY <3>2 DEF TypeOK, ClientTypes
  <2>3. HistoryTypes'
      BY DEF TypeOK, HistoryTypes
  <2> QED
      BY <2>1, <2>2, <2>3 DEF TypeOK
<1> QED
    BY <1>1 DEF OwnTransaction, NotYetCounted, OnlyBegun, FreshIsCounted,
       WindowIsOpen, NoLostUpdate, ExpiryOnItsWay

LEMMA UpdateInMemoryInv == IInv /\ (\E c \in Clients : UpdateInMemory(c)) => IInv'
<1> SUFFICES ASSUME IInv, NEW c \in Clients, UpdateInMemory(c) PROVE IInv'
    OBVIOUS
<1> USE DEF IInv, UpdateInMemory, redis, client, history
<1>1. TypeOK'
  <2>1. RedisTypes'
      BY DEF TypeOK, RedisTypes
  <2>2. ClientTypes'
      BY StoreAssumption DEF TypeOK, ClientTypes
  <2>3. HistoryTypes'
      BY DEF TypeOK, HistoryTypes
  <2> QED
      BY <2>1, <2>2, <2>3 DEF TypeOK
<1>2. begun \in Nat
    BY DEF TypeOK, ClientTypes
<1>3. OwnTransaction'
    BY <1>2 DEF OwnTransaction
<1>4. OnlyBegun'
    BY <1>2 DEF OnlyBegun
<1> QED
    BY <1>1, <1>3, <1>4 DEF NotYetCounted, FreshIsCounted, WindowIsOpen, NoLostUpdate, ExpiryOnItsWay

LEMMA BeginInv == IInv /\ (\E c \in Clients : Begin(c)) => IInv'
<1> SUFFICES ASSUME IInv, NEW c \in Clients, Begin(c) PROVE IInv'
    OBVIOUS
<1> USE StoreAssumption DEF IInv, Begin, redis, history
<1>1. TypeOK'
  <2>1. RedisTypes'
      BY DEF TypeOK, RedisTypes
  <2>2. ClientTypes'
      BY DEF TypeOK, ClientTypes
  <2>3. HistoryTypes'
      BY DEF TypeOK, HistoryTypes
  <2> QED
      BY <2>1, <2>2, <2>3 DEF TypeOK
<1>2. OwnTransaction'
  <2> SUFFICES ASSUME NEW d \in Clients, at'[d] > 0
               PROVE  /\ txn'[d] \in 1 .. begun'
                      /\ \A e \in Clients \ {d} : at'[e] > 0 => txn'[e] # txn'[d]
      BY DEF OwnTransaction
  <2>1. begun \in Nat /\ begun' = begun + 1 /\ txn'[c] = begun + 1
      BY DEF TypeOK, ClientTypes
  <2>2. \A e \in Clients \ {c} : at'[e] = at[e] /\ txn'[e] = txn[e]
      BY DEF TypeOK, ClientTypes
  <2>3. \A e \in Clients \ {c} : at'[e] > 0 => txn'[e] \in 1 .. begun
      BY <2>2 DEF OwnTransaction
  <2> QED
      BY <2>1, <2>2, <2>3 DEF OwnTransaction
<1>3. NotYetCounted'
  <2> SUFFICES ASSUME NEW d \in Clients, NEW k \in Counters, at'[d] > 0, at'[d] <= k
               PROVE  /\ txn'[d] \notin sure[k]
                      /\ txn'[d] \in counted[k] => at'[d] = k /\ step[d] = "expire"
      BY DEF NotYetCounted
  <2>1. CASE d = c
    <3>1. txn'[d] = begun + 1 /\ begun \in Nat
        BY <2>1 DEF TypeOK, ClientTypes
    <3> QED
        BY <3>1 DEF OnlyBegun
  <2>2. CASE d # c
    <3>1. at'[d] = at[d] /\ txn'[d] = txn[d]
        BY <2>2 DEF TypeOK, ClientTypes
    <3> QED
        BY <3>1 DEF NotYetCounted
  <2> QED
      BY <2>1, <2>2
<1>4. OnlyBegun'
    BY DEF TypeOK, ClientTypes, OnlyBegun
<1>5. FreshIsCounted'
  <2>1. \A d \in fresh : d \in Clients /\ d # c
      BY DEF TypeOK, HistoryTypes, FreshIsCounted, Counters
  <2> QED
      BY <2>1 DEF TypeOK, ClientTypes, FreshIsCounted
<1>6. ExpiryOnItsWay'
    BY DEF TypeOK, ClientTypes, ExpiryOnItsWay, Counters
<1> QED
    BY <1>1, <1>2, <1>3, <1>4, <1>5, <1>6 DEF WindowIsOpen, NoLostUpdate

LEMMA IncrInv == IInv /\ (\E c \in Clients : Incr(c)) => IInv'
<1> SUFFICES ASSUME IInv, NEW c \in Clients, Incr(c) PROVE IInv'
    OBVIOUS
<1> DEFINE k == at[c]
<1>0. k \in Counters /\ step[c] = "incr" /\ txn[c] \in Txns /\ c \notin fresh
  <2>1. k \in Counters /\ step[c] = "incr"
      BY DEF Incr
  <2>2. txn[c] \in 1 .. begun /\ begun \in 0 .. MaxUpdates
      BY <2>1 DEF IInv, OwnTransaction, Counters, TypeOK, ClientTypes
  <2> QED
      BY <2>1, <2>2, StoreAssumption DEF IInv, Txns, FreshIsCounted
<1>1. PICK n \in 0 .. Tries, answered \in BOOLEAN :
        /\ answered => n > 0
        /\ faults' = (faults \/ ~answered \/ n # 1)
        /\ value' = [value EXCEPT ![k] = @ + n]
        /\ IF n > 0
           THEN /\ counted' = [counted EXCEPT ![k] = @ \union {txn[c]}]
                /\ left' = [left EXCEPT ![k][txn[c]] = Ttl[k]]
           ELSE UNCHANGED <<counted, left>>
        /\ IF answered
           THEN step' = [step EXCEPT ![c] = "expire"] /\ fresh' = fresh \union {c} /\ UNCHANGED at
           ELSE NextCounter(c) /\ UNCHANGED fresh
    BY DEF Incr, Applications
<1>2. UNCHANGED <<expires, lastTs, mode, txn, memory, begun, sure>>
    BY DEF Incr
<1>3. k \in 1 .. NCounters /\ k > 0 /\ k <= k
    BY <1>0, StoreAssumption DEF Counters
<1>4. txn[c] \notin counted[k] /\ txn[c] \notin sure[k]
    BY <1>0, <1>3 DEF IInv, NotYetCounted
<1> USE DEF IInv
<1>5. /\ answered => at' = at /\ step'[c] = "expire"
      /\ ~answered => at'[c] = k + 1 /\ step'[c] = "incr"
      /\ \A d \in Clients \ {c} : at'[d] = at[d] /\ step'[d] = step[d]
    BY <1>1 DEF TypeOK, ClientTypes, NextCounter
<1>6. \A j \in Counters :
        /\ value'[j] = IF j = k THEN value[k] + n ELSE value[j]
        /\ counted'[j] = IF j = k /\ n > 0 THEN counted[k] \union {txn[c]} ELSE counted[j]
  <2>1. \A j \in Counters : value'[j] = IF j = k THEN value[k] + n ELSE value[j]
      BY <1>0, <1>1 DEF TypeOK, RedisTypes
  <2>2. \A j \in Counters : counted'[j] = IF j = k /\ n > 0 THEN counted[k] \union {txn[c]} ELSE counted[j]
      BY <1>0, <1>1 DEF TypeOK, HistoryTypes
  <2> QED
      BY <2>1, <2>2
<1>7. /\ left' \in [Counters -> [Txns -> Nat]]
      /\ \A j \in Counters, t \in Txns :
            left'[j][t] = IF j = k /\ t = txn[c] /\ n > 0 THEN Ttl[k] ELSE left[j][t]
  <2>1. left \in [Counters -> [Txns -> Nat]] /\ Ttl[k] \in Nat
      BY <1>3, StoreAssumption DEF TypeOK, HistoryTypes
  <2>2. CASE n > 0
    <3> DEFINE L == [left[k] EXCEPT ![txn[c]] = Ttl[k]]
    <3>1. L \in [Txns -> Nat] /\ \A t \in Txns : L[t] = IF t = txn[c] THEN Ttl[k] ELSE left[k][t]
        BY <1>0, <2>1
    <3>2. left' = [left EXCEPT ![k] = L]
        BY <1>1, <2>2
    <3> HIDE DEF L
    <3> QED
        BY <1>0, <2>1, <2>2, <3>1, <3>2
  <2>3. CASE ~(n > 0)
      BY <1>1, <2>1, <2>3
  <2> QED
      BY <2>2, <2>3
<1>8. TypeOK'
  <2>1. RedisTypes'
      BY <1>0, <1>1, <1>2 DEF TypeOK, RedisTypes
  <2>2. ClientTypes'
    <3>1. k + 1 \in 0 .. NCounters + 1
        BY <1>3, StoreAssumption
    <3>2. at' \in [Clients -> 0 .. NCounters + 1] /\ step' \in [Clients -> {"incr", "expire"}]
        BY <1>1, <3>1 DEF TypeOK, ClientTypes, NextCounter
    <3> QED
        BY <1>2, <3>2 DEF TypeOK, ClientTypes
  <2>3. HistoryTypes'
    <3>1. counted' \in [Counters -> SUBSET Txns]
        BY <1>0, <1>1 DEF TypeOK, HistoryTypes
    <3>2. \A j \in Counters, t \in Txns : left'[j][t] <= Ttl[j]
        BY <1>3, <1>7, StoreAssumption DEF TypeOK, HistoryTypes
    <3>3. faults' \in BOOLEAN /\ fresh' \subseteq Clients
        BY <1>1 DEF TypeOK, HistoryTypes
    <3> QED
        BY <1>2, <1>7, <3>1, <3>2, <3>3 DEF TypeOK, HistoryTypes
  <2> QED
      BY <2>1, <2>2, <2>3 DEF TypeOK
<1>9. \A d \in Clients : (at'[d] > 0 <=> at[d] > 0) /\ txn'[d] = txn[d]
    BY <1>2, <1>3, <1>5
<1>10. OwnTransaction'
    BY <1>2, <1>9 DEF OwnTransaction
<1>11. NotYetCounted'
  <2> SUFFICES ASSUME NEW d \in Clients, NEW j \in Counters, at'[d] > 0, at'[d] <= j
               PROVE  /\ txn[d] \notin sure[j]
                      /\ txn[d] \in counted'[j] => at'[d] = j /\ step'[d] = "expire"
      BY <1>2 DEF NotYetCounted
  <2> j \in Int
      BY DEF Counters
  <2>1. CASE d = c /\ answered
      BY <1>0, <1>3, <1>5, <1>6, <2>1 DEF NotYetCounted
  <2>2. CASE d = c /\ ~answered
    <3>1. k <= j /\ j # k
        BY <1>3, <1>5, <2>2
    <3> QED
        BY <1>3, <1>6, <2>2, <3>1 DEF NotYetCounted
  <2>3. CASE d # c
    <3>1. txn[d] # txn[c]
        BY <1>3, <1>5, <2>3 DEF OwnTransaction
    <3> QED
        BY <1>5, <1>6, <2>3, <3>1 DEF NotYetCounted
  <2> QED
      BY <2>1, <2>2, <2>3
<1>12. OnlyBegun'
    BY <1>2, <1>3, <1>6 DEF OnlyBegun, OwnTransaction
<1>13. FreshIsCounted'
  <2> SUFFICES ASSUME NEW d \in fresh'
               PROVE  at'[d] \in Counters /\ step'[d] = "expire" /\ txn[d] \in counted'[at'[d]]
      BY <1>2 DEF FreshIsCounted
  <2>1. CASE d = c
      BY <1>0, <1>1, <1>5, <1>6, <2>1
  <2>2. CASE d # c
    <3>1. d \in fresh /\ d \in Clients
        BY <1>1, <2>2 DEF TypeOK, HistoryTypes
    <3> QED
        BY <1>5, <1>6, <2>2, <3>1 DEF FreshIsCounted
  <2> QED
      BY <2>1, <2>2
<1>14. WindowIsOpen'
  <2> SUFFICES ASSUME NEW j \in Counters, NEW t \in Txns, t \in sure[j], left'[j][t] > 0
               PROVE  t \in counted'[j] /\ (expires[j] = 0 \/ expires[j] >= left'[j][t])
      BY <1>2 DEF WindowIsOpen
  <2>1. left'[j][t] = left[j][t]
      BY <1>4, <1>7
  <2>2. t \in counted[j] => t \in counted'[j]
      BY <1>6
  <2> QED
      BY <2>1, <2>2 DEF WindowIsOpen
<1>15. NoLostUpdate'
  <2> SUFFICES ASSUME NEW j \in Counters
               PROVE  Cardinality(counted'[j]) <= value'[j] /\ value'[j] <= Tries * Cardinality(counted'[j])
      BY DEF NoLostUpdate
  <2>1. CASE j # k \/ n = 0
    <3>1. value'[j] = value[j] /\ counted'[j] = counted[j]
        BY <1>6, <2>1 DEF TypeOK, RedisTypes
    <3> QED
        BY <3>1 DEF NoLostUpdate
  <2>2. CASE j = k /\ n > 0
    <3>1. value'[j] = value[k] + n /\ counted'[j] = counted[k] \union {txn[c]}
        BY <1>6, <2>2
    <3>2. Cardinality(counted'[j]) = Cardinality(counted[k]) + 1
        BY <1>0, <1>4, <3>1, CountedFinite, FS_AddElement
    <3>3. value[k] \in Nat /\ n \in 1 .. Tries
        BY <1>0, <2>2, StoreAssumption DEF TypeOK, RedisTypes
    <3> QED
        BY <1>0, <2>2, <3>1, <3>2, <3>3, CountedFinite, Overcount DEF NoLostUpdate
  <2> QED
      BY <2>1, <2>2
<1>16. ExpiryOnItsWay'
  <2> SUFFICES ASSUME ~faults', NEW j \in Counters, value'[j] > 0, expires[j] = 0
               PROVE  \E d \in Clients : at'[d] = j /\ step'[d] = "expire"
      BY <1>2 DEF ExpiryOnItsWay
  <2>1. ~faults /\ answered
      BY <1>1
  <2>2. CASE j = k
      BY <1>5, <2>1, <2>2
  <2>3. CASE j # k
    <3>1. PICK d \in Clients : at[d] = j /\ step[d] = "expire"
        BY <1>6, <2>1, <2>3 DEF ExpiryOnItsWay
    <3> QED
        BY <1>5, <2>1, <2>3, <3>1
  <2> QED
      BY <2>2, <2>3
<1> QED
    BY <1>8, <1>10, <1>11, <1>12, <1>13, <1>14, <1>15, <1>16

LEMMA ExpireInv == IInv /\ (\E c \in Clients : Expire(c)) => IInv'
<1> SUFFICES ASSUME IInv, NEW c \in Clients, Expire(c) PROVE IInv'
    OBVIOUS
<1> DEFINE k == at[c]
<1>0. k \in Counters /\ step[c] = "expire"
    BY DEF Expire
<1>1. UNCHANGED <<value, lastTs, mode, txn, memory, begun, counted, left>> /\ fresh' = fresh \ {c}
    BY DEF Expire
<1>2. \/ /\ expires' = [expires EXCEPT ![k] = Renewed(k)]
         /\ sure' = [sure EXCEPT ![k] = IF value[k] > 0 /\ c \in fresh THEN @ \union {txn[c]} ELSE @]
         /\ faults' = faults
      \/ faults' = TRUE /\ UNCHANGED <<expires, sure>>
    BY DEF Expire
<1>3. k \in 1 .. NCounters /\ k > 0 /\ k <= k /\ Ttl[k] \in Nat \ {0}
    BY <1>0, StoreAssumption DEF Counters
<1> USE DEF IInv
<1>4. /\ at'[c] = k + 1
      /\ \A d \in Clients \ {c} : at'[d] = at[d] /\ step'[d] = step[d]
      /\ at' \in [Clients -> 0 .. NCounters + 1] /\ step' \in [Clients -> {"incr", "expire"}]
  <2>1. k + 1 \in 0 .. NCounters + 1
      BY <1>3, StoreAssumption
  <2> QED
      BY <2>1 DEF Expire, TypeOK, ClientTypes, NextCounter
<1>5. txn[c] \in Txns /\ txn[c] \in 1 .. begun
    BY <1>3, StoreAssumption DEF OwnTransaction, TypeOK, ClientTypes, Txns
<1>6. \A j \in Counters : expires'[j] = expires[j] \/ (j = k /\ value[k] > 0 /\ expires'[j] = Ttl[k])
    BY <1>0, <1>2 DEF TypeOK, RedisTypes, Renewed
<1>7. \A j \in Counters : sure'[j] = sure[j]
         \/ (j = k /\ value[k] > 0 /\ c \in fresh /\ expires'[k] = Ttl[k] /\ sure'[j] = sure[j] \union {txn[c]})
    BY <1>0, <1>2 DEF TypeOK, RedisTypes, HistoryTypes, Renewed
<1>8. TypeOK'
  <2>1. RedisTypes'
    <3>1. expires' \in [Counters -> Nat]
        BY <1>0, <1>2, <1>3 DEF TypeOK, RedisTypes, Renewed
    <3>2. \A j \in Counters : expires'[j] <= Ttl[j]
        BY <1>3, <1>6 DEF TypeOK, RedisTypes
    <3> QED
        BY <1>1, <3>1, <3>2 DEF TypeOK, RedisTypes
  <2>2. ClientTypes'
      BY <1>1, <1>4 DEF TypeOK, ClientTypes
  <2>3. HistoryTypes'
    <3>1. sure' \in [Counters -> SUBSET Txns]
        BY <1>0, <1>2, <1>5 DEF TypeOK, HistoryTypes
    <3>2. faults' \in BOOLEAN
        BY <1>2 DEF TypeOK, HistoryTypes
    <3> QED
        BY <1>1, <3>1, <3>2 DEF TypeOK, HistoryTypes
  <2> QED
      BY <2>1, <2>2, <2>3 DEF TypeOK
<1>9. \A d \in Clients : (at'[d] > 0 <=> at[d] > 0) /\ txn'[d] = txn[d]
    BY <1>1, <1>3, <1>4
<1>10. OwnTransaction'
    BY <1>1, <1>9 DEF OwnTransaction
<1>11. NotYetCounted'
  <2> SUFFICES ASSUME NEW d \in Clients, NEW j \in Counters, at'[d] > 0, at'[d] <= j
               PROVE  /\ txn[d] \notin sure'[j]
                      /\ txn[d] \in counted[j] => at'[d] = j /\ step'[d] = "expire"
      BY <1>1 DEF NotYetCounted
  <2> j \in Int
      BY DEF Counters
  <2>1. CASE d = c
    <3>1. k <= j /\ j # k
        BY <1>3, <1>4, <2>1
    <3> QED
        BY <1>3, <1>7, <2>1, <3>1 DEF NotYetCounted
  <2>2. CASE d # c
    <3>1. txn[d] # txn[c]
        BY <1>3, <1>4, <2>2 DEF OwnTransaction
    <3> QED
        BY <1>4, <1>7, <2>2, <3>1 DEF NotYetCounted
  <2> QED
      BY <2>1, <2>2
<1>12. OnlyBegun'
    BY <1>1, <1>5, <1>7 DEF OnlyBegun
<1>13. FreshIsCounted'
  <2>1. \A d \in fresh' : d \in fresh /\ d \in Clients /\ d # c
      BY <1>1 DEF TypeOK, HistoryTypes
  <2> QED
      BY <1>1, <1>4, <2>1 DEF FreshIsCounted
<1>14. WindowIsOpen'
  <2> SUFFICES ASSUME NEW j \in Counters, NEW t \in Txns, t \in sure'[j], left[j][t] > 0
               PROVE  t \in counted[j] /\ (expires'[j] = 0 \/ expires'[j] >= left[j][t])
      BY <1>1 DEF WindowIsOpen
  <2>1. left[j][t] <= Ttl[j] /\ left[j][t] \in Nat
      BY DEF TypeOK, HistoryTypes
  <2>2. t \in counted[j] /\ (expires[j] = 0 \/ expires[j] >= left[j][t] \/ expires'[j] = Ttl[j])
      BY <1>7 DEF WindowIsOpen, FreshIsCounted
  <2> QED
      BY <1>3, <1>6, <2>1, <2>2
<1>15. NoLostUpdate'
    BY <1>1 DEF NoLostUpdate
<1>16. ExpiryOnItsWay'
  <2> SUFFICES ASSUME ~faults', NEW j \in Counters, value[j] > 0, expires'[j] = 0
               PROVE  \E d \in Clients : at'[d] = j /\ step'[d] = "expire"
      BY <1>1 DEF ExpiryOnItsWay
  <2>1. ~faults /\ (j = k => expires'[j] = Ttl[k])
      BY <1>0, <1>2 DEF Renewed, TypeOK, RedisTypes
  <2>2. j # k /\ expires[j] = 0
      BY <1>3, <1>6, <2>1
  <2>3. PICK d \in Clients : at[d] = j /\ step[d] = "expire"
      BY <2>1, <2>2 DEF ExpiryOnItsWay
  <2> QED
      BY <1>4, <2>2, <2>3
<1> QED
    BY <1>8, <1>10, <1>11, <1>12, <1>13, <1>14, <1>15, <1>16

\* A client that is idle afterwards: SetLast and Crash.
LEMMA IdleFacts ==
    ASSUME IInv, NEW c \in Clients, Idle(c), UNCHANGED <<begun, counted, sure>>
    PROVE  /\ at' \in [Clients -> 0 .. NCounters + 1]
           /\ step' \in [Clients -> {"incr", "expire"}]
           /\ txn' \in [Clients -> 0 .. MaxUpdates]
           /\ at'[c] = 0
           /\ \A d \in Clients \ {c} : at'[d] = at[d] /\ step'[d] = step[d] /\ txn'[d] = txn[d]
           /\ OwnTransaction' /\ NotYetCounted'
<1>1. /\ at' \in [Clients -> 0 .. NCounters + 1]
      /\ step' \in [Clients -> {"incr", "expire"}]
      /\ txn' \in [Clients -> 0 .. MaxUpdates]
      /\ at'[c] = 0
      /\ \A d \in Clients \ {c} : at'[d] = at[d] /\ step'[d] = step[d] /\ txn'[d] = txn[d]
    BY StoreAssumption DEF IInv, TypeOK, ClientTypes, Idle
<1>2. OwnTransaction'
    BY <1>1 DEF IInv, OwnTransaction
<1>3. NotYetCounted'
    BY <1>1 DEF IInv, NotYetCounted
<1> QED
    BY <1>1, <1>2, <1>3

LEMMA SetLastInv == IInv /\ (\E c \in Clients : SetLast(c)) => IInv'
<1> SUFFICES ASSUME IInv, NEW c \in Clients, SetLast(c) PROVE IInv'
    OBVIOUS
<1> USE DEF IInv, SetLast, history
<1>1. TypeOK'
  <2>1. RedisTypes'
      BY DEF TypeOK, RedisTypes, ClientTypes
  <2>2. ClientTypes'
      BY IdleFacts DEF TypeOK, ClientTypes
  <2>3. HistoryTypes'
      BY DEF TypeOK, HistoryTypes
  <2> QED
      BY <2>1, <2>2, <2>3 DEF TypeOK
<1>2. at[c] \notin Counters
    BY StoreAssumption DEF Counters
<1>3. FreshIsCounted'
  <2>1. \A d \in fresh : d \in Clients \ {c}
      BY <1>2 DEF TypeOK, HistoryTypes, FreshIsCounted
  <2> QED
      BY <2>1, IdleFacts DEF FreshIsCounted
<1>4. ExpiryOnItsWay'
    BY <1>2, IdleFacts DEF ExpiryOnItsWay
<1> QED
    BY <1>1, <1>3, <1>4, IdleFacts DEF OnlyBegun, WindowIsOpen, NoLostUpdate

LEMMA CrashInv == IInv /\ (\E c \in Clients : Crash(c)) => IInv'
<1> SUFFICES ASSUME IInv, NEW c \in Clients, Crash(c) PROVE IInv'
    OBVIOUS
<1> USE DEF IInv, Crash, redis
<1>1. TypeOK'
  <2>1. RedisTypes'
      BY DEF TypeOK, RedisTypes
  <2>2. ClientTypes'
    <3>1. Nothing \in [Counters -> Nat]
        BY DEF Nothing
    <3> QED
        BY <3>1, IdleFacts DEF TypeOK, ClientTypes
  <2>3. HistoryTypes'
      BY DEF TypeOK, HistoryTypes
  <2> QED
      BY <2>1, <2>2, <2>3 DEF TypeOK
<1>2. FreshIsCounted'
  <2>1. \A d \in fresh' : d \in fresh /\ d \in Clients \ {c}
      BY DEF TypeOK, HistoryTypes
  <2> QED
      BY <2>1, IdleFacts DEF FreshIsCounted
<1> QED
    BY <1>1, <1>2, IdleFacts DEF OnlyBegun, WindowIsOpen, NoLostUpdate, ExpiryOnItsWay

LEMMA TickInv == IInv /\ Tick => IInv'
<1> SUFFICES ASSUME IInv, Tick PROVE IInv'
    OBVIOUS
<1> USE DEF IInv, Tick, client
<1>1. \A k \in Counters :
        /\ value'[k] = IF expires[k] = 1 THEN 0 ELSE value[k]
        /\ counted'[k] = IF expires[k] = 1 THEN {} ELSE counted[k]
        /\ expires'[k] = Less(expires[k])
        /\ \A t \in Txns : left'[k][t] = Less(left[k][t])
    BY DEF Expired
<1>2. TypeOK'
  <2>1. RedisTypes'
    <3>1. \A k \in Counters : Less(expires[k]) \in Nat /\ Less(expires[k]) <= Ttl[k]
        BY StoreAssumption DEF TypeOK, RedisTypes, Less, Counters
    <3>2. expires' \in [Counters -> Nat] /\ value' \in [Counters -> Nat]
        BY <3>1 DEF TypeOK, RedisTypes
    <3> QED
        BY <1>1, <3>1, <3>2 DEF TypeOK, RedisTypes
  <2>2. ClientTypes'
      BY DEF TypeOK, ClientTypes
  <2>3. HistoryTypes'
    <3>1. left' \in [Counters -> [Txns -> Nat]]
        BY DEF TypeOK, HistoryTypes, Less
    <3>2. \A k \in Counters, t \in Txns : left'[k][t] <= Ttl[k]
      <4> SUFFICES ASSUME NEW k \in Counters, NEW t \in Txns PROVE left'[k][t] <= Ttl[k]
          OBVIOUS
      <4>1. left[k][t] \in Nat /\ left[k][t] <= Ttl[k] /\ Ttl[k] \in Nat
          BY StoreAssumption DEF TypeOK, HistoryTypes, Counters
      <4>2. left'[k][t] = Less(left[k][t])
          BY <1>1
      <4> QED
          BY <4>1, <4>2 DEF Less
    <3>3. counted' \in [Counters -> SUBSET Txns]
        BY DEF TypeOK, HistoryTypes
    <3> QED
        BY <3>1, <3>2, <3>3 DEF TypeOK, HistoryTypes
  <2> QED
      BY <2>1, <2>2, <2>3 DEF TypeOK
<1>3. NotYetCounted' /\ OnlyBegun'
    BY <1>1 DEF NotYetCounted, OnlyBegun
<1>4. WindowIsOpen'
  <2> SUFFICES ASSUME NEW k \in Counters, NEW t \in Txns, t \in sure[k], left'[k][t] > 0
               PROVE  t \in counted'[k] /\ (expires'[k] = 0 \/ expires'[k] >= left'[k][t])
      BY DEF WindowIsOpen
  <2>1. left[k][t] \in Nat /\ expires[k] \in Nat
      BY DEF TypeOK, RedisTypes, HistoryTypes
  <2>2. left[k][t] > 1 /\ left'[k][t] = left[k][t] - 1
      BY <1>1, <2>1 DEF Less
  <2>3. t \in counted[k] /\ (expires[k] = 0 \/ expires[k] >= left[k][t])
      BY <2>1, <2>2 DEF WindowIsOpen
  <2> QED
      BY <1>1, <2>1, <2>2, <2>3 DEF Less
<1>5. NoLostUpdate'
  <2>1. Cardinality({}) = 0 /\ Tries * 0 = 0
      BY FS_EmptySet, StoreAssumption
  <2> QED
      BY <1>1, <2>1 DEF NoLostUpdate
<1>6. ExpiryOnItsWay'
  <2>1. \A k \in Counters : value'[k] > 0 /\ expires'[k] = 0 => value[k] > 0 /\ expires[k] = 0
      BY <1>1 DEF TypeOK, RedisTypes, Less
  <2> QED
      BY <2>1 DEF ExpiryOnItsWay
<1> QED
    BY <1>2, <1>3, <1>4, <1>5, <1>6 DEF OwnTransaction, FreshIsCounted

LEMMA StutterInv == IInv /\ UNCHANGED vars => IInv'
BY DEF IInv, vars, redis, client, history, TypeOK, RedisTypes, ClientTypes, HistoryTypes,
   OwnTransaction, NotYetCounted, OnlyBegun, FreshIsCounted, WindowIsOpen, NoLostUpdate, ExpiryOnItsWay

LEMMA StepInv == IInv /\ [Next]_vars => IInv'
BY ConnectInv, BeginInv, UpdateInMemoryInv, IncrInv, ExpireInv, SetLastInv, CrashInv, TickInv, StutterInv
   DEF Next, Update

LEMMA Inductive == Spec => []IInv
BY InitInv, StepInv, PTL DEF Spec

-----------------------------------------------------------------------------
\* Every variable of the store and its clients keeps its type; an expiry is
\* never longer than its window.
THEOREM TypeCorrect == Spec => []TypeOK
<1>1. IInv => TypeOK
    BY DEF IInv
<1> QED
    BY <1>1, Inductive, PTL

\* A transaction whose commands both reached Redis in time is counted until
\* its window ends, whatever any number of other processes do.
THEOREM WholeWindow == Spec => []CountedForItsWindow
<1>1. IInv => CountedForItsWindow
    BY DEF IInv, WindowIsOpen, CountedForItsWindow
<1> QED
    BY <1>1, Inductive, PTL

\* No update is lost, and retries overcount by a bounded factor.
THEOREM Bounds == Spec => []NoLostUpdate
<1>1. IInv => NoLostUpdate
    BY DEF IInv
<1> QED
    BY <1>1, Inductive, PTL

\* Without failures no counter stays without an expiry.
THEOREM ExpirySet == Spec => []ExpiryOnItsWay
<1>1. IInv => ExpiryOnItsWay
    BY DEF IInv
<1> QED
    BY <1>1, Inductive, PTL
=============================================================================
