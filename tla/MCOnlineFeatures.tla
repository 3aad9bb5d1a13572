--------------------------- MODULE MCOnlineFeatures ---------------------------
(***************************************************************************)
(* OnlineFeatures for TLC: a plain transaction of which a group of fields  *)
(* that the features read together takes every value at and around the     *)
(* edges of the buckets, or every combination.                             *)
(***************************************************************************)
EXTENDS OnlineFeatures

Noon == [hour |-> 12, minute |-> 0, weekday |-> 2, day |-> 15]

Plain == [amount |-> 60, creditLimit |-> 5000, tenure |-> 400, cardAge |-> 400, deviceAge |-> 100,
          international |-> 0, installment |-> 0, category |-> "retail",
          time |-> 100, clock |-> Noon, format |-> "iso",
          country |-> "US", countries |-> [p \in Places |-> "US"],
          proxy |-> "none", connection |-> "residential"]

Around(edges) == {edges[k] + d : k \in DOMAIN edges, d \in {-1, 0, 1}} \cup {-2, -1, 0}

MCTransactions ==
    {[Plain EXCEPT !.amount = a, !.creditLimit = l] :
        a \in Around(AmountEdges), l \in {-10, 0, 1, 5000}}
    \cup {[Plain EXCEPT !.tenure = t, !.cardAge = a] :
        t \in Around(AgeEdges), a \in Around(AgeEdges)}
    \cup {[Plain EXCEPT !.deviceAge = d, !.category = c, !.international = i, !.installment = s] :
        d \in Around(DeviceEdges), c \in Categories, i \in {0, 1}, s \in {0, 1}}
    \cup {[Plain EXCEPT !.clock = [hour |-> h, minute |-> m, weekday |-> w, day |-> 1],
                        !.format = f] :
        h \in {0, 6, 7, 21, 22, 23}, m \in {0, 14, 15, 59}, w \in {4, 5, 6},
        f \in {"iso", "datetime", "other"}}
    \cup {[Plain EXCEPT !.countries = [p \in Places |-> IF p \in abroad THEN "FR" ELSE "US"]] :
        abroad \in SUBSET Places}
    \cup {[Plain EXCEPT !.proxy = p, !.connection = c] :
        p \in Proxies, c \in {"residential", "Datacenter", "datacenter"}}

One == <<[amount |-> 40, time |-> 90]>>

Two == <<[amount |-> 40, time |-> 90], [amount |-> 80, time |-> 95]>>

MCHistories ==
    {[e \in EntityTypes |-> <<>>], [e \in EntityTypes |-> Two],
     [e \in EntityTypes |-> IF e = "merchant" THEN Two ELSE IF e = "ip" THEN One ELSE <<>>]}

MCMaps == {[c \in Categories |-> IF c = "retail" THEN 70 ELSE 0]}
=============================================================================
