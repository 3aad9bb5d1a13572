----------------------------- MODULE FeatureStore -----------------------------
(***************************************************************************)
(* OnlineFeatureStore (src/feature_store/store.py): processes that update  *)
(* the windowed counters of one entity in Redis, command by command, while *)
(* keys expire, commands time out and are retried, and processes die.      *)
(*                                                                         *)
(* Entities share nothing, so one is modelled.  Its counters are numbered  *)
(* in the order in which update_from_transaction increments them, txn_count*)
(* and amount_sum alike counting transactions here.  Time is what is left  *)
(* of each expiry; one tick is the unit of the shortest window.            *)
(***************************************************************************)
EXTENDS Integers, FiniteSets

CONSTANTS
    Clients,    \* processes with an OnlineFeatureStore
    NCounters,  \* counters of an entity (eight in the code)
    Ttl,        \* counter -> its window, which is the expiry that is set
    Tries,      \* times a command is sent: retry_on_timeout gives one retry
    MaxUpdates  \* bound: transactions

ASSUME StoreAssumption ==
    /\ NCounters \in Nat \ {0}
    /\ MaxUpdates \in Nat
    /\ Tries \in Nat \ {0}
    /\ Ttl \in [1 .. NCounters -> Nat \ {0}]

VARIABLES
    value,      \* counter -> its value, 0 when the key does not exist
    expires,    \* counter -> time left, 0 when there is no expiry
    lastTs,     \* last_txn_ts, as the transaction it was set by
    mode,       \* client -> how it is connected
    txn,        \* client -> the transaction it is recording
    at,         \* client -> the counter it is at, 0 between two updates
    step,       \* client -> the command that comes next
    memory,     \* client -> counter -> value in the in-memory fallback
    begun,      \* transactions begun
    faults,     \* history: a command failed or was retried, or a process died
    fresh,      \* history: clients whose increment was in this unit of time
    counted,    \* history: counter -> transactions in its present value
    left,       \* history: counter -> transaction -> time left of its window
    sure        \* history: counter -> transactions with both commands in one unit of time

redis == <<value, expires, lastTs>>
client == <<mode, txn, at, step>>
history == <<fresh, counted, left, sure>>
vars == <<redis, client, memory, begun, faults, history>>

Counters == 1 .. NCounters

Txns == 1 .. MaxUpdates

RedisTypes ==
    /\ value \in [Counters -> Nat]
    /\ expires \in [Counters -> Nat]
    /\ \A k \in Counters : expires[k] <= Ttl[k]
    /\ lastTs \in 0 .. MaxUpdates

ClientTypes ==
    /\ mode \in [Clients -> {"none", "redis", "memory"}]
    /\ txn \in [Clients -> 0 .. MaxUpdates]
    /\ at \in [Clients -> 0 .. NCounters + 1]
    /\ step \in [Clients -> {"incr", "expire"}]
    /\ memory \in [Clients -> [Counters -> Nat]]
    /\ begun \in 0 .. MaxUpdates

HistoryTypes ==
    /\ faults \in BOOLEAN
    /\ fresh \subseteq Clients
    /\ counted \in [Counters -> SUBSET Txns]
    /\ sure \in [Counters -> SUBSET Txns]
    /\ left \in [Counters -> [Txns -> Nat]]
    /\ \A k \in Counters, t \in Txns : left[k][t] <= Ttl[k]

TypeOK == RedisTypes /\ ClientTypes /\ HistoryTypes

Nothing == [k \in Counters |-> 0]

Init ==
    /\ value = Nothing
    /\ expires = Nothing
    /\ lastTs = 0
    /\ mode = [c \in Clients |-> "none"]
    /\ txn = [c \in Clients |-> 0]
    /\ at = [c \in Clients |-> 0]
    /\ step = [c \in Clients |-> "incr"]
    /\ memory = [c \in Clients |-> Nothing]
    /\ begun = 0
    /\ faults = FALSE
    /\ fresh = {}
    /\ counted = [k \in Counters |-> {}]
    /\ left = [k \in Counters |-> [t \in Txns |-> 0]]
    /\ sure = [k \in Counters |-> {}]

-----------------------------------------------------------------------------
\* connect(): when Redis does not answer, an empty dict takes its place.
Connect(c) ==
    /\ at[c] = 0
    /\ \/ mode' = [mode EXCEPT ![c] = "redis"] /\ UNCHANGED memory
       \/ /\ mode' = [mode EXCEPT ![c] = "memory"]
          /\ memory' = [memory EXCEPT ![c] = Nothing]
    /\ UNCHANGED <<redis, txn, at, step, begun, faults, history>>

\* update_from_transaction is called.
Begin(c) ==
    /\ mode[c] = "redis"
    /\ at[c] = 0
    /\ begun < MaxUpdates
    /\ begun' = begun + 1
    /\ txn' = [txn EXCEPT ![c] = begun + 1]
    /\ at' = [at EXCEPT ![c] = 1]
    /\ UNCHANGED <<redis, mode, step, memory, faults, history>>

\* The fallback: no other process sees the dict and nothing in it expires.
UpdateInMemory(c) ==
    /\ mode[c] = "memory"
    /\ begun < MaxUpdates
    /\ begun' = begun + 1
    /\ memory' = [memory EXCEPT ![c] = [k \in Counters |-> @[k] + 1]]
    /\ UNCHANGED <<redis, client, faults, history>>

NextCounter(c) ==
    /\ at' = [at EXCEPT ![c] = @ + 1]
    /\ step' = [step EXCEPT ![c] = "incr"]

\* Mutant: increment_counter is retried by its caller as well.
Applications_RetriedAgain == 0 .. 2 * Tries

\* How often a command that the client sends is carried out: retry_on_timeout
\* repeats one whose answer is late.
Applications == 0 .. Tries

\* Mutant: update_from_transaction passes no ttl.
Incr_NoTtl(c) ==
    /\ at[c] \in Counters
    /\ step[c] = "incr"
    /\ value' = [value EXCEPT ![at[c]] = @ + 1]
    /\ counted' = [counted EXCEPT ![at[c]] = @ \union {txn[c]}]
    /\ left' = [left EXCEPT ![at[c]][txn[c]] = Ttl[at[c]]]
    /\ NextCounter(c)
    /\ UNCHANGED <<expires, lastTs, mode, txn, memory, begun, faults, fresh, sure>>

\* INCRBYFLOAT; without an answer increment_counter logs the error and does
\* not go on to the expiry.
Incr(c) ==
    /\ at[c] \in Counters
    /\ step[c] = "incr"
    /\ \E n \in Applications, answered \in BOOLEAN :
        /\ answered => n > 0
        /\ faults' = (faults \/ ~answered \/ n # 1)
        /\ value' = [value EXCEPT ![at[c]] = @ + n]
        /\ IF n > 0
           THEN /\ counted' = [counted EXCEPT ![at[c]] = @ \union {txn[c]}]
                /\ left' = [left EXCEPT ![at[c]][txn[c]] = Ttl[at[c]]]
           ELSE UNCHANGED <<counted, left>>
        /\ IF answered
           THEN step' = [step EXCEPT ![c] = "expire"] /\ fresh' = fresh \union {c} /\ UNCHANGED at
           ELSE NextCounter(c) /\ UNCHANGED fresh
    /\ UNCHANGED <<expires, lastTs, mode, txn, memory, begun, sure>>

\* Mutant: the expiry is set only when there is none yet (EXPIRE ... NX).
Renewed_OnlyOnce(k) == IF value[k] > 0 /\ expires[k] = 0 THEN Ttl[k] ELSE expires[k]

\* Mutant: the window is added to the time that is left.
Renewed_OnTop(k) == IF value[k] > 0 THEN expires[k] + Ttl[k] ELSE expires[k]

\* EXPIRE sets the expiry of a key that exists.
Renewed(k) == IF value[k] > 0 THEN Ttl[k] ELSE expires[k]

Expire(c) ==
    /\ at[c] \in Counters
    /\ step[c] = "expire"
    /\ LET k == at[c] IN
        \/ /\ expires' = [expires EXCEPT ![k] = Renewed(k)]
           /\ sure' = [sure EXCEPT ![k] = IF value[k] > 0 /\ c \in fresh THEN @ \union {txn[c]} ELSE @]
           /\ UNCHANGED faults
        \/ faults' = TRUE /\ UNCHANGED <<expires, sure>>
    /\ NextCounter(c)
    /\ fresh' = fresh \ {c}
    /\ UNCHANGED <<value, lastTs, mode, txn, memory, begun, counted, left>>

Idle(c) ==
    /\ at' = [at EXCEPT ![c] = 0]
    /\ txn' = [txn EXCEPT ![c] = 0]
    /\ step' = [step EXCEPT ![c] = "incr"]

\* The last command, update_features with last_txn_ts; it may fail.
SetLast(c) ==
    /\ at[c] = NCounters + 1
    /\ \/ lastTs' = txn[c] /\ UNCHANGED faults
       \/ faults' = TRUE /\ UNCHANGED lastTs
    /\ Idle(c)
    /\ UNCHANGED <<value, expires, mode, memory, begun, history>>

Crash(c) ==
    /\ mode[c] # "none"
    /\ mode' = [mode EXCEPT ![c] = "none"]
    /\ memory' = [memory EXCEPT ![c] = Nothing]
    /\ Idle(c)
    /\ fresh' = fresh \ {c}
    /\ faults' = TRUE
    /\ UNCHANGED <<redis, begun, counted, left, sure>>

\* Time passes, and Redis drops the keys whose time is over.
Expired == {k \in Counters : expires[k] = 1}

Less(n) == IF n > 0 THEN n - 1 ELSE 0

Tick ==
    /\ value' = [k \in Counters |-> IF k \in Expired THEN 0 ELSE value[k]]
    /\ counted' = [k \in Counters |-> IF k \in Expired THEN {} ELSE counted[k]]
    /\ expires' = [k \in Counters |-> Less(expires[k])]
    /\ left' = [k \in Counters |-> [t \in Txns |-> Less(left[k][t])]]
    /\ fresh' = {}
    /\ UNCHANGED <<lastTs, client, memory, begun, faults, sure>>

-----------------------------------------------------------------------------
Update(c) == Incr(c) \/ Expire(c) \/ SetLast(c)

Next ==
    \/ \E c \in Clients : Connect(c) \/ Begin(c) \/ UpdateInMemory(c) \/ Update(c) \/ Crash(c)
    \/ Tick

\* An update that has begun goes on while its process lives, and time passes.
Fairness == WF_vars(Tick) /\ \A c \in Clients : WF_vars(Update(c))

Spec == Init /\ [][Next]_vars /\ Fairness

-----------------------------------------------------------------------------
\* A transaction whose increment and expiry reached Redis before the next
\* unit of time is counted for its whole window, whatever other processes,
\* retries and failures do to the same key (store.py:135-137).
CountedForItsWindow ==
    \A k \in Counters, t \in Txns : t \in sure[k] /\ left[k][t] > 0 => t \in counted[k]

\* INCRBYFLOAT is atomic in Redis: whoever updates the same counter, no update
\* is lost, and retries add no more than their number (store.py:49, 135).
NoLostUpdate ==
    \A k \in Counters :
        /\ Cardinality(counted[k]) <= value[k]
        /\ value[k] <= Tries * Cardinality(counted[k])

\* While no command fails, a counter without an expiry has a process that is
\* about to set it, also when the key expires between two commands of an
\* update (store.py:136-137).
ExpiryOnItsWay ==
    ~faults =>
        \A k \in Counters : value[k] > 0 /\ expires[k] = 0 =>
            \E c \in Clients : at[c] = k /\ step[c] = "expire"

\* While no command fails, an entity without further transactions is forgotten
\* by all its windows: processes that update it at the same time do not leave
\* a counter behind (store.py:15, 192-201).
Forgets == [](~faults) => <>[](\A k \in Counters : value[k] = 0)

-----------------------------------------------------------------------------
\* The inductive invariant of the proofs.

\* A client between two updates has no transaction, one in an update a
\* transaction of its own, which the counters still ahead have not seen.
OwnTransaction ==
    \A c \in Clients : at[c] > 0 =>
        /\ txn[c] \in 1 .. begun
        /\ \A d \in Clients \ {c} : at[d] > 0 => txn[d] # txn[c]

NotYetCounted ==
    \A c \in Clients, k \in Counters : at[c] > 0 /\ at[c] <= k =>
        /\ txn[c] \notin sure[k]
        /\ txn[c] \in counted[k] => at[c] = k /\ step[c] = "expire"

OnlyBegun == \A k \in Counters : counted[k] \union sure[k] \subseteq 1 .. begun

\* What was incremented in this unit of time is in the counter.
FreshIsCounted ==
    \A c \in fresh : at[c] \in Counters /\ step[c] = "expire" /\ txn[c] \in counted[at[c]]

\* The expiry is not before the end of any window that was set for certain.
WindowIsOpen ==
    \A k \in Counters, t \in Txns : t \in sure[k] /\ left[k][t] > 0 =>
        /\ t \in counted[k]
        /\ expires[k] = 0 \/ expires[k] >= left[k][t]

IInv ==
    /\ TypeOK
    /\ OwnTransaction
    /\ NotYetCounted
    /\ OnlyBegun
    /\ FreshIsCounted
    /\ WindowIsOpen
    /\ NoLostUpdate
    /\ ExpiryOnItsWay
=============================================================================
