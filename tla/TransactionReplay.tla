-------------------------- MODULE TransactionReplay --------------------------
(***************************************************************************)
(* The replay service (replay/replay_service.py) publishing the historical *)
(* transactions, in timestamp order, through KafkaProducer.send            *)
(* (src/streaming/kafka_client.py).                                        *)
(*                                                                         *)
(* Two threads share the client: the replay loop, which waits at most ten  *)
(* seconds for each send, and kafka-python's sender thread, modelled from  *)
(* how the repository configures it: acks="all", a bounded number of       *)
(* retries, one request in flight, no idempotence.  The client sends whole *)
(* batches.  A record that the loop no longer waits for is still queued,   *)
(* so the next records of its partition come to share a batch, and a lost  *)
(* answer appends all of the batch again.  A request that the client no    *)
(* longer waits for is taken to be carried out at once or never.           *)
(*                                                                         *)
(* Transactions are numbered by their place in the sorted data set; labels *)
(* and the pacing between records are not modelled.                        *)
(***************************************************************************)
EXTENDS Integers, Sequences, FiniteSets, Functions

CONSTANTS
    N,              \* transactions replayed, after head(max_transactions)
    Partitions,     \* partitions of transactions.raw
    Dlq,            \* dead_letter.transactions, as one more partition
    Retries,        \* the producer's retries (3 in the code)
    PartitionOf(_)  \* the partition that transaction_id, the key, hashes to

ASSUME ReplayAssumption ==
    /\ N \in Nat
    /\ Retries \in Nat
    /\ Dlq \notin Partitions
    /\ \A t \in 1 .. N : PartitionOf(t) \in Partitions

VARIABLES
    phase,      \* where ReplayService.run is
    next,       \* the row of the data frame that run() is at
    sentCount,  \* run()'s count of replayed transactions
    future,     \* outcome of each transaction's send, as its future has it
    failures,   \* transactions for which run() logged "Failed to send"
    queue,      \* partition -> batches that the sender thread still has
    log         \* partition -> records appended by the broker

vars == <<phase, next, sentCount, future, failures, queue, log>>

Txns == 1 .. N

Batch == [txns : Seq(Txns), tries : 0 .. Retries]

TypeOK ==
    /\ phase \in {"start", "sending", "waiting", "flushing", "complete", "dead"}
    /\ next \in 1 .. N + 1
    /\ sentCount \in 0 .. N
    /\ future \in [Txns -> {"none", "pending", "done", "failed"}]
    /\ failures \subseteq Txns
    /\ queue \in [Partitions \union {Dlq} -> Seq(Batch)]
    /\ log \in [Partitions \union {Dlq} -> Seq(Txns)]

Init ==
    /\ phase = "start"
    /\ next = 1
    /\ sentCount = 0
    /\ future = [t \in Txns |-> "none"]
    /\ failures = {}
    /\ queue = [p \in Partitions \union {Dlq} |-> <<>>]
    /\ log = [p \in Partitions \union {Dlq} |-> <<>>]

-----------------------------------------------------------------------------
\* The replay loop.

\* _init_kafka: when the broker cannot be reached the loop only counts rows.
InitKafka ==
    /\ phase = "start"
    /\ \/ phase' = "sending" /\ UNCHANGED <<next, sentCount>>
       \/ phase' = "complete" /\ next' = N + 1 /\ sentCount' = N
    /\ UNCHANGED <<future, failures, queue, log>>

\* The client appends the record to the partition's last batch, unless that is
\* full, on its way, or was so before (then it is closed), and starts a batch
\* otherwise.
Joined(s, t) == [s EXCEPT ![Len(s)].txns = Append(@, t)]

Started(s, t) == Append(s, [txns |-> <<t>>, tries |-> 0])

Enqueue(p, t) ==
    \/ queue' = [queue EXCEPT ![p] = Started(@, t)]
    \/ /\ queue[p] # <<>>
       /\ queue[p][Len(queue[p])].tries = 0
       /\ queue' = [queue EXCEPT ![p] = Joined(@, t)]

NextRow ==
    /\ phase' = "sending"
    /\ next' = next + 1
    /\ sentCount' = sentCount + 1

\* Mutant: send() returns without waiting for the future.
Publish_FireAndForget ==
    /\ phase = "sending"
    /\ next \in Txns
    /\ NextRow
    /\ Enqueue(PartitionOf(next), next)
    /\ future' = [future EXCEPT ![next] = "pending"]
    /\ UNCHANGED <<failures, log>>

\* producer.send(topic_raw): queued, then wait for the future.
Publish ==
    /\ phase = "sending"
    /\ next \in Txns
    /\ phase' = "waiting"
    /\ Enqueue(PartitionOf(next), next)
    /\ future' = [future EXCEPT ![next] = "pending"]
    /\ UNCHANGED <<next, sentCount, failures, log>>

Acknowledged ==
    /\ phase = "waiting"
    /\ future[next] = "done"
    /\ NextRow
    /\ UNCHANGED <<future, failures, queue, log>>

\* Mutant: the exception handler counts the row as well.
DeadLetter_CountsTwice ==
    /\ phase' = "sending"
    /\ next' = next + 1
    /\ sentCount' = sentCount + 2
    /\ failures' = failures \union {next}
    /\ Enqueue(Dlq, next) \/ UNCHANGED queue
    /\ UNCHANGED <<future, log>>

\* The send is queued for the dead letter topic, nobody waits for it, and it
\* may itself be refused; run() logs the exception and goes on.
DeadLetter ==
    /\ NextRow
    /\ failures' = failures \union {next}
    /\ Enqueue(Dlq, next) \/ UNCHANGED queue
    /\ UNCHANGED <<future, log>>

\* producer.send itself raises, for want of metadata or of buffer memory.
SendRefused ==
    /\ phase = "sending"
    /\ next \in Txns
    /\ DeadLetter

\* Mutant: a send that times out is tried once more.
SendFails_Resends ==
    /\ phase = "waiting"
    /\ future[next] \in {"failed", "pending"}
    /\ Enqueue(PartitionOf(next), next)
    /\ future' = [future EXCEPT ![next] = "pending"]
    /\ UNCHANGED <<phase, next, sentCount, failures, log>>

\* future.get raises: the record was given up, or ten seconds are over.
SendFails ==
    /\ phase = "waiting"
    /\ future[next] \in {"failed", "pending"}
    /\ DeadLetter

\* flush() returns when no record is queued; then close() and the summary.
Flush ==
    /\ phase = "sending"
    /\ next = N + 1
    /\ phase' = "flushing"
    /\ UNCHANGED <<next, sentCount, future, failures, queue, log>>

\* Mutant: close() insists on an acknowledgement of every send.
Complete_NeedsEveryAck ==
    /\ phase = "flushing"
    /\ \A t \in Txns : future[t] = "done"
    /\ phase' = "complete"
    /\ UNCHANGED <<next, sentCount, future, failures, queue, log>>

Complete ==
    /\ phase = "flushing"
    /\ \A p \in DOMAIN queue : queue[p] = <<>>
    /\ phase' = "complete"
    /\ UNCHANGED <<next, sentCount, future, failures, queue, log>>

\* The process is killed: the records not yet sent go with it.
Crash ==
    /\ phase \notin {"complete", "dead"}
    /\ phase' = "dead"
    /\ queue' = [p \in DOMAIN queue |-> <<>>]
    /\ UNCHANGED <<next, sentCount, future, failures, log>>

-----------------------------------------------------------------------------
\* The sender thread and the broker.

Elems(b) == Range(b.txns)

Resolve(p, b, outcome) ==
    future' = IF p = Dlq THEN future
              ELSE [t \in Txns |-> IF t \in Elems(b) THEN outcome ELSE future[t]]

BrokerAppends(p, b) == log' = [log EXCEPT ![p] = @ \o b.txns]

Deliver(p) ==
    /\ queue[p] # <<>>
    /\ BrokerAppends(p, Head(queue[p]))
    /\ Resolve(p, Head(queue[p]), "done")
    /\ queue' = [queue EXCEPT ![p] = Tail(@)]
    /\ UNCHANGED <<phase, next, sentCount, failures>>

GiveUp(p) ==
    /\ queue' = [queue EXCEPT ![p] = Tail(@)]
    /\ Resolve(p, Head(queue[p]), "failed")

\* Mutant: with several requests in flight the next batch may overtake.
Requeued_Overtaken(q, b) == Append(q, b)

\* max_in_flight_requests_per_connection=1: a retried batch keeps its place.
Requeued(q, b) == <<b>> \o q

\* The request or its answer is lost: the batch is queued again while it has
\* retries left, and is given up otherwise.
RetryOrGiveUp(p) ==
    LET b == Head(queue[p])
    IN  IF b.tries < Retries
        THEN /\ queue' = [queue EXCEPT ![p] = Requeued(Tail(@), [b EXCEPT !.tries = @ + 1])]
             /\ UNCHANGED future
        ELSE GiveUp(p)

LoseRequest(p) ==
    /\ queue[p] # <<>>
    /\ RetryOrGiveUp(p)
    /\ UNCHANGED <<phase, next, sentCount, failures, log>>

LoseAnswer(p) ==
    /\ queue[p] # <<>>
    /\ BrokerAppends(p, Head(queue[p]))
    /\ RetryOrGiveUp(p)
    /\ UNCHANGED <<phase, next, sentCount, failures>>

\* The batch has waited for too long for the broker and is not sent any more.
Expire(p) ==
    /\ queue[p] # <<>>
    /\ GiveUp(p)
    /\ UNCHANGED <<phase, next, sentCount, failures, log>>

Sender(p) == Deliver(p) \/ LoseRequest(p) \/ LoseAnswer(p) \/ Expire(p)

-----------------------------------------------------------------------------
Loop == InitKafka \/ Publish \/ Acknowledged \/ SendRefused \/ SendFails \/ Flush \/ Complete

Next == Loop \/ Crash \/ \E p \in Partitions \union {Dlq} : Sender(p)

\* Both threads keep running until the process ends; which outcome a request
\* has is left open.
Fairness ==
    /\ WF_vars(Loop)
    /\ \A p \in Partitions \union {Dlq} : WF_vars(Sender(p))

Spec == Init /\ [][Next]_vars /\ Fairness

-----------------------------------------------------------------------------
\* No transaction overtakes an older one: what the broker appends to a
\* partition behind a newer transaction was there before that one as well, in
\* a batch whose answer was lost.  So a consumer meets the transactions for
\* the first time in timestamp order, also after timeouts, lost answers and
\* retries (kafka_client.py:44: max_in_flight_requests_per_connection=1).
InOrder(l) ==
    \A i, j \in DOMAIN l : i < j /\ l[j] < l[i] => \E k \in 1 .. i - 1 : l[k] = l[j]

PartitionChronological == \A p \in Partitions : InOrder(log[p])

Copies(l, t) == Cardinality({i \in DOMAIN l : l[i] = t})

\* A transaction is appended at most once for every try the producer has, in
\* whatever batches, and however often the replay loop fails to see it.
BoundedDuplicates ==
    \A p \in Partitions : \A t \in Txns : Copies(log[p], t) <= Retries + 1

Published == UNION {Range(log[p]) : p \in Partitions}

\* A replay that went through Kafka and says it is complete lost nothing
\* silently: what is not in transactions.raw was logged as an error
\* (replay_service.py:135-144).
LogOnly == failures = {} /\ \A t \in Txns : future[t] = "none"

NoSilentLoss ==
    phase = "complete" /\ ~LogOnly => Txns \subseteq failures \union Published

\* The replay ends whatever the broker does: waits, retries and the flush are
\* bounded.
ReplayEnds == <>(phase \in {"complete", "dead"})

-----------------------------------------------------------------------------
(***************************************************************************)
(* The inductive invariant: what is queued and appended for one partition, *)
(* where run() is, and what has become of the transactions.                *)
(***************************************************************************)
\* The batches of q are in order, inside and among themselves; they are newer
\* than all of l, but for a first batch that was appended and is tried again;
\* copies of a batch are at most its tries.
Ascending(b) == \A i, j \in DOMAIN b.txns : i < j => b.txns[i] < b.txns[j]

Newer(b, l) == \A x \in Range(l), y \in Elems(b) : x < y

Repeated(b, l) == b.tries > 0 /\ Elems(b) \subseteq Range(l)

Ordered(q, l) ==
    /\ \A j \in DOMAIN q : Ascending(q[j])
    /\ \A i, j \in DOMAIN q : i < j => \A x \in Elems(q[i]), y \in Elems(q[j]) : x < y
    /\ \A j \in DOMAIN q : Newer(q[j], l) \/ (j = 1 /\ Repeated(q[j], l))
    /\ \A j \in DOMAIN q : \A t \in Elems(q[j]) : Copies(l, t) <= q[j].tries
    /\ InOrder(l)
    /\ \A t \in Txns : Copies(l, t) <= Retries + 1

OrderInv == \A p \in Partitions : Ordered(queue[p], log[p])

\* The loop has handed the transaction to the client.
Sent(t) == t <= next /\ (t = next => phase \in {"waiting", "dead"})

TxnsOf(q) == UNION {Elems(q[j]) : j \in DOMAIN q}

PlaceInv ==
    \A p \in Partitions :
        /\ \A t \in TxnsOf(queue[p]) : PartitionOf(t) = p /\ future[t] = "pending" /\ Sent(t)
        /\ \A t \in Range(log[p]) : Sent(t)

ControlInv ==
    /\ sentCount = next - 1
    /\ phase = "waiting" => next \in Txns
    /\ phase \in {"flushing", "complete"} => next = N + 1
    /\ phase \in {"start", "complete"} => \A p \in Partitions \union {Dlq} : queue[p] = <<>>
    /\ phase = "start" => LogOnly

OutcomeInv ==
    /\ \A t \in Txns : future[t] = "done" => t \in Range(log[PartitionOf(t)])
    /\ \/ phase = "complete" /\ LogOnly
       \/ \A t \in Txns : t < next => t \in failures \/ future[t] = "done"

IInv == TypeOK /\ ControlInv /\ OrderInv /\ PlaceInv /\ OutcomeInv
=============================================================================
