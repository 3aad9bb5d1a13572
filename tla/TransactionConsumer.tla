------------------------- MODULE TransactionConsumer -------------------------
(***************************************************************************)
(* KafkaConsumer of src/streaming/kafka_client.py: one consumer of a group *)
(* reading a topic, its process killed and started again at any time.      *)
(*                                                                         *)
(* kafka-python is modelled from how the class configures it: offsets are  *)
(* committed automatically, while polling and on close; the position of a  *)
(* partition moves past a record when the iterator hands it out, so before *)
(* the handler has seen it; a record that value_deserializer cannot parse  *)
(* raises out of the poll.  The records of one poll are handed out         *)
(* partition by partition; here in any order that respects each partition. *)
(***************************************************************************)
EXTENDS Integers

CONSTANTS
    Partitions,
    Len,            \* records of each partition, at offsets 0 .. Len - 1
    Poisons,        \* the sets of records <<partition, offset>> that may not be JSON
    MaxMessages     \* what consume() is called with as max_messages, 0 for None

ASSUME ConsumerAssumption ==
    /\ Len \in Nat
    /\ MaxMessages \subseteq Nat
    /\ Poisons \subseteq SUBSET (Partitions \X (0 .. Len - 1))

VARIABLES
    poison,     \* records of the topic that do not parse
    phase,      \* where the process is; "down": there is none
    running,    \* _running
    limit,      \* consume()'s max_messages
    count,      \* its count
    position,   \* partition -> next offset the iterator hands out
    fetched,    \* partition -> end of the records that the last poll returned
    committed,  \* partition -> the group's committed offset
    current,    \* the record in the handler
    past        \* history: records handed out whose handler returned or
                \* raised, or that a stop or an interrupt cut off

vars == <<poison, phase, running, limit, count, position, fetched, committed, current, past>>

session == <<running, limit, count>>

Messages == Partitions \X (0 .. Len - 1)
Offsets == [Partitions -> 0 .. Len]
NoMessage == <<>>

TypeOK ==
    /\ poison \in Poisons
    /\ phase \in {"down", "connected", "polling", "handling", "closing"}
    /\ running \in BOOLEAN
    /\ limit \in MaxMessages \union {0}
    /\ count \in Nat /\ (limit > 0 => count <= limit)
    /\ position \in Offsets /\ fetched \in Offsets /\ committed \in Offsets
    /\ current \in Messages \union {NoMessage}
    /\ phase = "handling" <=> current # NoMessage
    /\ past \subseteq Messages \ poison

Init ==
    /\ poison \in Poisons
    /\ phase = "down"
    /\ running = FALSE
    /\ limit = 0
    /\ count = 0
    /\ position = [p \in Partitions |-> 0]
    /\ fetched = [p \in Partitions |-> 0]
    /\ committed = [p \in Partitions |-> 0]
    /\ current = NoMessage
    /\ past = {}

-----------------------------------------------------------------------------
\* Mutant: auto_offset_reset="earliest" taken for where to start.
Connect_AtEarliest ==
    /\ phase = "down"
    /\ phase' = "connected"
    /\ running' = FALSE /\ count' = 0
    /\ position' = [p \in Partitions |-> 0]
    /\ fetched' = position'
    /\ UNCHANGED <<poison, limit, committed, current, past>>

\* A new process: __init__ and connect().
Connect ==
    /\ phase = "down"
    /\ phase' = "connected"
    /\ running' = FALSE /\ count' = 0
    /\ position' = committed
    /\ fetched' = committed
    /\ UNCHANGED <<poison, limit, committed, current, past>>

\* consume() raises the flag, whatever stop() did before.
Consume ==
    /\ phase = "connected"
    /\ phase' = "polling"
    /\ running' = TRUE
    /\ limit' \in MaxMessages
    /\ count' = 0
    /\ UNCHANGED <<poison, position, fetched, committed, current, past>>

Drained == fetched = position

\* The auto-commit timer, while polling.
AutoCommit ==
    /\ phase = "polling"
    /\ Drained
    /\ committed' = position
    /\ UNCHANGED <<poison, phase, session, position, fetched, current, past>>

\* Some records of some partitions arrive; one that does not parse ends the loop.
Poll ==
    /\ phase = "polling"
    /\ Drained
    /\ \E end \in Offsets :
        /\ end # position
        /\ \A p \in Partitions : position[p] <= end[p]
        /\ IF \E m \in poison : position[m[1]] <= m[2] /\ m[2] < end[m[1]]
           THEN phase' = "closing" /\ UNCHANGED fetched
           ELSE fetched' = end /\ UNCHANGED phase
    /\ UNCHANGED <<poison, session, position, committed, current, past>>

\* The iterator hands out the next record; the flag is looked at only here.
Yield(p) ==
    /\ phase = "polling"
    /\ position[p] < fetched[p]
    /\ position' = [position EXCEPT ![p] = @ + 1]
    /\ IF running
       THEN phase' = "handling" /\ current' = <<p, position[p]>> /\ UNCHANGED past
       ELSE phase' = "closing" /\ past' = past \union {<<p, position[p]>>} /\ UNCHANGED current
    /\ UNCHANGED <<poison, session, fetched, committed>>

\* Mutant: max_messages is looked at before the increment.
HandlerReturns_OneMore ==
    /\ phase = "handling"
    /\ past' = past \union {current}
    /\ count' = count + 1
    /\ phase' = IF limit > 0 /\ count >= limit THEN "closing" ELSE "polling"
    /\ current' = NoMessage
    /\ UNCHANGED <<poison, running, limit, position, fetched, committed>>

HandlerReturns ==
    /\ phase = "handling"
    /\ past' = past \union {current}
    /\ count' = count + 1
    /\ phase' = IF limit > 0 /\ count' >= limit THEN "closing" ELSE "polling"
    /\ current' = NoMessage
    /\ UNCHANGED <<poison, running, limit, position, fetched, committed>>

\* Mutant: the exception leaves the for loop, and consume() is called again.
HandlerRaises_Rereads ==
    /\ phase = "handling"
    /\ phase' = "polling"
    /\ current' = NoMessage
    /\ position' = [position EXCEPT ![current[1]] = current[2]]
    /\ fetched' = position'
    /\ UNCHANGED <<poison, session, committed, past>>

\* The error is logged and the record is passed over; it does not count.
HandlerRaises ==
    /\ phase = "handling"
    /\ past' = past \union {current}
    /\ phase' = "polling"
    /\ current' = NoMessage
    /\ UNCHANGED <<poison, session, position, fetched, committed>>

\* KeyboardInterrupt, in the poll or inside the handler.
Interrupt ==
    /\ phase \in {"polling", "handling"}
    /\ phase' = "closing"
    /\ past' = IF phase = "handling" THEN past \union {current} ELSE past
    /\ current' = NoMessage
    /\ UNCHANGED <<poison, session, position, fetched, committed>>

\* Mutant: close() commits what was fetched, not what was handed out.
Close_CommitsFetched ==
    /\ phase = "closing"
    /\ phase' = "down"
    /\ committed' \in {committed, fetched}
    /\ UNCHANGED <<poison, session, position, fetched, current, past>>

\* finally: close(), which commits the positions if the broker answers.
Close ==
    /\ phase = "closing"
    /\ phase' = "down"
    /\ committed' \in {committed, position}
    /\ UNCHANGED <<poison, session, position, fetched, current, past>>

\* Another thread calls stop().
Stop ==
    /\ phase # "down"
    /\ running' = FALSE
    /\ UNCHANGED <<poison, phase, limit, count, position, fetched, committed, current, past>>

Crash ==
    /\ phase # "down"
    /\ phase' = "down"
    /\ current' = NoMessage
    /\ UNCHANGED <<poison, session, position, fetched, committed, past>>

-----------------------------------------------------------------------------
Loop == Consume \/ Poll \/ (\E p \in Partitions : Yield(p)) \/ HandlerReturns \/ HandlerRaises \/ Close

Next == Connect \/ Loop \/ AutoCommit \/ Interrupt \/ Stop \/ Crash

\* The loop runs while the process does, a handler ends, and the auto-commit
\* timer fires; nothing restarts the process, stops or kills it.
Fairness == WF_vars(Loop) /\ WF_vars(AutoCommit)

Spec == Init /\ [][Next]_vars /\ Fairness

-----------------------------------------------------------------------------
\* At least once: a killed process loses no record.  Whatever the group has
\* committed was handed out, and its handler ended unless the consumer was
\* stopped or interrupted (kafka_client.py:127-150).
CommittedWereHandedOut ==
    \A m \in Messages : m[2] < committed[m[1]] => m \in past

\* No restart takes the group back to records that it has committed.
CommitsNeverRegress ==
    [][\A p \in Partitions : committed[p] <= committed'[p]]_vars

\* A consumer that is left running gets through the topic and commits it,
\* also when handlers raise; a record that does not parse ends it instead.
CatchesUp ==
    <>[](phase \in {"connected", "polling", "handling"}) =>
        <>(\A p \in Partitions : committed[p] = Len)

-----------------------------------------------------------------------------
\* The inductive invariant behind the safety properties: in a living process
\* the offsets of a partition are in order, and whatever is below a position
\* has an outcome or is in the handler.
OffsetsInOrder ==
    \A p \in Partitions : committed[p] <= position[p] /\ position[p] <= fetched[p]

FetchedParse ==
    \A m \in poison : ~(position[m[1]] <= m[2] /\ m[2] < fetched[m[1]])

PassedHaveOutcome ==
    \A m \in Messages : m[2] < position[m[1]] =>
        m \in past \/ m = current

BelowMaxMessages ==
    phase \in {"connected", "polling", "handling"} /\ limit > 0 => count < limit

IInv ==
    /\ TypeOK
    /\ CommittedWereHandedOut
    /\ BelowMaxMessages
    /\ phase # "down" => OffsetsInOrder /\ FetchedParse /\ PassedHaveOutcome
    /\ current \notin poison

=============================================================================
