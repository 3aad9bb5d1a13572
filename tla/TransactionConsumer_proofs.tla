--------------------- MODULE TransactionConsumer_proofs ---------------------
(***************************************************************************)
(* Proofs about TransactionConsumer: its types, delivery at least once and *)
(* commits that never go back, for any partitions, any number of records   *)
(* and any records that do not parse.                                      *)
(***************************************************************************)
EXTENDS TransactionConsumer, TLAPS

\* TypeOK without the set of the three offset functions.
LEMMA Types ==
    ASSUME TypeOK
    PROVE  /\ position \in [Partitions -> 0 .. Len]
           /\ fetched \in [Partitions -> 0 .. Len]
           /\ committed \in [Partitions -> 0 .. Len]
BY DEF TypeOK, Offsets

\* A record is told from no record, and given by its partition and offset.
LEMMA MessageFacts ==
    ASSUME NEW m \in Messages
    PROVE  /\ m # NoMessage
           /\ m[1] \in Partitions /\ m[2] \in 0 .. Len - 1
           /\ m = <<m[1], m[2]>>
BY DEF Messages, NoMessage

\* A record that does not parse is one of the topic.
LEMMA PoisonFacts ==
    ASSUME TypeOK
    PROVE  poison \subseteq Messages /\ NoMessage \notin poison
<1>1. poison \subseteq Messages
    BY ConsumerAssumption DEF TypeOK, Messages
<1> QED
    BY <1>1, MessageFacts

-----------------------------------------------------------------------------
\* Each action preserves the invariant.

LEMMA InitInv == Init => IInv
<1> SUFFICES ASSUME Init PROVE IInv
    OBVIOUS
<1>1. TypeOK
  <2>1. [p \in Partitions |-> 0] \in Offsets
      BY ConsumerAssumption DEF Offsets
  <2>2. /\ limit \in MaxMessages \union {0}
        /\ count \in Nat /\ (limit > 0 => count <= limit)
      BY DEF Init
  <2>3. past \subseteq Messages \ poison
      BY DEF Init
  <2> QED
      BY <2>1, <2>2, <2>3 DEF Init, TypeOK
<1>2. CommittedWereHandedOut
    BY MessageFacts DEF Init, CommittedWereHandedOut
<1>3. current \notin poison
    BY <1>1, PoisonFacts DEF Init
<1> QED
    BY <1>1, <1>2, <1>3 DEF IInv, Init, BelowMaxMessages

LEMMA ConnectInv == IInv /\ Connect => IInv'
<1> SUFFICES ASSUME IInv, Connect PROVE IInv'
    OBVIOUS
<1> USE DEF IInv, Connect
<1>1. TypeOK'
  <2>1. count' \in Nat /\ (limit' > 0 => count' <= limit')
    <3>1. limit \in Nat
        BY ConsumerAssumption DEF TypeOK
    <3> QED
        BY <3>1
  <2>2. current' = current /\ ~(phase = "handling") /\ ~(phase' = "handling")
      OBVIOUS
  <2> QED
      BY <2>1, <2>2 DEF TypeOK
<1>2. OffsetsInOrder' /\ FetchedParse'
  <2>1. \A m \in poison : m[1] \in Partitions /\ m[2] \in 0 .. Len - 1
      BY PoisonFacts, MessageFacts
  <2> QED
      BY <2>1, Types, ConsumerAssumption DEF OffsetsInOrder, FetchedParse
<1>3. CommittedWereHandedOut' /\ PassedHaveOutcome'
    BY DEF CommittedWereHandedOut, PassedHaveOutcome
<1>4. BelowMaxMessages'
    BY ConsumerAssumption DEF BelowMaxMessages
<1> QED
    BY <1>1, <1>2, <1>3, <1>4

LEMMA AutoCommitInv == IInv /\ AutoCommit => IInv'
<1> SUFFICES ASSUME IInv, AutoCommit PROVE IInv'
    OBVIOUS
<1> USE DEF IInv, AutoCommit, session
<1>1. TypeOK'
    BY DEF TypeOK
<1>2. OffsetsInOrder' /\ FetchedParse'
    BY Types, ConsumerAssumption DEF OffsetsInOrder, FetchedParse
<1>3. current = NoMessage
    BY DEF TypeOK
<1>4. CommittedWereHandedOut' /\ PassedHaveOutcome'
    BY <1>3, MessageFacts DEF CommittedWereHandedOut, PassedHaveOutcome
<1>5. BelowMaxMessages'
    BY DEF BelowMaxMessages
<1> QED
    BY <1>1, <1>2, <1>4, <1>5

LEMMA PollInv == IInv /\ Poll => IInv'
<1> SUFFICES ASSUME IInv, Poll PROVE IInv'
    OBVIOUS
<1>1. PICK end \in Offsets :
        /\ \A p \in Partitions : position[p] <= end[p]
        /\ IF \E m \in poison : position[m[1]] <= m[2] /\ m[2] < end[m[1]]
           THEN phase' = "closing" /\ UNCHANGED fetched
           ELSE fetched' = end /\ UNCHANGED phase
    BY DEF Poll
<1>2. phase = "polling" /\ UNCHANGED <<poison, session, position, committed, current, past>>
    BY DEF Poll
<1> USE DEF IInv, session
<1>3. TypeOK'
    BY <1>1, <1>2 DEF TypeOK
<1>4. OffsetsInOrder' /\ FetchedParse'
    BY <1>1, <1>2 DEF OffsetsInOrder, FetchedParse
<1>5. CommittedWereHandedOut' /\ PassedHaveOutcome'
    BY <1>2 DEF CommittedWereHandedOut, PassedHaveOutcome
<1>6. BelowMaxMessages'
    BY <1>1, <1>2 DEF BelowMaxMessages
<1> QED
    BY <1>2, <1>3, <1>4, <1>5, <1>6

LEMMA YieldInv == ASSUME IInv, NEW p \in Partitions, Yield(p) PROVE IInv'
<1> DEFINE m == <<p, position[p]>>
<1> USE DEF IInv
<1>1. /\ phase = "polling"
      /\ position[p] < fetched[p]
      /\ position' = [position EXCEPT ![p] = @ + 1]
      /\ UNCHANGED <<poison, running, limit, count, fetched, committed>>
    BY DEF Yield, session
<1>2. \/ phase' = "handling" /\ current' = m /\ past' = past
      \/ phase' = "closing" /\ current' = current /\ past' = past \union {m}
    BY DEF Yield
<1>3. /\ position \in [Partitions -> 0 .. Len] /\ fetched \in [Partitions -> 0 .. Len]
      /\ committed \in [Partitions -> 0 .. Len]
      /\ current = NoMessage
    BY <1>1, Types DEF TypeOK
<1>4. m \in Messages /\ m \notin poison
  <2>1. m \in Messages
      BY <1>1, <1>3, ConsumerAssumption DEF Messages
  <2>2. m[1] = p /\ m[2] = position[p]
      OBVIOUS
  <2> QED
      BY <1>1, <1>3, <2>1, <2>2, ConsumerAssumption DEF FetchedParse
<1>5. TypeOK'
  <2>1. position' \in Offsets
      BY <1>1, <1>3, ConsumerAssumption DEF Offsets
  <2>2. phase' = "handling" <=> current' # NoMessage
      BY <1>2, <1>3, <1>4, MessageFacts
  <2> HIDE DEF m
  <2> QED
      BY <1>1, <1>2, <1>4, <2>1, <2>2 DEF TypeOK
<1>6. OffsetsInOrder' /\ FetchedParse'
  <2>1. OffsetsInOrder'
      BY <1>1, <1>3, ConsumerAssumption DEF OffsetsInOrder
  <2>2. ASSUME NEW x \in poison'
        PROVE  ~(position'[x[1]] <= x[2] /\ x[2] < fetched'[x[1]])
    <3>1. x \in poison /\ x[1] \in Partitions /\ x[2] \in 0 .. Len - 1
        BY <1>1, PoisonFacts, MessageFacts
    <3> QED
        BY <1>1, <1>3, <3>1, ConsumerAssumption DEF FetchedParse
  <2> QED
      BY <2>1, <2>2 DEF FetchedParse
<1>7. CommittedWereHandedOut'
    BY <1>1, <1>2 DEF CommittedWereHandedOut
<1>8. PassedHaveOutcome'
  <2> SUFFICES ASSUME NEW x \in Messages, x[2] < position'[x[1]]
               PROVE  x \in past' \/ x = current'
      BY DEF PassedHaveOutcome
  <2>1. x[1] \in Partitions /\ x[2] \in Int /\ x = <<x[1], x[2]>> /\ x # NoMessage
      BY MessageFacts, ConsumerAssumption
  <2>2. CASE x[2] < position[x[1]]
      BY <1>1, <1>2, <1>3, <2>1, <2>2 DEF PassedHaveOutcome
  <2>3. CASE ~(x[2] < position[x[1]])
    <3>1. x[1] = p /\ x[2] = position[p]
        BY <1>1, <1>3, <2>1, <2>3, ConsumerAssumption
    <3>2. x = m
        BY <2>1, <3>1
    <3> QED
        BY <1>2, <3>2
  <2> QED
      BY <2>2, <2>3
<1>9. BelowMaxMessages'
    BY <1>1, <1>2 DEF BelowMaxMessages
<1>10. current' \notin poison'
    BY <1>1, <1>2, <1>4
<1> HIDE DEF m
<1> QED
    BY <1>5, <1>6, <1>7, <1>8, <1>9, <1>10

\* Whichever way the handler ends, its record gets an outcome.
LEMMA HandlerEndsInv ==
    ASSUME IInv, phase = "handling",
           past' = past \union {current},
           current' = NoMessage,
           UNCHANGED <<poison, position, fetched, committed>>
    PROVE  /\ past' \subseteq Messages \ poison'
           /\ CommittedWereHandedOut'
           /\ OffsetsInOrder' /\ FetchedParse' /\ PassedHaveOutcome'
           /\ current' \notin poison'
<1> USE DEF IInv
<1>1. current \in Messages \ poison
    BY DEF TypeOK
<1>2. past' \subseteq Messages \ poison'
    BY <1>1 DEF TypeOK
<1>3. CommittedWereHandedOut'
    BY DEF CommittedWereHandedOut
<1>4. OffsetsInOrder' /\ FetchedParse'
    BY DEF OffsetsInOrder, FetchedParse
<1>5. PassedHaveOutcome'
    BY DEF PassedHaveOutcome
<1>6. current' \notin poison'
    BY PoisonFacts
<1> QED
    BY <1>2, <1>3, <1>4, <1>5, <1>6

LEMMA HandlerReturnsInv == IInv /\ HandlerReturns => IInv'
<1> SUFFICES ASSUME IInv, HandlerReturns PROVE IInv'
    OBVIOUS
<1>1. /\ phase = "handling" /\ current' = NoMessage
      /\ past' = past \union {current} /\ count' = count + 1
      /\ UNCHANGED <<poison, running, limit, position, fetched, committed>>
      /\ phase' = IF limit > 0 /\ count' >= limit THEN "closing" ELSE "polling"
    BY DEF HandlerReturns
<1>2. /\ past' \subseteq Messages \ poison'
      /\ CommittedWereHandedOut'
      /\ OffsetsInOrder' /\ FetchedParse' /\ PassedHaveOutcome'
      /\ current' \notin poison'
    BY <1>1, HandlerEndsInv
<1>3. /\ count' \in Nat /\ (limit > 0 => count' <= limit)
      /\ BelowMaxMessages'
    BY <1>1, ConsumerAssumption DEF IInv, TypeOK, BelowMaxMessages
<1>4. TypeOK'
    BY <1>1, <1>2, <1>3 DEF IInv, TypeOK
<1> QED
    BY <1>2, <1>3, <1>4 DEF IInv

LEMMA HandlerRaisesInv == IInv /\ HandlerRaises => IInv'
<1> SUFFICES ASSUME IInv, HandlerRaises PROVE IInv'
    OBVIOUS
<1>1. /\ phase = "handling" /\ phase' = "polling" /\ current' = NoMessage
      /\ past' = past \union {current}
      /\ UNCHANGED <<poison, running, limit, count, position, fetched, committed>>
    BY DEF HandlerRaises, session
<1>2. /\ past' \subseteq Messages \ poison'
      /\ CommittedWereHandedOut'
      /\ OffsetsInOrder' /\ FetchedParse' /\ PassedHaveOutcome'
      /\ current' \notin poison'
    BY <1>1, HandlerEndsInv
<1>3. TypeOK' /\ BelowMaxMessages'
    BY <1>1, <1>2 DEF IInv, TypeOK, BelowMaxMessages
<1> QED
    BY <1>2, <1>3 DEF IInv

LEMMA InterruptInv == IInv /\ Interrupt => IInv'
<1> SUFFICES ASSUME IInv, Interrupt PROVE IInv'
    OBVIOUS
<1>1. /\ phase' = "closing" /\ current' = NoMessage
      /\ UNCHANGED <<poison, running, limit, count, position, fetched, committed>>
    BY DEF Interrupt, session
<1>2. CASE phase = "handling"
  <2>1. past' = past \union {current}
      BY <1>2 DEF Interrupt
  <2>2. /\ past' \subseteq Messages \ poison'
        /\ CommittedWereHandedOut'
        /\ OffsetsInOrder' /\ FetchedParse' /\ PassedHaveOutcome'
        /\ current' \notin poison'
      BY <1>1, <1>2, <2>1, HandlerEndsInv
  <2>3. TypeOK' /\ BelowMaxMessages'
      BY <1>1, <2>2 DEF IInv, TypeOK, BelowMaxMessages
  <2> QED
      BY <2>2, <2>3 DEF IInv
<1>3. CASE phase = "polling"
  <2>1. past' = past /\ current' = current
      BY <1>1, <1>3 DEF Interrupt, IInv, TypeOK
  <2> QED
      BY <1>1, <1>3, <2>1 DEF IInv, TypeOK, CommittedWereHandedOut, BelowMaxMessages,
         OffsetsInOrder, FetchedParse, PassedHaveOutcome
<1> QED
    BY <1>2, <1>3 DEF Interrupt

LEMMA CloseInv == IInv /\ Close => IInv'
<1> SUFFICES ASSUME IInv, Close PROVE IInv'
    OBVIOUS
<1> USE DEF IInv, Close, session
<1>1. current = NoMessage
    BY DEF TypeOK
<1>2. TypeOK' /\ BelowMaxMessages'
    BY DEF TypeOK, BelowMaxMessages
<1>3. CommittedWereHandedOut'
  <2>1. CASE committed' = committed
      BY <2>1 DEF CommittedWereHandedOut
  <2>2. CASE committed' = position
      BY <1>1, <2>2, MessageFacts DEF CommittedWereHandedOut, PassedHaveOutcome
  <2> QED
      BY <2>1, <2>2
<1> QED
    BY <1>2, <1>3

\* The steps that touch no offset and no outcome.
LEMMA OtherInv == IInv /\ (Consume \/ Stop \/ Crash) => IInv'
<1> SUFFICES ASSUME IInv, Consume \/ Stop \/ Crash PROVE IInv'
    OBVIOUS
<1>1. UNCHANGED <<position, fetched, committed, past, poison>>
    BY DEF Consume, Stop, Crash, session
<1>2. TypeOK' /\ BelowMaxMessages' /\ current' \notin poison'
  <2>1. CASE Consume
      BY <1>1, <2>1, ConsumerAssumption DEF Consume, IInv, TypeOK, BelowMaxMessages
  <2>2. CASE Stop
      BY <1>1, <2>2 DEF Stop, IInv, TypeOK, BelowMaxMessages
  <2>3. CASE Crash
    <3>1. NoMessage \notin poison
        BY PoisonFacts DEF IInv
    <3> QED
        BY <1>1, <2>3, <3>1 DEF Crash, session, IInv, TypeOK, BelowMaxMessages
  <2> QED
      BY <2>1, <2>2, <2>3
<1>3. CommittedWereHandedOut'
    BY <1>1 DEF IInv, CommittedWereHandedOut
<1>4. phase' # "down" => phase # "down" /\ current' = current
    BY DEF Consume, Stop, Crash
<1>5. phase' # "down" => OffsetsInOrder' /\ FetchedParse' /\ PassedHaveOutcome'
    BY <1>1, <1>4 DEF IInv, OffsetsInOrder, FetchedParse, PassedHaveOutcome
<1> QED
    BY <1>2, <1>3, <1>5 DEF IInv

LEMMA StepInv == IInv /\ [Next]_vars => IInv'
<1> SUFFICES ASSUME IInv, [Next]_vars PROVE IInv'
    OBVIOUS
<1>1. CASE Loop
    BY <1>1, PollInv, YieldInv, HandlerReturnsInv, HandlerRaisesInv, CloseInv, OtherInv DEF Loop
<1>2. CASE Connect \/ AutoCommit \/ Interrupt \/ Stop \/ Crash
    BY <1>2, ConnectInv, AutoCommitInv, InterruptInv, OtherInv
<1>3. CASE UNCHANGED vars
    BY <1>3 DEF vars, IInv, TypeOK, CommittedWereHandedOut, BelowMaxMessages,
       OffsetsInOrder, FetchedParse, PassedHaveOutcome
<1> QED
    BY <1>1, <1>2, <1>3 DEF Next

LEMMA Inductive == Spec => []IInv
BY InitInv, StepInv, PTL DEF Spec

-----------------------------------------------------------------------------
\* Every variable of the consumer keeps its type; max_messages is never
\* exceeded, and no record that does not parse reaches a handler.
THEOREM TypeCorrect == Spec => []TypeOK
<1>1. IInv => TypeOK
    BY DEF IInv
<1> QED
    BY <1>1, Inductive, PTL

\* At least once: whatever the group has committed was handed out, wherever
\* the process was killed, stopped or interrupted.
THEOREM AtLeastOnce == Spec => []CommittedWereHandedOut
<1>1. IInv => CommittedWereHandedOut
    BY DEF IInv
<1> QED
    BY <1>1, Inductive, PTL

\* Committed offsets never go back.
THEOREM OffsetsForward == Spec => CommitsNeverRegress
<1> DEFINE Forward == \A p \in Partitions : committed[p] <= committed'[p]
<1>1. IInv /\ [Next]_vars => [Forward]_vars
  <2> SUFFICES ASSUME IInv, Next, NEW p \in Partitions PROVE committed[p] <= committed'[p]
      OBVIOUS
  <2>1. committed[p] \in Int
      BY Types DEF IInv
  <2>2. committed' = committed \/ (phase # "down" /\ committed' = position)
      BY DEF Next, Loop, Connect, Consume, Poll, Yield, HandlerReturns, HandlerRaises,
         Close, AutoCommit, Interrupt, Stop, Crash
  <2> QED
      BY <2>1, <2>2 DEF IInv, OffsetsInOrder
<1> QED
    BY <1>1, Inductive, PTL DEF Spec, CommitsNeverRegress
=============================================================================
