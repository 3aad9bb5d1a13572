---------------------- MODULE PredictionService_proofs ----------------------
(***************************************************************************)
(* Proofs about PredictionService and the RiskScoring it answers with: the *)
(* score keeps the order of the probabilities, and so do the level and the *)
(* decision, and the score of a batch is that of the requests one by one;  *)
(* the types of the service, the order of the answers, the counters        *)
(* against what the clients were told, and the monotone answers; for any   *)
(* transactions, probabilities, batch size, bands, level of the root       *)
(* logger and number of requests and crashes.                              *)
(***************************************************************************)
EXTENDS PredictionService, FiniteSetTheorems, TLAPS

-----------------------------------------------------------------------------
\* The scores, levels and decisions of RiskScoring.

LEMMA ScoringFacts ==
    /\ MaxScore \in Nat \ {0}
    /\ LowMax \in Int /\ MediumMax \in Int /\ HighMax \in Int
    /\ ApproveMax \in Int /\ ReviewMax \in Int
    /\ LowMax < MediumMax /\ MediumMax < HighMax
    /\ ApproveMax < ReviewMax
    /\ Lost \subseteq 1 .. MaxScore - 1
BY ScoringAssumption

\* A half point is a boundary or lies between two of them.
LEMMA HalfPoint ==
    ASSUME NEW h \in Int
    PROVE  /\ h \div 2 \in Int /\ h % 2 \in {0, 1}
           /\ h % 2 = h - 2 * (h \div 2)
<1>1. h \div 2 \in Int
    OBVIOUS
<1>2. h % 2 \in 0 .. 1
    OBVIOUS
<1>3. h % 2 = h - 2 * (h \div 2)
    OBVIOUS
<1>4. h % 2 \in {0, 1}
    BY <1>2
<1> QED
    BY <1>1, <1>3, <1>4

LEMMA TruncatedBounds ==
    ASSUME NEW h \in Nat
    PROVE  /\ Truncated(h) \in Nat
           /\ Truncated(h) <= h \div 2
           /\ h \div 2 - 1 <= Truncated(h)
           /\ h % 2 = 1 => Truncated(h) = h \div 2
<1>1. h \div 2 \in Nat /\ h % 2 \in {0, 1}
    BY HalfPoint
<1>2. h \div 2 \in Lost => h \div 2 >= 1
    BY ScoringFacts
<1> QED
    BY <1>1, <1>2 DEF Truncated

\* Truncation keeps the order: a boundary that is lost falls to the score just
\* below it, where its lower neighbours are.
LEMMA TruncatedMonotone ==
    ASSUME NEW h \in Nat, NEW k \in Nat, h <= k
    PROVE  Truncated(h) <= Truncated(k)
<1>1. /\ h \div 2 \in Int /\ h % 2 \in {0, 1} /\ h % 2 = h - 2 * (h \div 2)
      /\ k \div 2 \in Int /\ k % 2 \in {0, 1} /\ k % 2 = k - 2 * (k \div 2)
    BY HalfPoint
<1>2. CASE h = k
    BY <1>2, TruncatedBounds
<1>3. CASE h \div 2 < k \div 2
  <2> DEFINE a == h \div 2
             b == k \div 2
  <2>1. /\ a \in Int /\ b \in Int /\ a < b
        /\ Truncated(h) \in Int /\ Truncated(h) <= a
        /\ Truncated(k) \in Int /\ b - 1 <= Truncated(k)
      BY <1>1, <1>3, TruncatedBounds
  <2> HIDE DEF a, b
  <2> QED
      BY <2>1
<1>4. CASE h \div 2 = k \div 2 /\ h # k
  <2>1. k % 2 = 1
      BY <1>1, <1>4
  <2> QED
      BY <2>1, <1>1, <1>4, TruncatedBounds
<1> QED
    BY <1>1, <1>2, <1>3, <1>4

LEMMA ClipFacts ==
    ASSUME NEW low \in Int, NEW high \in Int, low <= high
    PROVE  /\ \A x \in Int : Clip(x, low, high) \in low .. high
           /\ \A x \in low .. high : Clip(x, low, high) = x
           /\ \A x, y \in Int : x <= y => Clip(x, low, high) <= Clip(y, low, high)
BY DEF Clip

\* What the scores of all probabilities are, also of those out of range.
LEMMA ScoreFacts ==
    ASSUME NEW h \in Int
    PROVE  /\ Clip(h, 0, 2 * MaxScore) \in Nat
           /\ Truncated(Clip(h, 0, 2 * MaxScore)) \in Nat
           /\ Score(h) \in Scores
<1>1. Clip(h, 0, 2 * MaxScore) \in Nat
    BY ScoringFacts, ClipFacts
<1>2. Truncated(Clip(h, 0, 2 * MaxScore)) \in Nat
    BY <1>1, TruncatedBounds
<1>3. \A x \in Nat : Clip(x, 0, MaxScore) \in 0 .. MaxScore
    BY ScoringFacts, ClipFacts
<1> QED
    BY <1>1, <1>2, <1>3 DEF Score, Scores

\* A higher probability has no lower score (risk_scorer.py:43), whichever
\* boundaries floating point moves.
THEOREM ScoreMonotone ==
    ASSUME NEW h \in Int, NEW k \in Int, h <= k
    PROVE  Score(h) <= Score(k)
<1> DEFINE a == Clip(h, 0, 2 * MaxScore)
           b == Clip(k, 0, 2 * MaxScore)
<1>1. a \in Nat /\ b \in Nat
    BY ScoreFacts
<1>2. a <= b
    BY ScoringFacts DEF Clip
<1> HIDE DEF a, b
<1>3. Truncated(a) \in Nat /\ Truncated(b) \in Nat /\ Truncated(a) <= Truncated(b)
    BY <1>1, <1>2, TruncatedBounds, TruncatedMonotone
<1>4. Clip(Truncated(a), 0, MaxScore) <= Clip(Truncated(b), 0, MaxScore)
    BY <1>3, ScoringFacts DEF Clip
<1> QED
    BY <1>4 DEF Score, a, b

\* A higher score has no milder level (risk_scorer.py:46) and no milder decision
\* (decision_engine.py:94): the bands leave no score out and do not overlap.
THEOREM BandsMonotone ==
    ASSUME NEW s \in Scores, NEW t \in Scores, s <= t
    PROVE  /\ Level(s) \in Levels /\ Decision(s) \in Decisions
           /\ Strictness(Level(s)) <= Strictness(Level(t))
           /\ Strictness(Decision(s)) <= Strictness(Decision(t))
<1>1. s \in Int /\ t \in Int
    BY ScoringFacts DEF Scores
<1>2. Level(s) \in Levels /\ Decision(s) \in Decisions
    BY <1>1, ScoringFacts DEF Level, Decision, Levels, Decisions
<1>3. Strictness(Level(s)) <= Strictness(Level(t))
  <2>1. ASSUME NEW x \in Scores
        PROVE Strictness(Level(x)) = IF x <= LowMax THEN 0
                                     ELSE IF x <= MediumMax THEN 1
                                     ELSE IF x <= HighMax THEN 2 ELSE 3
      BY ScoringFacts DEF Level, Strictness, Scores
  <2> QED
      BY <2>1, <1>1, ScoringFacts
<1>4. Strictness(Decision(s)) <= Strictness(Decision(t))
  <2>1. ASSUME NEW x \in Scores
        PROVE Strictness(Decision(x)) = IF x <= ApproveMax THEN 0
                                        ELSE IF x <= ReviewMax THEN 1 ELSE 3
      BY ScoringFacts DEF Decision, Strictness, Scores
  <2> QED
      BY <2>1, <1>1, ScoringFacts
<1> QED
    BY <1>2, <1>3, <1>4

\* batch_assess, which does not clip the probabilities before the root
\* (risk_scorer.py:65), gives each the score of assess, out of range or not.
THEOREM BatchAgrees ==
    ASSUME NEW h \in Int
    PROVE  BatchScore(h) = Score(h)
<1>1. MaxScore \in Nat \ {0} /\ Lost \subseteq 1 .. MaxScore - 1
    BY ScoringFacts
<1>2. CASE h < 0
  <2>1. Clip(h, 0, 2 * MaxScore) = 0
      BY <1>1, <1>2 DEF Clip
  <2>2. 0 % 2 = 0 /\ 0 \div 2 = 0
      OBVIOUS
  <2>3. Truncated(0) = 0
      BY <1>1, <2>2 DEF Truncated
  <2> QED
      BY <1>1, <1>2, <2>1, <2>3 DEF Score, BatchScore, Clip
<1>3. CASE h \in 0 .. 2 * MaxScore
  <2>1. Clip(h, 0, 2 * MaxScore) = h
      BY <1>1, <1>3, ClipFacts
  <2> QED
      BY <1>1, <1>3, <2>1 DEF Score, BatchScore
<1>4. CASE h > 2 * MaxScore
  <2>1. Clip(h, 0, 2 * MaxScore) = 2 * MaxScore
      BY <1>1, <1>4 DEF Clip
  <2>2. (2 * MaxScore) % 2 = 0 /\ (2 * MaxScore) \div 2 = MaxScore
      BY <1>1
  <2>3. Truncated(2 * MaxScore) = MaxScore
      BY <1>1, <2>2 DEF Truncated
  <2>4. Truncated(h) >= MaxScore /\ Truncated(h) \in Int
    <3>1. Truncated(2 * MaxScore) <= Truncated(h) /\ Truncated(h) \in Int
        BY <1>1, <1>4, TruncatedMonotone, TruncatedBounds
    <3> QED
        BY <3>1, <2>3
  <2>5. Clip(Truncated(h), 0, MaxScore) = MaxScore /\ Clip(MaxScore, 0, MaxScore) = MaxScore
      BY <1>1, <2>4 DEF Clip
  <2> QED
      BY <1>1, <1>4, <2>1, <2>3, <2>5 DEF Score, BatchScore
<1> QED
    BY <1>1, <1>2, <1>3, <1>4

-----------------------------------------------------------------------------
\* Sequences.

LEMMA Longer ==
    ASSUME NEW S, NEW q \in Seq(S), NEW x \in S
    PROVE  /\ Append(q, x) \in Seq(S)
           /\ Len(Append(q, x)) = Len(q) + 1 /\ Len(q) \in Nat
           /\ DOMAIN q = 1 .. Len(q)
           /\ DOMAIN Append(q, x) = (1 .. Len(q)) \cup {Len(q) + 1}
           /\ Len(q) + 1 \notin DOMAIN q
           /\ \A i \in 1 .. Len(q) : Append(q, x)[i] = q[i]
           /\ Append(q, x)[Len(q) + 1] = x
OBVIOUS

-----------------------------------------------------------------------------
\* Types.

JobType == [kind : {"none", "single", "batch"}, txns : Seq(Txns), done : Seq(Response),
            scored : SUBSET Prediction]

AnswerType == [kind : {"single", "batch"}, txns : Seq(Txns), responses : Seq(Response)]

\* TypeOK, of each variable.
LEMMA Types ==
    ASSUME TypeOK
    PROVE  /\ phase \in {"down", "idle", "score", "meter", "audit"}
           /\ job \in JobType /\ job.kind \in {"none", "single", "batch"}
           /\ job.txns \in Seq(Txns) /\ job.done \in Seq(Response)
           /\ job.scored \in SUBSET Prediction
           /\ counted \in [Decisions -> Nat] /\ processed \in Nat /\ alerts \in Nat
           /\ trail \in Seq(Records)
           /\ answered \in Seq(AnswerType) /\ Len(answered) \in Nat
           /\ since \in 0 .. Len(answered) /\ since \in Nat
BY DEF TypeOK, JobType, AnswerType

LEMMA NobodyType == Nobody \in JobType
BY DEF Nobody, JobType

\* A record that is dropped leaves the trail alone.
LEMMA EmitType ==
    ASSUME TypeOK, NEW record \in Records, Emit(record)
    PROVE  trail' \in Seq(Records)
<1>1. trail \in Seq(Records)
    BY Types
<1>2. trail' = Append(trail, record) \/ trail' = trail
    BY DEF Emit
<1> QED
    BY <1>1, <1>2, Longer

LEMMA RecordTypes ==
    /\ \A p \in Prediction : [kind |-> "PREDICTION", prediction |-> p] \in Records
    /\ \A key \in Keys \cup {NoKey} : [kind |-> "ADMIN", user |-> key] \in Records
BY DEF Records

\* What the engine makes of a probability is an assessment, and no failure.
LEMMA DecideType ==
    ASSUME NEW h \in Probabilities
    PROVE  /\ Decide(h) \in Assessment /\ Decide(h) # Failed
           /\ Decide(h).decision \in Decisions
<1>1. h \in Int
    BY ServiceAssumption, ScoringFacts
<1>2. Score(h) \in Scores
    BY <1>1, ScoreFacts
<1>3. Score(h) <= Score(h)
    BY <1>2, ScoringFacts DEF Scores
<1>4. Level(Score(h)) \in Levels /\ Decision(Score(h)) \in Decisions
    BY <1>2, <1>3, BandsMonotone
<1>5. Decide(h) \in Assessment /\ Decide(h).decision \in Decisions
    BY <1>2, <1>4 DEF Decide, Assessment
<1>6. Decide(h).level \in Levels /\ Failed.level = "UNKNOWN" /\ "UNKNOWN" \notin Levels
    BY <1>4 DEF Decide, Failed, Levels
<1> QED
    BY <1>5, <1>6

LEMMA CurrentType ==
    ASSUME TypeOK, JobInv, Handling
    PROVE  Current \in Txns
<1>1. job.txns \in Seq(Txns) /\ job.done \in Seq(Response) /\ Len(job.done) < Len(job.txns)
    BY Types DEF JobInv
<1>2. Len(job.done) + 1 \in 1 .. Len(job.txns)
    BY <1>1
<1> QED
    BY <1>1, <1>2 DEF Current

\* The prediction that is counted, recorded and answered.
LEMMA ScoredFacts ==
    ASSUME TypeOK, JobInv, phase \in {"meter", "audit"}
    PROVE  \E h \in Probabilities, p \in Prediction :
              /\ job.scored = {p}
              /\ p = [txn |-> Current, prob |-> h, result |-> Decide(h)]
<1>1. PICK h \in Probabilities :
          job.scored = {[txn |-> Current, prob |-> h, result |-> Decide(h)]}
    BY DEF JobInv
<1>2. Current \in Txns /\ Decide(h) \in Assessment
    BY CurrentType, DecideType DEF Handling
<1>3. [txn |-> Current, prob |-> h, result |-> Decide(h)] \in Prediction
    BY <1>2 DEF Prediction
<1> QED
    BY <1>1, <1>3

\* The two ways in which a response goes on: the last one is answered, another
\* one is kept with those before it.
LEMMA Responding ==
    ASSUME TypeOK, JobInv, Handling, NEW response \in Response, Respond(response)
    PROVE  LET done == Append(job.done, response)
               answer == [kind |-> job.kind, txns |-> job.txns, responses |-> done]
               going == [job EXCEPT !.done = done, !.scored = {}]
           IN  /\ done \in Seq(Response)
               /\ Len(done) = Len(job.done) + 1 /\ Len(done) <= Len(job.txns)
               /\ answer \in AnswerType /\ going \in JobType
               /\ \/ /\ Len(done) = Len(job.txns)
                     /\ answered' = Append(answered, answer) /\ status' = "ok"
                     /\ phase' = "idle" /\ job' = Nobody
                  \/ /\ Len(done) < Len(job.txns)
                     /\ UNCHANGED <<answered, status>>
                     /\ phase' = "score" /\ job' = going
<1> DEFINE done == Append(job.done, response)
<1>1. /\ job \in JobType /\ job.done \in Seq(Response) /\ job.txns \in Seq(Txns)
      /\ job.kind \in {"single", "batch"} /\ Len(job.done) < Len(job.txns)
    BY Types DEF JobInv
<1>2. \/ /\ Len(done) = Len(job.txns)
         /\ answered' = Append(answered, [kind |-> job.kind, txns |-> job.txns,
                                          responses |-> done])
         /\ status' = "ok" /\ phase' = "idle" /\ job' = Nobody
      \/ /\ Len(done) # Len(job.txns)
         /\ UNCHANGED <<answered, status>>
         /\ phase' = "score" /\ job' = [job EXCEPT !.done = done, !.scored = {}]
    BY DEF Respond
<1>3. done \in Seq(Response) /\ Len(done) = Len(job.done) + 1
    BY <1>1, Longer
<1> HIDE DEF done
<1>4. Len(done) <= Len(job.txns)
    BY <1>1, <1>3
<1>5. [kind |-> job.kind, txns |-> job.txns, responses |-> done] \in AnswerType
    BY <1>1, <1>3 DEF AnswerType
<1>6. [job EXCEPT !.done = done, !.scored = {}] \in JobType
    BY <1>1, <1>3 DEF JobType
<1>7. Len(done) # Len(job.txns) => Len(done) < Len(job.txns)
    BY <1>1, <1>3, <1>4
<1> QED
    BY <1>2, <1>3, <1>4, <1>5, <1>6, <1>7 DEF done

-----------------------------------------------------------------------------
\* The responses that are counted.

Counts(d) ==
    /\ IsFiniteSet(Told(d)) /\ Cardinality(Told(d)) \in Nat
    /\ IsFiniteSet(InHand(d)) /\ Cardinality(InHand(d)) \in Nat

LEMMA CountFacts == TypeOK => \A d : Counts(d)
<1> SUFFICES ASSUME TypeOK, NEW d PROVE Counts(d)
    OBVIOUS
<1>1. /\ DOMAIN answered = 1 .. Len(answered) /\ Len(answered) \in Int
      /\ DOMAIN job.done = 1 .. Len(job.done) /\ Len(job.done) \in Int
    BY Types
<1>2. IsFiniteSet(1 .. Len(answered)) /\ IsFiniteSet(1 .. Len(job.done))
    BY <1>1, FS_Interval
<1>3. IsFiniteSet(1 .. MaxBatch)
    BY ServiceAssumption, FS_Interval
<1>4. IsFiniteSet((DOMAIN answered) \X (1 .. MaxBatch))
    BY <1>1, <1>2, <1>3, FS_Product
<1>5. Told(d) \subseteq (DOMAIN answered) \X (1 .. MaxBatch)
    BY DEF Told
<1>6. InHand(d) \subseteq DOMAIN job.done
    BY DEF InHand
<1> QED
    BY <1>1, <1>2, <1>4, <1>5, <1>6, FS_Subset, FS_CardinalityType DEF Counts

\* Nothing is counted and nothing answered.
LEMMA CountersKept ==
    ASSUME CountersMatchAnswers, phase # "down", phase # "audit", phase' # "audit",
           UNCHANGED <<counters, since, answered>>, job'.done = job.done
    PROVE  CountersMatchAnswers'
<1>1. UNCHANGED <<counted, processed, alerts>>
    BY DEF counters
<1>2. \A d : Told(d)' = Told(d) /\ InHand(d)' = InHand(d)
    BY DEF Told, InHand
<1>3. \A d : Ahead(d) = 0 /\ Ahead(d)' = 0
    BY DEF Ahead
<1> QED
    BY <1>1, <1>2, <1>3 DEF CountersMatchAnswers

-----------------------------------------------------------------------------
\* Each action preserves the invariant.

LEMMA OrderKept ==
    ASSUME TypeOK', AnswersInOrder, UNCHANGED answered,
           \/ job'.done = job.done /\ job'.txns = job.txns
           \/ job'.done = <<>>
    PROVE  AnswersInOrder'
<1>1. Len(job'.txns) \in Nat
    BY DEF TypeOK
<1>2. CASE job'.done = job.done /\ job'.txns = job.txns
    BY <1>2 DEF AnswersInOrder, Answers, IsScored
<1>3. CASE job'.done = <<>>
    BY <1>1, <1>3 DEF AnswersInOrder, Answers, IsScored
<1> QED
    BY <1>2, <1>3

LEMMA HonestKept ==
    ASSUME AllHonest, UNCHANGED answered, job'.done \in {job.done, <<>>}
    PROVE  AllHonest'
<1>1. Honest(<<>>)
    BY DEF Honest
<1> QED
    BY <1>1 DEF AllHonest

LEMMA InitInv == Init => IInv
<1> SUFFICES ASSUME Init PROVE IInv
    OBVIOUS
<1>1. /\ phase = "down" /\ job = Nobody /\ trail = <<>> /\ answered = <<>> /\ since = 0
      /\ processed = 0 /\ alerts = 0 /\ counted = [d \in Decisions |-> 0]
    BY DEF Init
<1>2. TypeOK
  <2>1. job \in JobType
      BY <1>1, NobodyType
  <2>2. /\ counted \in [Decisions -> Nat] /\ trail \in Seq(Records) /\ Len(answered) = 0
        /\ answered \in Seq([kind : {"single", "batch"}, txns : Seq(Txns),
                             responses : Seq(Response)])
      BY <1>1
  <2>3. requests \in 0 .. MaxRequests /\ crashes \in 0 .. MaxCrashes
      BY ServiceAssumption DEF Init
  <2>4. ready \in BOOLEAN /\ status \in Status
      BY DEF Init, Status
  <2>5. since \in 0 .. Len(answered)
      BY <1>1, <2>2
  <2> QED
      BY <1>1, <2>1, <2>2, <2>3, <2>4, <2>5 DEF TypeOK, JobType
<1>3. JobInv
    BY <1>1 DEF JobInv, Handling
<1>4. AllHonest /\ CountersMatchAnswers
    BY <1>1 DEF AllHonest, Honest, CountersMatchAnswers, Nobody
<1>5. AnswersInOrder
    BY <1>1 DEF AnswersInOrder, Answers, Nobody
<1> QED
    BY <1>2, <1>3, <1>4, <1>5 DEF IInv

LEMMA StartInv ==
    ASSUME IInv, Start
    PROVE  IInv'
<1>1. /\ TypeOK /\ JobInv /\ phase = "down" /\ phase' = "idle" /\ ready' \in BOOLEAN
      /\ since' = Len(answered)
      /\ UNCHANGED <<job, counted, processed, alerts, trail, status, answered, requests, crashes>>
    BY DEF IInv, Start, counters
<1>2. job = Nobody /\ job'.done = <<>>
    BY <1>1 DEF JobInv, Handling, Nobody
<1>3. since' \in 0 .. Len(answered')
    BY <1>1, Types
<1>4. TypeOK'
    BY <1>1, <1>3 DEF TypeOK
<1>5. JobInv'
    BY <1>1 DEF JobInv, Handling
<1>6. CountersMatchAnswers'
  <2>1. ASSUME NEW d PROVE Told(d)' = {} /\ InHand(d)' = {} /\ Ahead(d)' = 0
    <3>1. \A i \in DOMAIN answered : i \in Int /\ ~(i > Len(answered))
        BY <1>1, Types
    <3>2. \A w \in (DOMAIN answered) \X (1 .. MaxBatch) : w[1] \in DOMAIN answered
        OBVIOUS
    <3>3. Told(d)' = {}
        BY <1>1, <3>1, <3>2 DEF Told
    <3> QED
        BY <1>1, <1>2, <3>3 DEF InHand, Ahead
  <2>2. processed = 0 /\ alerts = 0 /\ \A d \in Decisions : counted[d] = 0
      BY <1>1 DEF JobInv
  <2>3. Cardinality({}) = 0
      BY FS_EmptySet
  <2>4. ASSUME NEW d \in Decisions
        PROVE  counted'[d] = Cardinality(Told(d)') + Cardinality(InHand(d)') + Ahead(d)'
    <3>1. counted'[d] = 0 /\ Cardinality(Told(d)') = 0 /\ Cardinality(InHand(d)') = 0
          /\ Ahead(d)' = 0
        BY <1>1, <2>1, <2>2, <2>3
    <3> QED
        BY <3>1
  <2>5. /\ processed' = counted'["APPROVE"] + counted'["REVIEW"] + counted'["BLOCK"]
        /\ alerts' = counted'["BLOCK"]
      BY <1>1, <2>2 DEF Decisions
  <2> QED
      BY <2>4, <2>5 DEF CountersMatchAnswers
<1>7. AllHonest' /\ AnswersInOrder'
    BY <1>1, <1>2, <1>4, HonestKept, OrderKept DEF IInv
<1> QED
    BY <1>4, <1>5, <1>6, <1>7 DEF IInv

LEMMA CrashInv ==
    ASSUME IInv, Crash
    PROVE  IInv'
<1>1. /\ TypeOK /\ crashes < MaxCrashes /\ crashes' = crashes + 1
      /\ phase' = "down" /\ ready' = FALSE /\ job' = Nobody
      /\ counted' = [d \in Decisions |-> 0] /\ processed' = 0 /\ alerts' = 0
      /\ status' = "none" /\ UNCHANGED <<trail, since, answered, requests>>
    BY DEF IInv, Crash
<1>2. TypeOK'
  <2>1. job' \in JobType
      BY <1>1, NobodyType
  <2>2. crashes' \in 0 .. MaxCrashes
      BY <1>1, ServiceAssumption DEF TypeOK
  <2> QED
      BY <1>1, <2>1, <2>2 DEF TypeOK, JobType, Status
<1>3. JobInv'
    BY <1>1 DEF JobInv, Handling
<1>4. CountersMatchAnswers'
    BY <1>1 DEF CountersMatchAnswers
<1>5. job'.done = <<>>
    BY <1>1 DEF Nobody
<1>6. AllHonest' /\ AnswersInOrder'
    BY <1>1, <1>2, <1>5, HonestKept, OrderKept DEF IInv
<1> QED
    BY <1>2, <1>3, <1>4, <1>6 DEF IInv

\* A worker that is idle answers without a score.
LEMMA IdleInv ==
    ASSUME IInv, phase = "idle",
           UNCHANGED <<phase, job, counters, since, answered, crashes>>,
           ready' \in BOOLEAN, status' \in Status, requests' \in 0 .. MaxRequests,
           trail' \in Seq(Records)
    PROVE  IInv'
<1>1. TypeOK /\ JobInv /\ UNCHANGED <<counted, processed, alerts>>
    BY DEF IInv, counters
<1>2. TypeOK'
    BY <1>1 DEF TypeOK
<1>3. JobInv'
    BY <1>1 DEF JobInv, Handling
<1>4. CountersMatchAnswers'
    BY <1>1, CountersKept DEF IInv
<1>5. AllHonest' /\ AnswersInOrder'
    BY <1>2, HonestKept, OrderKept DEF IInv
<1> QED
    BY <1>2, <1>3, <1>4, <1>5 DEF IInv

LEMMA AcceptInv ==
    ASSUME IInv, NEW kind \in {"single", "batch"}, NEW txns \in Seq(Txns),
           Len(txns) > 0, Len(txns) <= MaxBatch, kind = "single" => Len(txns) = 1,
           NEW key, Accept(kind, txns, key)
    PROVE  IInv'
<1> DEFINE request == [kind |-> kind, txns |-> txns, done |-> <<>>, scored |-> {}]
<1>1. /\ TypeOK /\ JobInv /\ phase = "idle" /\ phase' = "score" /\ job' = request
      /\ requests < MaxRequests /\ requests' = requests + 1
      /\ UNCHANGED <<ready, counted, processed, alerts, trail, since, status, answered, crashes>>
    BY DEF IInv, Accept, counters
<1>2. request \in JobType
    BY DEF JobType
<1>3. TypeOK'
  <2>1. requests' \in 0 .. MaxRequests
      BY <1>1, ServiceAssumption DEF TypeOK
  <2> QED
      BY <1>1, <1>2, <2>1 DEF TypeOK, JobType
<1>4. job'.done = <<>> /\ job'.kind = kind /\ job'.txns = txns /\ job.done = <<>>
    BY <1>1 DEF JobInv, Handling, Nobody
<1>5. JobInv'
    BY <1>1, <1>4 DEF JobInv, Handling
<1>6. CountersMatchAnswers'
    BY <1>1, <1>4, CountersKept DEF IInv, counters
<1>7. AllHonest' /\ AnswersInOrder'
    BY <1>1, <1>3, <1>4, HonestKept, OrderKept DEF IInv
<1> QED
    BY <1>3, <1>5, <1>6, <1>7 DEF IInv

LEMMA ScoreInv ==
    ASSUME IInv, NEW h \in Probabilities, Score_(h)
    PROVE  IInv'
<1> DEFINE p == [txn |-> Current, prob |-> h, result |-> Decide(h)]
<1>1. /\ TypeOK /\ JobInv /\ phase = "score" /\ phase' = "meter"
      /\ job' = [job EXCEPT !.scored = {p}]
      /\ UNCHANGED <<ready, counted, processed, alerts, trail, since, status, answered,
                     requests, crashes>>
    BY DEF IInv, Score_, counters
<1>2. p \in Prediction
    BY <1>1, CurrentType, DecideType DEF Handling, Prediction
<1> HIDE DEF p
<1>3. /\ job' \in JobType /\ job'.scored = {p}
      /\ job'.kind = job.kind /\ job'.txns = job.txns /\ job'.done = job.done
    BY <1>1, <1>2, Types DEF JobType
<1>4. TypeOK'
    BY <1>1, <1>3 DEF TypeOK, JobType
<1>5. Current' = Current
    BY <1>3 DEF Current
<1>6. JobInv'
  <2>1. job'.scored = {[txn |-> Current', prob |-> h, result |-> Decide(h)]}
      BY <1>3, <1>5 DEF p
  <2> QED
      BY <1>1, <1>3, <2>1 DEF JobInv, Handling
<1>7. CountersMatchAnswers'
    BY <1>1, <1>3, CountersKept DEF IInv, counters
<1>8. AllHonest' /\ AnswersInOrder'
    BY <1>1, <1>3, <1>4, HonestKept, OrderKept DEF IInv
<1> QED
    BY <1>4, <1>6, <1>7, <1>8 DEF IInv

LEMMA MeterInv ==
    ASSUME IInv, Meter
    PROVE  IInv'
<1>1. /\ TypeOK /\ JobInv /\ phase = "meter" /\ phase' = "audit"
      /\ processed' = processed + 1
      /\ UNCHANGED <<ready, job, trail, since, status, answered, requests, crashes>>
    BY DEF IInv, Meter
<1>2. PICK h \in Probabilities, p \in Prediction :
          job.scored = {p} /\ p = [txn |-> Current, prob |-> h, result |-> Decide(h)]
    BY <1>1, ScoredFacts
<1> DEFINE d0 == p.result.decision
<1>3. d0 \in Decisions
    BY <1>2, DecideType
<1>4. /\ counted' = [counted EXCEPT ![d0] = @ + 1]
      /\ alerts' = IF d0 = "BLOCK" THEN alerts + 1 ELSE alerts
    BY <1>2 DEF Meter
<1>5. counted \in [Decisions -> Nat] /\ processed \in Nat /\ alerts \in Nat
    BY <1>1, Types
<1>6. TypeOK'
  <2>1. counted' \in [Decisions -> Nat] /\ processed' \in Nat /\ alerts' \in Nat
      BY <1>1, <1>3, <1>4, <1>5
  <2> QED
      BY <1>1, <2>1 DEF TypeOK
<1>7. JobInv'
    BY <1>1 DEF JobInv, Handling, Current
<1>8. CountersMatchAnswers'
  <2>1. \A d \in Decisions : counted'[d] = IF d = d0 THEN counted[d] + 1 ELSE counted[d]
      BY <1>3, <1>4, <1>5
  <2>2. \A d : Ahead(d) = 0 /\ Ahead(d)' = IF d = d0 THEN 1 ELSE 0
      BY <1>1, <1>2 DEF Ahead
  <2>3. \A d : Told(d)' = Told(d) /\ InHand(d)' = InHand(d)
      BY <1>1 DEF Told, InHand
  <2>4. /\ \A d \in Decisions :
              counted[d] = Cardinality(Told(d)) + Cardinality(InHand(d)) + Ahead(d)
        /\ processed = counted["APPROVE"] + counted["REVIEW"] + counted["BLOCK"]
        /\ alerts = counted["BLOCK"]
      BY <1>1 DEF IInv, CountersMatchAnswers
  <2>5. \A d \in Decisions : /\ Cardinality(Told(d)) \in Nat /\ Cardinality(InHand(d)) \in Nat
                             /\ counted[d] \in Nat
      BY <1>1, <1>5, CountFacts DEF Counts
  <2> HIDE DEF d0
  <2>6. ASSUME NEW d \in Decisions
        PROVE  counted'[d] = Cardinality(Told(d)') + Cardinality(InHand(d)') + Ahead(d)'
    <3>1. Told(d)' = Told(d) /\ InHand(d)' = InHand(d)
        BY <2>3
    <3>2. counted[d] = Cardinality(Told(d)) + Cardinality(InHand(d))
        BY <2>2, <2>4, <2>5
    <3>3. counted'[d] = Cardinality(Told(d)) + Cardinality(InHand(d)) + Ahead(d)'
        BY <2>1, <2>2, <2>5, <3>2
    <3> QED
        BY <3>1, <3>3
  <2>7. processed' = counted'["APPROVE"] + counted'["REVIEW"] + counted'["BLOCK"]
      BY <1>1, <1>3, <2>1, <2>4, <2>5 DEF Decisions
  <2>8. alerts' = counted'["BLOCK"]
    <3>1. "BLOCK" \in Decisions
        BY DEF Decisions
    <3> QED
        BY <1>4, <2>1, <2>4, <2>5, <3>1 DEF d0
  <2> QED
      BY <2>6, <2>7, <2>8 DEF CountersMatchAnswers
<1>9. AllHonest' /\ AnswersInOrder'
    BY <1>1, <1>6, HonestKept, OrderKept DEF IInv
<1> QED
    BY <1>6, <1>7, <1>8, <1>9 DEF IInv

LEMMA RespondTypes ==
    ASSUME TypeOK, JobInv, Handling, NEW response \in Response, Respond(response)
    PROVE  /\ phase' \in {"idle", "score"} /\ job' \in JobType /\ status' \in Status
           /\ answered' \in Seq(AnswerType) /\ Len(answered') >= Len(answered)
           /\ JobInv'
<1> DEFINE done == Append(job.done, response)
           answer == [kind |-> job.kind, txns |-> job.txns, responses |-> done]
           going == [job EXCEPT !.done = done, !.scored = {}]
<1>1. /\ done \in Seq(Response) /\ answer \in AnswerType /\ going \in JobType
      /\ \/ /\ Len(done) = Len(job.txns)
            /\ answered' = Append(answered, answer) /\ status' = "ok"
            /\ phase' = "idle" /\ job' = Nobody
         \/ /\ Len(done) < Len(job.txns)
            /\ UNCHANGED <<answered, status>>
            /\ phase' = "score" /\ job' = going
    BY Responding
<1>2. /\ answered \in Seq(AnswerType) /\ Len(answered) \in Nat
      /\ job \in JobType /\ status \in Status
      /\ job.kind \in {"single", "batch"} /\ (job.kind = "single" => Len(job.txns) = 1)
      /\ Len(job.txns) <= MaxBatch
    BY Types DEF TypeOK, JobInv
<1> HIDE DEF done
<1>3. going.kind = job.kind /\ going.txns = job.txns /\ going.done = done
    BY <1>2 DEF JobType
<1> HIDE DEF answer, going
<1>4. CASE phase' = "idle"
  <2>1. answered' = Append(answered, answer) /\ status' = "ok" /\ job' = Nobody
      BY <1>1, <1>4
  <2>2. answered' \in Seq(AnswerType) /\ Len(answered') = Len(answered) + 1
      BY <2>1, <1>1, <1>2, Longer
  <2>3. JobInv'
      BY <2>1, <1>4 DEF JobInv, Handling
  <2> QED
      BY <2>1, <2>2, <2>3, <1>2, <1>4, NobodyType DEF Status
<1>5. CASE phase' = "score"
  <2>1. /\ answered' = answered /\ status' = status /\ job' = going
        /\ Len(done) < Len(job.txns)
      BY <1>1, <1>5
  <2>2. JobInv'
      BY <2>1, <1>2, <1>3, <1>5 DEF JobInv, Handling
  <2> QED
      BY <2>1, <2>2, <1>1, <1>2, <1>5
<1> QED
    BY <1>1, <1>4, <1>5

LEMMA RespondOrder ==
    ASSUME TypeOK, JobInv, AnswersInOrder, AllHonest, Handling,
           NEW response \in Response, Respond(response), response.txn = Current,
           IsScored(response) => response.result = Decide(response.prob),
           ~IsScored(response) => job.kind = "batch"
    PROVE  AnswersInOrder' /\ AllHonest'
<1> DEFINE done == Append(job.done, response)
           answer == [kind |-> job.kind, txns |-> job.txns, responses |-> done]
           going == [job EXCEPT !.done = done, !.scored = {}]
<1>1. /\ done \in Seq(Response) /\ Len(done) = Len(job.done) + 1
      /\ answer \in AnswerType
      /\ \/ /\ Len(done) = Len(job.txns)
            /\ answered' = Append(answered, answer) /\ job' = Nobody
         \/ /\ Len(done) < Len(job.txns)
            /\ UNCHANGED answered /\ job' = going
    BY Responding
<1>2. /\ answered \in Seq(AnswerType) /\ job \in JobType /\ job.done \in Seq(Response)
      /\ job.txns \in Seq(Txns) /\ (job.kind = "single" => Len(job.txns) = 1)
    BY Types DEF JobInv
<1>3. /\ DOMAIN done = (1 .. Len(job.done)) \cup {Len(job.done) + 1}
      /\ DOMAIN job.done = 1 .. Len(job.done) /\ Len(job.done) \in Nat
      /\ (\A j \in 1 .. Len(job.done) : done[j] = job.done[j])
      /\ done[Len(job.done) + 1] = response
    BY <1>1, <1>2, Longer
<1>4. response.txn = job.txns[Len(job.done) + 1]
    BY DEF Current
<1> HIDE DEF done
<1>5. going.txns = job.txns /\ going.done = done
    BY <1>2 DEF JobType
<1>6. Answers(job.txns, done)
    BY <1>3, <1>4 DEF AnswersInOrder, Answers
<1>7. answer.kind = job.kind /\ answer.txns = job.txns /\ answer.responses = done
    OBVIOUS
<1>8. Honest(done)
  <2> SUFFICES ASSUME NEW j \in DOMAIN done, IsScored(done[j])
               PROVE  done[j].result = Decide(done[j].prob)
      BY DEF Honest
  <2>1. Honest(job.done)
      BY DEF AllHonest
  <2>2. CASE j = Len(job.done) + 1
      BY <1>3, <2>2
  <2>3. CASE j \in 1 .. Len(job.done)
      BY <1>3, <2>1, <2>3 DEF Honest
  <2> QED
      BY <1>3, <2>2, <2>3
<1> HIDE DEF answer, going
<1>9. CASE UNCHANGED answered /\ job' = going /\ Len(done) < Len(job.txns)
    BY <1>1, <1>2, <1>5, <1>6, <1>8, <1>9 DEF AnswersInOrder, AllHonest
<1>10. CASE answered' = Append(answered, answer) /\ job' = Nobody /\ Len(done) = Len(job.txns)
  <2>1. /\ DOMAIN answered' = (DOMAIN answered) \cup {Len(answered) + 1}
        /\ \A i \in DOMAIN answered : answered'[i] = answered[i]
        /\ answered'[Len(answered) + 1] = answer
      BY <1>1, <1>2, <1>10, Longer
  <2>2. answer.kind = "single" => IsScored(answer.responses[1])
    <3> SUFFICES ASSUME job.kind = "single" PROVE IsScored(done[1])
        BY <1>7
    <3>1. IsScored(response)
        OBVIOUS
    <3>2. Len(job.txns) = 1
        BY <1>2
    <3>3. Len(job.done) = 0
        BY <3>2, <1>1, <1>3, <1>10
    <3>4. done[1] = response
        BY <3>3, <1>3
    <3> QED
        BY <3>1, <3>4
  <2>3. Len(answer.responses) = Len(answer.txns) /\ Answers(answer.txns, answer.responses)
      BY <1>6, <1>7, <1>10
  <2>4. Len(job'.done) <= Len(job'.txns) /\ Answers(job'.txns, job'.done) /\ Honest(job'.done)
      BY <1>10 DEF Nobody, Answers, Honest
  <2>5. Honest(answer.responses)
      BY <1>7, <1>8
  <2>6. AnswersInOrder'
      BY <2>1, <2>2, <2>3, <2>4 DEF AnswersInOrder
  <2>7. AllHonest'
      BY <2>1, <2>4, <2>5 DEF AllHonest
  <2> QED
      BY <2>6, <2>7
<1> QED
    BY <1>1, <1>9, <1>10

\* The pairs of one answer with its places are as many as the places.
LEMMA PairsFacts ==
    ASSUME NEW n, NEW W, IsFiniteSet(W)
    PROVE  LET pairs == {<<n, j>> : j \in W}
           IN  IsFiniteSet(pairs) /\ Cardinality(pairs) = Cardinality(W)
<1> DEFINE pairs == {<<n, j>> : j \in W}
           f == [j \in W |-> <<n, j>>]
<1>1. f \in Bijection(W, pairs)
    BY DEF Bijection, Injection, Surjection, IsInjective
<1>2. ExistsBijection(W, pairs)
    BY <1>1 DEF ExistsBijection
<1> QED
    BY <1>2, FS_Bijection

Counted(response, d) == IF IsScored(response) /\ response.result.decision = d THEN 1 ELSE 0

\* A response more: one more told or in hand of its own decision, and none of
\* any other.
LEMMA RespondCounts ==
    ASSUME TypeOK, TypeOK', JobInv, Handling, UNCHANGED since,
           NEW response \in Response, Respond(response), NEW d
    PROVE  Cardinality(Told(d)') + Cardinality(InHand(d)') =
               Cardinality(Told(d)) + Cardinality(InHand(d)) + Counted(response, d)
<1> DEFINE done == Append(job.done, response)
           answer == [kind |-> job.kind, txns |-> job.txns, responses |-> done]
           going == [job EXCEPT !.done = done, !.scored = {}]
           W == {j \in DOMAIN done : IsScored(done[j]) /\ done[j].result.decision = d}
           n == Len(answered) + 1
           pairs == {<<n, j>> : j \in W}
<1>1. /\ done \in Seq(Response) /\ answer \in AnswerType
      /\ Len(done) = Len(job.done) + 1 /\ Len(done) <= Len(job.txns)
      /\ \/ answered' = Append(answered, answer) /\ job' = Nobody
         \/ UNCHANGED answered /\ job' = going
    BY Responding
<1>2. /\ answered \in Seq(AnswerType) /\ job \in JobType /\ job.done \in Seq(Response)
      /\ job.txns \in Seq(Txns) /\ Len(job.txns) <= MaxBatch /\ since \in 0 .. Len(answered)
    BY Types DEF JobInv
<1>3. /\ DOMAIN done = (1 .. Len(job.done)) \cup {Len(job.done) + 1}
      /\ DOMAIN job.done = 1 .. Len(job.done)
      /\ Len(job.done) + 1 \notin DOMAIN job.done
      /\ (\A j \in 1 .. Len(job.done) : done[j] = job.done[j])
      /\ done[Len(job.done) + 1] = response
    BY <1>1, <1>2, Longer
<1>4. DOMAIN done \subseteq 1 .. MaxBatch
    BY <1>1, <1>2, <1>3, ServiceAssumption
<1> HIDE DEF done
<1>5. going.done = done /\ answer.responses = done
    BY <1>2 DEF JobType
<1>6. /\ Cardinality(Told(d)) \in Nat /\ Cardinality(InHand(d)) \in Nat
      /\ IsFiniteSet(Told(d)) /\ IsFiniteSet(InHand(d))
    BY CountFacts DEF Counts
<1>7. IsFiniteSet(W) /\ Cardinality(W) = Cardinality(InHand(d)) + Counted(response, d)
  <2>1. CASE IsScored(response) /\ response.result.decision = d
    <3>1. W = InHand(d) \cup {Len(job.done) + 1} /\ Len(job.done) + 1 \notin InHand(d)
        BY <2>1, <1>3 DEF InHand
    <3>2. Counted(response, d) = 1
        BY <2>1 DEF Counted
    <3> HIDE DEF W
    <3>3. /\ IsFiniteSet(InHand(d) \cup {Len(job.done) + 1})
          /\ Cardinality(InHand(d) \cup {Len(job.done) + 1}) = Cardinality(InHand(d)) + 1
        BY <3>1, <1>6, FS_AddElement
    <3> QED
        BY <3>1, <3>2, <3>3
  <2>2. CASE ~(IsScored(response) /\ response.result.decision = d)
    <3>1. W = InHand(d)
        BY <2>2, <1>3 DEF InHand
    <3>2. Counted(response, d) = 0
        BY <2>2 DEF Counted
    <3> QED
        BY <3>1, <3>2, <1>6
  <2> QED
      BY <2>1, <2>2
<1>8. Counted(response, d) \in Nat
    BY DEF Counted
<1>9. IsFiniteSet(pairs) /\ Cardinality(pairs) = Cardinality(W)
    BY <1>7, PairsFacts
<1> HIDE DEF answer, going
<1>10. CASE UNCHANGED answered /\ job' = going
  <2>1. Told(d)' = Told(d) /\ InHand(d)' = W
      BY <1>5, <1>10 DEF Told, InHand
  <2> QED
      BY <2>1, <1>6, <1>7, <1>8
<1>11. CASE answered' = Append(answered, answer) /\ job' = Nobody
  <2>1. /\ DOMAIN answered = 1 .. Len(answered) /\ Len(answered) \in Nat
        /\ DOMAIN answered' = (DOMAIN answered) \cup {n} /\ n \notin DOMAIN answered
        /\ \A i \in DOMAIN answered : answered'[i] = answered[i]
        /\ answered'[n] = answer
      BY <1>1, <1>2, <1>11, Longer
  <2>2. n > since
      BY <1>2, <2>1
  <2> HIDE DEF n
  <2>3. Told(d)' \subseteq Told(d) \cup pairs
    <3> SUFFICES ASSUME NEW w \in Told(d)', w \notin Told(d) PROVE w \in pairs
        OBVIOUS
    <3>1. /\ w \in (DOMAIN answered') \X (1 .. MaxBatch) /\ w[1] > since
          /\ w[2] \in DOMAIN answered'[w[1]].responses
          /\ IsScored(answered'[w[1]].responses[w[2]])
          /\ answered'[w[1]].responses[w[2]].result.decision = d
        BY DEF Told
    <3>2. w[1] \notin DOMAIN answered
        BY <3>1, <2>1 DEF Told
    <3>3. w[1] = n /\ w = <<w[1], w[2]>>
        BY <3>1, <3>2, <2>1
    <3>4. w[2] \in W
        BY <3>1, <3>3, <2>1, <1>5
    <3> QED
        BY <3>3, <3>4
  <2>4. Told(d) \subseteq Told(d)'
    <3> SUFFICES ASSUME NEW w \in Told(d) PROVE w \in Told(d)'
        OBVIOUS
    <3>1. /\ w \in (DOMAIN answered) \X (1 .. MaxBatch) /\ w[1] > since
          /\ w[2] \in DOMAIN answered[w[1]].responses
          /\ IsScored(answered[w[1]].responses[w[2]])
          /\ answered[w[1]].responses[w[2]].result.decision = d
        BY DEF Told
    <3>2. answered'[w[1]] = answered[w[1]] /\ w \in (DOMAIN answered') \X (1 .. MaxBatch)
        BY <3>1, <2>1
    <3> QED
        BY <3>1, <3>2 DEF Told
  <2>5. pairs \subseteq Told(d)'
    <3> SUFFICES ASSUME NEW j \in W PROVE <<n, j>> \in Told(d)'
        OBVIOUS
    <3>1. <<n, j>> \in (DOMAIN answered') \X (1 .. MaxBatch)
        BY <2>1, <1>4
    <3>2. j \in DOMAIN answer.responses /\ answer.responses[j] = done[j]
        BY <1>5
    <3> QED
        BY <3>1, <3>2, <2>1, <2>2 DEF Told
  <2>6. Told(d)' = Told(d) \cup pairs
      BY <2>3, <2>4, <2>5
  <2>7. Told(d) \cap pairs = {}
      BY <2>1 DEF Told
  <2> HIDE DEF pairs, W
  <2>8. Cardinality(Told(d)') = Cardinality(Told(d)) + Cardinality(pairs)
    <3>1. Cardinality(Told(d) \cup pairs) =
              Cardinality(Told(d)) + Cardinality(pairs) - Cardinality(Told(d) \cap pairs)
        BY <1>6, <1>9, FS_Union
    <3>2. Cardinality(Told(d) \cap pairs) = 0 /\ Cardinality(pairs) \in Nat
        BY <2>7, <1>9, FS_EmptySet, FS_CardinalityType
    <3> QED
        BY <2>6, <3>1, <3>2, <1>6
  <2>9. Cardinality(InHand(d)') = 0
    <3>1. InHand(d)' = {}
        BY <1>11 DEF InHand, Nobody
    <3> QED
        BY <3>1, FS_EmptySet
  <2> QED
      BY <2>8, <2>9, <1>6, <1>7, <1>8, <1>9
<1> QED
    BY <1>1, <1>10, <1>11

LEMMA ScoringFailsInv ==
    ASSUME IInv, ScoringFails
    PROVE  IInv'
<1>1. /\ TypeOK /\ JobInv /\ Handling /\ phase = "score" /\ job.kind \in {"single", "batch"}
      /\ UNCHANGED <<ready, counted, processed, alerts, trail, since, requests, crashes>>
    BY DEF IInv, ScoringFails, Handling, JobInv, counters
<1>2. CASE job.kind = "batch"
  <2> DEFINE response == [txn |-> Current, prob |-> 0, result |-> Failed]
  <2>1. /\ Respond(response) /\ response \in Response
        /\ response.txn = Current /\ ~IsScored(response)
      BY <1>1, <1>2, CurrentType DEF ScoringFails, Response, IsScored
  <2> HIDE DEF response
  <2>2. /\ phase' \in {"idle", "score"} /\ job' \in JobType /\ status' \in Status
        /\ answered' \in Seq(AnswerType) /\ Len(answered') >= Len(answered) /\ JobInv'
      BY <1>1, <2>1, RespondTypes
  <2>3. since' \in 0 .. Len(answered')
      BY <1>1, <2>2, Types
  <2>4. TypeOK'
      BY <1>1, <2>2, <2>3 DEF TypeOK, JobType, AnswerType
  <2>5. CountersMatchAnswers'
    <3>1. /\ \A d \in Decisions :
                counted[d] = Cardinality(Told(d)) + Cardinality(InHand(d)) + Ahead(d)
          /\ processed = counted["APPROVE"] + counted["REVIEW"] + counted["BLOCK"]
          /\ alerts = counted["BLOCK"]
        BY <1>1 DEF IInv, CountersMatchAnswers
    <3>2. ASSUME NEW d \in Decisions
          PROVE  counted'[d] = Cardinality(Told(d)') + Cardinality(InHand(d)') + Ahead(d)'
      <4>1. Cardinality(Told(d)') + Cardinality(InHand(d)') =
                Cardinality(Told(d)) + Cardinality(InHand(d)) + Counted(response, d)
          BY <1>1, <2>1, <2>4, RespondCounts
      <4>2. Counted(response, d) = 0
          BY <2>1 DEF Counted
      <4>3. Ahead(d) = 0 /\ Ahead(d)' = 0
          BY <1>1, <2>2 DEF Ahead
      <4>4. counted[d] = Cardinality(Told(d)) + Cardinality(InHand(d)) + Ahead(d)
          BY <3>1
      <4>5. Cardinality(Told(d)) \in Nat /\ Cardinality(InHand(d)) \in Nat
          BY <1>1, CountFacts DEF Counts
      <4> QED
          BY <1>1, <4>1, <4>2, <4>3, <4>4, <4>5
    <3> QED
        BY <1>1, <3>1, <3>2 DEF CountersMatchAnswers
  <2>6. AllHonest' /\ AnswersInOrder'
      BY <1>1, <1>2, <2>1, RespondOrder DEF IInv
  <2> QED
      BY <2>2, <2>4, <2>5, <2>6 DEF IInv
<1>3. CASE job.kind = "single"
  <2>1. status' = "error" /\ UNCHANGED answered /\ phase' = "idle" /\ job' = Nobody
      BY <1>3 DEF ScoringFails
  <2>2. TypeOK'
      BY <1>1, <2>1, NobodyType DEF TypeOK, JobType, Status
  <2>3. JobInv'
      BY <2>1 DEF JobInv, Handling
  <2>4. job'.done = <<>> /\ job.done = <<>>
    <3>1. job.done \in Seq(Response) /\ Len(job.done) < 1
        BY <1>1, <1>3, Types DEF JobInv
    <3> QED
        BY <2>1, <3>1 DEF Nobody
  <2>5. CountersMatchAnswers'
      BY <1>1, <2>1, <2>4, CountersKept DEF IInv, counters
  <2>6. AllHonest' /\ AnswersInOrder'
      BY <2>1, <2>2, <2>4, HonestKept, OrderKept DEF IInv
  <2> QED
      BY <2>2, <2>3, <2>5, <2>6 DEF IInv
<1> QED
    BY <1>1, <1>2, <1>3

LEMMA AuditInv ==
    ASSUME IInv, Audit
    PROVE  IInv'
<1>1. /\ TypeOK /\ JobInv /\ Handling /\ phase = "audit"
      /\ UNCHANGED <<ready, counted, processed, alerts, since, requests, crashes>>
    BY DEF IInv, Audit, Handling, counters
<1>2. PICK h \in Probabilities, p \in Prediction :
          job.scored = {p} /\ p = [txn |-> Current, prob |-> h, result |-> Decide(h)]
    BY <1>1, ScoredFacts
<1>3. Emit([kind |-> "PREDICTION", prediction |-> p]) /\ Respond(p)
    BY <1>2 DEF Audit
<1>4. trail' \in Seq(Records)
    BY <1>1, <1>3, EmitType, RecordTypes
<1>5. /\ p \in Response /\ p.txn = Current /\ IsScored(p) /\ p.result = Decide(p.prob)
      /\ p.result.decision \in Decisions
    BY <1>2, DecideType DEF Response, IsScored
<1>6. /\ phase' \in {"idle", "score"} /\ job' \in JobType /\ status' \in Status
      /\ answered' \in Seq(AnswerType) /\ Len(answered') >= Len(answered) /\ JobInv'
    BY <1>1, <1>3, <1>5, RespondTypes
<1>7. since' \in 0 .. Len(answered')
    BY <1>1, <1>6, Types
<1>8. TypeOK'
    BY <1>1, <1>4, <1>6, <1>7 DEF TypeOK, JobType, AnswerType
<1>9. AllHonest' /\ AnswersInOrder'
    BY <1>1, <1>3, <1>5, RespondOrder DEF IInv
<1>10. CountersMatchAnswers'
  <2>1. /\ \A d \in Decisions :
              counted[d] = Cardinality(Told(d)) + Cardinality(InHand(d)) + Ahead(d)
        /\ processed = counted["APPROVE"] + counted["REVIEW"] + counted["BLOCK"]
        /\ alerts = counted["BLOCK"]
      BY <1>1 DEF IInv, CountersMatchAnswers
  <2>2. ASSUME NEW d \in Decisions
        PROVE  counted'[d] = Cardinality(Told(d)') + Cardinality(InHand(d)') + Ahead(d)'
    <3>1. Cardinality(Told(d)') + Cardinality(InHand(d)') =
              Cardinality(Told(d)) + Cardinality(InHand(d)) + Counted(p, d)
        BY <1>1, <1>3, <1>5, <1>8, RespondCounts
    <3>2. Ahead(d) = Counted(p, d) /\ Ahead(d)' = 0
        BY <1>1, <1>2, <1>5, <1>6 DEF Ahead, Counted
    <3>3. /\ Cardinality(Told(d)) \in Nat /\ Cardinality(InHand(d)) \in Nat
          /\ Counted(p, d) \in Nat
        BY <1>1, CountFacts DEF Counts, Counted
    <3>4. counted[d] = Cardinality(Told(d)) + Cardinality(InHand(d)) + Ahead(d)
        BY <2>1
    <3> QED
        BY <1>1, <3>1, <3>2, <3>3, <3>4
  <2> QED
      BY <1>1, <2>1, <2>2 DEF CountersMatchAnswers
<1> QED
    BY <1>6, <1>8, <1>9, <1>10 DEF IInv

LEMMA StutterInv ==
    ASSUME IInv, UNCHANGED vars
    PROVE  IInv'
<1>1. UNCHANGED <<phase, ready, job, counted, processed, alerts, trail, since, status, answered,
                 requests, crashes>>
    BY DEF vars, counters
<1>2. TypeOK'
    BY <1>1 DEF IInv, TypeOK
<1>3. JobInv'
    BY <1>1 DEF IInv, JobInv, Handling, Current
<1>4. CountersMatchAnswers'
    BY <1>1 DEF IInv, CountersMatchAnswers, Told, InHand, Ahead
<1>5. AllHonest' /\ AnswersInOrder'
    BY <1>1, <1>2, HonestKept, OrderKept DEF IInv
<1> QED
    BY <1>2, <1>3, <1>4, <1>5 DEF IInv

LEMMA StepInv == IInv /\ [Next]_vars => IInv'
<1> SUFFICES ASSUME IInv, [Next]_vars PROVE IInv'
    OBVIOUS
<1>0. /\ status \in Status /\ ready \in BOOLEAN /\ requests \in 0 .. MaxRequests
      /\ {"ok", "unauthorized", "unavailable"} \subseteq Status
    BY DEF IInv, TypeOK, Status
<1>1. CASE Start
    BY <1>1, StartInv
<1>2. CASE Crash
    BY <1>2, CrashInv
<1>3. ASSUME NEW key \in Keys \cup {NoKey}, NEW t \in Txns, Accept("single", <<t>>, key)
      PROVE IInv'
  <2> DEFINE one == <<t>>
  <2>1. /\ one \in Seq(Txns) /\ Len(one) = 1 /\ Len(one) <= MaxBatch
        /\ Accept("single", one, key)
      BY <1>3, ServiceAssumption
  <2> HIDE DEF one
  <2>2. "single" \in {"single", "batch"} /\ Len(one) > 0
      BY <2>1
  <2> QED
      BY <2>1, <2>2, AcceptInv
<1>4. ASSUME NEW key \in Keys \cup {NoKey}, NEW b \in Batches, Accept("batch", b, key)
      PROVE IInv'
  <2>1. PICK n \in 1 .. MaxBatch : b \in [1 .. n -> Txns]
      BY DEF Batches
  <2>2. b \in Seq(Txns) /\ Len(b) = n /\ n > 0 /\ n <= MaxBatch
      BY <2>1, ServiceAssumption
  <2> QED
      BY <1>4, <2>2, AcceptInv
<1>5. ASSUME NEW key \in Keys \cup {NoKey}, Refuse(key) PROVE IInv'
    BY <1>0, <1>5, IdleInv DEF Refuse, IInv, TypeOK
<1>6. ASSUME NEW key \in Keys \cup {NoKey}, Reload(key) PROVE IInv'
  <2>1. requests' \in 0 .. MaxRequests
      BY <1>0, <1>6, ServiceAssumption DEF Reload
  <2>2. trail' \in Seq(Records)
      BY <1>6, EmitType, RecordTypes DEF Reload, IInv
  <2> QED
      BY <1>0, <1>6, <2>1, <2>2, IdleInv DEF Reload
<1>7. CASE Probe
    BY <1>0, <1>7, IdleInv DEF Probe, IInv, TypeOK
<1>8. ASSUME NEW h \in Probabilities, Score_(h) PROVE IInv'
    BY <1>8, ScoreInv
<1>9. CASE ScoringFails
    BY <1>9, ScoringFailsInv
<1>10. CASE Meter
    BY <1>10, MeterInv
<1>11. CASE Audit
    BY <1>11, AuditInv
<1>12. CASE UNCHANGED vars
    BY <1>12, StutterInv
<1> QED
    BY <1>1, <1>2, <1>3, <1>4, <1>5, <1>6, <1>7, <1>8, <1>9, <1>10, <1>11, <1>12
    DEF Next, Handle

-----------------------------------------------------------------------------
\* The theorems.

\* The inductive invariant holds throughout.
THEOREM Inductive == Spec => []IInv
<1>1. Init => IInv
    BY InitInv
<1>2. IInv /\ [Next]_vars => IInv'
    BY StepInv
<1> QED
    BY <1>1, <1>2, PTL DEF Spec

\* Every variable keeps its type.
THEOREM TypeCorrect == Spec => []TypeOK
<1>1. IInv => TypeOK
    BY DEF IInv
<1> QED
    BY <1>1, Inductive, PTL

\* The counters of a process are those of the scored responses its clients
\* got, through failures, reloads and restarts (app.py:302-333).
THEOREM CountersAgree == Spec => []CountersMatchAnswers
<1>1. IInv => CountersMatchAnswers
    BY DEF IInv
<1> QED
    BY <1>1, Inductive, PTL

\* Batches are answered in order and in full, and a failure goes to review
\* (app.py:352-371).
THEOREM InOrder == Spec => []AnswersInOrder
<1>1. IInv => AnswersInOrder
    BY DEF IInv
<1> QED
    BY <1>1, Inductive, PTL

\* A scored response holds what the engine decides of its probability.
LEMMA ScoredResponse ==
    ASSUME IInv, NEW p \in Responses, IsScored(p)
    PROVE  p.prob \in Probabilities /\ p.prob \in Int /\ p.result = Decide(p.prob)
<1>1. p \in Response /\ p.result = Decide(p.prob)
  <2>1. CASE p \in Members(job.done)
    <3>1. PICK j \in DOMAIN job.done : p = job.done[j]
        BY <2>1 DEF Members
    <3>2. job.done \in Seq(Response) /\ Honest(job.done)
        BY Types DEF IInv, AllHonest
    <3> QED
        BY <3>1, <3>2 DEF Honest
  <2>2. ASSUME NEW i \in DOMAIN answered, p \in Members(answered[i].responses)
        PROVE  p \in Response /\ p.result = Decide(p.prob)
    <3>1. PICK j \in DOMAIN answered[i].responses : p = answered[i].responses[j]
        BY <2>2 DEF Members
    <3>2. Honest(answered[i].responses)
        BY DEF IInv, AllHonest
    <3>3. answered[i] \in AnswerType
      <4>1. answered \in Seq(AnswerType)
          BY Types DEF IInv
      <4> QED
          BY <4>1
    <3>4. answered[i].responses \in Seq(Response)
        BY <3>3 DEF AnswerType
    <3> QED
        BY <3>1, <3>2, <3>4 DEF Honest
  <2> QED
      BY <2>1, <2>2 DEF Responses
<1>2. p.prob \in Probabilities
    BY <1>1 DEF Response, Prediction, IsScored
<1>3. \A h \in Probabilities : h \in Int
    BY ServiceAssumption, ScoringFacts
<1> QED
    BY <1>1, <1>2, <1>3

\* The answers keep the order of the probabilities, with any boundaries of the
\* bands and wherever floating point truncates (risk_scorer.py:43).
THEOREM MonotoneAnswers == Spec => []Monotone
<1>1. IInv => Monotone
  <2> SUFFICES ASSUME IInv, NEW p \in Responses, NEW q \in Responses,
                      IsScored(p), IsScored(q), p.prob <= q.prob
               PROVE /\ p.result.score <= q.result.score
                     /\ Strictness(p.result.level) <= Strictness(q.result.level)
                     /\ Strictness(p.result.decision) <= Strictness(q.result.decision)
      BY DEF Monotone
  <2> DEFINE h == p.prob
             k == q.prob
  <2>1. /\ h \in Int /\ p.result = Decide(h) /\ k \in Int /\ q.result = Decide(k)
        /\ h <= k
      BY ScoredResponse
  <2> HIDE DEF h, k
  <2>2. Score(h) \in Scores /\ Score(k) \in Scores /\ Score(h) <= Score(k)
      BY <2>1, ScoreFacts, ScoreMonotone
  <2>3. /\ Strictness(Level(Score(h))) <= Strictness(Level(Score(k)))
        /\ Strictness(Decision(Score(h))) <= Strictness(Decision(Score(k)))
      BY <2>2, BandsMonotone
  <2> QED
      BY <2>1, <2>2, <2>3 DEF Decide
<1> QED
    BY <1>1, Inductive, PTL
=============================================================================
