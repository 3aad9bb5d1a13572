------------------------- MODULE PredictionService -------------------------
(***************************************************************************)
(* The request handlers of one API worker (src/api/app.py): who is let in, *)
(* /predict, /predict/batch and /admin/reload-model, with the Prometheus   *)
(* counters (src/monitoring/prometheus_metrics.py) and the audit records   *)
(* (AuditLogger, src/security/auth.py) that they leave.                    *)
(*                                                                         *)
(* No handler reaches a suspension point, so the event loop runs one to    *)
(* its end before the next, and is_ready does not change under a batch.    *)
(* The process may die anywhere: the counters are gone with it, what the   *)
(* clients were told is not, and a client that got no answer may ask       *)
(* again.  Loading is the business of ModelServing: here it leaves the     *)
(* worker ready or not.  What the model makes of a transaction is any of   *)
(* Probabilities, or an exception.                                         *)
(*                                                                         *)
(* The audit records are of level INFO.  No module that the API imports    *)
(* configures logging, so they are held against the level of the root      *)
(* logger, RootLevel: 30 (WARNING) as the program is delivered.            *)
(***************************************************************************)
EXTENDS RiskScoring, Sequences, FiniteSets

CONSTANTS
    Txns,               \* transactions
    Probabilities,      \* calibrated probabilities the model may give, as half points
    MaxBatch,           \* BatchPredictionRequest: max_length of transactions
    Keys,               \* the API keys that clients come with
    ValidKeys,          \* FRAUD_API_KEYS, split at the commas
    NoKey,              \* a request without the X-API-Key header, or with an empty one
    Development,        \* settings.environment = "development"
    RootLevel,          \* the level of the root logger
    MaxRequests,        \* bound: requests accepted for scoring, and reloads
    MaxCrashes          \* bound: times the process dies

ASSUME ServiceAssumption ==
    /\ Probabilities \subseteq 0 .. 2 * MaxScore
    /\ MaxBatch \in Nat \ {0}
    /\ Development \in BOOLEAN
    /\ RootLevel \in Nat
    /\ MaxRequests \in Nat /\ MaxCrashes \in Nat

VARIABLES
    phase,      \* "down", "idle", or the step of the request being handled
    ready,      \* ModelState.is_ready
    job,        \* the request being handled
    counted,    \* DECISION_COUNT, by decision
    processed,  \* TRANSACTIONS_PROCESSED
    alerts,     \* FRAUD_ALERTS
    trail,      \* the audit records that were written
    status,     \* of the last reply, "none" when the process has given none
    answered,   \* the scored requests that clients have the answer to
    since,      \* how many of them had it when this process started
    requests, crashes

vars == <<phase, ready, job, counted, processed, alerts, trail, status, answered,
          since, requests, crashes>>

counters == <<counted, processed, alerts>>

Assessment == [score : Scores, level : Levels, decision : Decisions]

Prediction == [txn : Txns, prob : Probabilities, result : Assessment]

\* What an item of a batch that failed is answered, without the engine.
Failed == [score |-> 0, level |-> "UNKNOWN", decision |-> "REVIEW"]

\* PredictionResponse: a prediction, or the fallback for a failed item.
Response == Prediction \cup [txn : Txns, prob : {0}, result : {Failed}]

Batches == UNION {[1 .. n -> Txns] : n \in 1 .. MaxBatch}

Nobody == [kind |-> "none", txns |-> <<>>, done |-> <<>>, scored |-> {}]

Status == {"none", "ok", "unauthorized", "unavailable", "error"}

INFO == 20

\* logging.getLogger("fraud.audit").info: the logger has no level of its own,
\* so a record below that of the root is dropped.
Emit(record) == IF INFO >= RootLevel THEN trail' = Append(trail, record) ELSE UNCHANGED trail

Init ==
    /\ phase = "down"
    /\ ready = FALSE
    /\ job = Nobody
    /\ counted = [d \in Decisions |-> 0]
    /\ processed = 0
    /\ alerts = 0
    /\ trail = <<>>
    /\ status = "none"
    /\ answered = <<>>
    /\ since = 0
    /\ requests = 0
    /\ crashes = 0

\* A new process: counters at zero, and lifespan() loads a model, or fails to.
Start ==
    /\ phase = "down"
    /\ phase' = "idle"
    /\ ready' \in BOOLEAN
    /\ since' = Len(answered)
    /\ UNCHANGED <<job, counters, trail, status, answered, requests, crashes>>

Crash ==
    /\ phase # "down"
    /\ crashes < MaxCrashes
    /\ crashes' = crashes + 1
    /\ phase' = "down"
    /\ ready' = FALSE
    /\ job' = Nobody
    /\ counted' = [d \in Decisions |-> 0]
    /\ processed' = 0
    /\ alerts' = 0
    /\ status' = "none"
    /\ UNCHANGED <<trail, since, answered, requests>>

\* verify_api_key: with FRAUD_API_KEYS unset the split leaves one empty key,
\* which a request without a key does not match.
Authorized(key) == Development \/ (key # NoKey /\ key \in ValidKeys)

\* A request is refused: 401 without a valid key, 503 without a model.
Refuse(key) ==
    /\ phase = "idle"
    /\ \/ ~Authorized(key) /\ status' = "unauthorized"
       \/ Authorized(key) /\ ~ready /\ status' = "unavailable"
    /\ UNCHANGED <<phase, ready, job, counters, trail, since, answered, requests, crashes>>

Accept(kind, txns, key) ==
    /\ phase = "idle"
    /\ Authorized(key)
    /\ ready
    /\ requests < MaxRequests
    /\ requests' = requests + 1
    /\ phase' = "score"
    /\ job' = [kind |-> kind, txns |-> txns, done |-> <<>>, scored |-> {}]
    /\ UNCHANGED <<ready, counters, trail, since, status, answered, crashes>>

\* The transaction whose turn it is.
Current == job.txns[Len(job.done) + 1]

\* Features, model, calibrator and DecisionEngine.decide.
Score_(h) ==
    /\ phase = "score"
    /\ phase' = "meter"
    /\ job' = [job EXCEPT !.scored = {[txn |-> Current, prob |-> h, result |-> Decide(h)]}]
    /\ UNCHANGED <<ready, counters, trail, since, status, answered, requests, crashes>>

\* record_prediction
\* Mutant: the decisions are counted under the name of the level.
Meter_CountsLevels ==
    /\ phase = "meter"
    /\ \E p \in job.scored :
          /\ counted' = [name \in DOMAIN counted \cup {p.result.level} |->
                            (IF name \in DOMAIN counted THEN counted[name] ELSE 0)
                            + (IF name = p.result.level THEN 1 ELSE 0)]
          /\ alerts' = IF p.result.decision = "BLOCK" THEN alerts + 1 ELSE alerts
    /\ processed' = processed + 1
    /\ phase' = "audit"
    /\ UNCHANGED <<ready, job, trail, since, status, answered, requests, crashes>>

\* Mutant: a review raises an alert too.
Meter_AlertsOnReview ==
    /\ phase = "meter"
    /\ \E p \in job.scored :
          /\ counted' = [counted EXCEPT ![p.result.decision] = @ + 1]
          /\ alerts' = IF p.result.decision # "APPROVE" THEN alerts + 1 ELSE alerts
    /\ processed' = processed + 1
    /\ phase' = "audit"
    /\ UNCHANGED <<ready, job, trail, since, status, answered, requests, crashes>>

Meter ==
    /\ phase = "meter"
    /\ \E p \in job.scored :
          /\ counted' = [counted EXCEPT ![p.result.decision] = @ + 1]
          /\ alerts' = IF p.result.decision = "BLOCK" THEN alerts + 1 ELSE alerts
    /\ processed' = processed + 1
    /\ phase' = "audit"
    /\ UNCHANGED <<ready, job, trail, since, status, answered, requests, crashes>>

\* The response of the current transaction is there: it is the answer of
\* /predict, and the next item of a batch.
Respond(response) ==
    LET done == Append(job.done, response)
    IN  IF Len(done) = Len(job.txns)
        THEN /\ answered' = Append(answered, [kind |-> job.kind, txns |-> job.txns,
                                                 responses |-> done])
             /\ status' = "ok"
             /\ phase' = "idle"
             /\ job' = Nobody
        ELSE /\ phase' = "score"
             /\ job' = [job EXCEPT !.done = done, !.scored = {}]
             /\ UNCHANGED <<status, answered>>

\* log_prediction, and the response.
Audit ==
    /\ phase = "audit"
    /\ \E p \in job.scored :
          /\ Emit([kind |-> "PREDICTION", prediction |-> p])
          /\ Respond(p)
    /\ UNCHANGED <<ready, counters, since, requests, crashes>>

\* Mutant: a failed item is dropped from its batch.
ScoringFails_SkipsItem ==
    /\ phase = "score"
    /\ IF job.kind = "batch" /\ Len(job.txns) > 1
       THEN /\ job' = [job EXCEPT !.txns = Tail(@)]
            /\ UNCHANGED <<phase, status, answered>>
       ELSE /\ status' = "error"
            /\ UNCHANGED answered
            /\ phase' = "idle"
            /\ job' = Nobody
    /\ UNCHANGED <<ready, counters, trail, since, requests, crashes>>

\* The try of /predict fails, before anything was counted or recorded: 500,
\* of which the batch makes a response that sends the transaction to review.
ScoringFails ==
    /\ phase = "score"
    /\ IF job.kind = "batch"
       THEN Respond([txn |-> Current, prob |-> 0, result |-> Failed])
       ELSE /\ status' = "error"
            /\ UNCHANGED answered
            /\ phase' = "idle"
            /\ job' = Nobody
    /\ UNCHANGED <<ready, counters, trail, since, requests, crashes>>

\* reload_model: the admin record is made whatever became of the load.
Reload(key) ==
    /\ phase = "idle"
    /\ Authorized(key)
    /\ requests < MaxRequests
    /\ requests' = requests + 1
    /\ ready' \in BOOLEAN
    /\ Emit([kind |-> "ADMIN", user |-> key])
    /\ status' = "ok"
    /\ UNCHANGED <<phase, job, counters, since, answered, crashes>>

\* GET /ready, which needs no key.
Probe ==
    /\ phase = "idle"
    /\ status' = IF ready THEN "ok" ELSE "unavailable"
    /\ UNCHANGED <<phase, ready, job, counters, trail, since, answered, requests, crashes>>

Handle ==
    \/ \E h \in Probabilities : Score_(h)
    \/ ScoringFails
    \/ Meter
    \/ Audit

Next ==
    \/ Start
    \/ Crash
    \/ \E key \in Keys \cup {NoKey} :
          \/ \E t \in Txns : Accept("single", <<t>>, key)
          \/ \E b \in Batches : Accept("batch", b, key)
          \/ Refuse(key)
          \/ Reload(key)
    \/ Probe
    \/ Handle

Spec == Init /\ [][Next]_vars

-----------------------------------------------------------------------------
Records == [kind : {"PREDICTION"}, prediction : Prediction]
           \cup [kind : {"ADMIN"}, user : Keys \cup {NoKey}]

TypeOK ==
    /\ phase \in {"down", "idle", "score", "meter", "audit"}
    /\ ready \in BOOLEAN
    /\ job \in [kind : {"none", "single", "batch"}, txns : Seq(Txns), done : Seq(Response),
               scored : SUBSET Prediction]
    /\ counted \in [Decisions -> Nat]
    /\ processed \in Nat /\ alerts \in Nat
    /\ trail \in Seq(Records)
    /\ status \in Status
    /\ answered \in Seq([kind : {"single", "batch"}, txns : Seq(Txns),
                        responses : Seq(Response)])
    /\ since \in 0 .. Len(answered)
    /\ requests \in 0 .. MaxRequests /\ crashes \in 0 .. MaxCrashes

IsScored(r) == r.result # Failed

(***************************************************************************)
(* The counters of a process agree with what its clients were told, by     *)
(* decision, in all and as alerts: every scored response that it answered, *)
(* alone or in a batch, and those of the batch being handled, is counted   *)
(* once, and a failed item is not, although it is answered REVIEW.  This   *)
(* holds however the worker was reloaded and whatever failed, and although *)
(* a new process starts from zero.  Only from record_prediction until the  *)
(* response is made are the counters one ahead.                            *)
(***************************************************************************)
Told(d) == {w \in (DOMAIN answered) \X (1 .. MaxBatch) :
               LET responses == answered[w[1]].responses
               IN  /\ w[1] > since
                   /\ w[2] \in DOMAIN responses
                   /\ IsScored(responses[w[2]]) /\ responses[w[2]].result.decision = d}

InHand(d) == {j \in DOMAIN job.done :
                 IsScored(job.done[j]) /\ job.done[j].result.decision = d}

Ahead(d) == IF phase = "audit" /\ (\E p \in job.scored : p.result.decision = d) THEN 1 ELSE 0

CountersMatchAnswers ==
    phase # "down" =>
        /\ \A d \in Decisions :
              counted[d] = Cardinality(Told(d)) + Cardinality(InHand(d)) + Ahead(d)
        /\ processed = counted["APPROVE"] + counted["REVIEW"] + counted["BLOCK"]
        /\ alerts = counted["BLOCK"]

(***************************************************************************)
(* A batch is answered item by item in the order of the request and in     *)
(* full, whichever items failed; a failed one goes to review, and a single *)
(* request is never answered with the response of a failure.               *)
(***************************************************************************)
Answers(txns, responses) == \A j \in DOMAIN responses : responses[j].txn = txns[j]

AnswersInOrder ==
    /\ \A i \in DOMAIN answered :
          /\ Len(answered[i].responses) = Len(answered[i].txns)
          /\ Answers(answered[i].txns, answered[i].responses)
          /\ answered[i].kind = "single" => IsScored(answered[i].responses[1])
    /\ Len(job.done) <= Len(job.txns)
    /\ Answers(job.txns, job.done)

Members(responses) == {responses[j] : j \in DOMAIN responses}

Responses == (UNION {Members(answered[i].responses) : i \in DOMAIN answered})
             \cup Members(job.done)

(***************************************************************************)
(* Of any two scored responses, whoever got them and from whichever        *)
(* process, the one of the higher probability has no lower score and no    *)
(* milder level or decision: truncation, clipping and the boundaries of    *)
(* the bands keep the order of the probabilities.                          *)
(***************************************************************************)
Monotone ==
    \A p, q \in Responses :
        IsScored(p) /\ IsScored(q) /\ p.prob <= q.prob =>
            /\ p.result.score <= q.result.score
            /\ Strictness(p.result.level) <= Strictness(q.result.level)
            /\ Strictness(p.result.decision) <= Strictness(q.result.decision)

(***************************************************************************)
(* "Structured audit logging for predictions and admin actions"            *)
(* (src/security/auth.py:103): no client holds a score without an audit    *)
(* record of its transaction, probability, score and decision.  The        *)
(* program as delivered does not keep this: see RootLevel.                 *)
(***************************************************************************)
AnswersAreAudited ==
    \A r \in Responses :
        IsScored(r) =>
        \E i \in DOMAIN trail : trail[i] = [kind |-> "PREDICTION", prediction |-> r]

-----------------------------------------------------------------------------
(***************************************************************************)
(* The inductive invariant: what is known of the request being handled at  *)
(* each of its steps, and that a response holds what the engine decided.   *)
(***************************************************************************)
Handling == phase \in {"score", "meter", "audit"}

JobInv ==
    /\ ~Handling => job = Nobody
    /\ Handling => /\ job.kind \in {"single", "batch"}
                   /\ Len(job.done) < Len(job.txns) /\ Len(job.txns) <= MaxBatch
                   /\ job.kind = "single" => Len(job.txns) = 1
    /\ phase \in {"meter", "audit"} =>
          \E h \in Probabilities :
              job.scored = {[txn |-> Current, prob |-> h, result |-> Decide(h)]}
    /\ phase = "down" => processed = 0 /\ alerts = 0 /\ \A d \in Decisions : counted[d] = 0

Honest(responses) ==
    \A j \in DOMAIN responses :
        IsScored(responses[j]) => responses[j].result = Decide(responses[j].prob)

AllHonest == Honest(job.done) /\ \A i \in DOMAIN answered : Honest(answered[i].responses)

IInv == TypeOK /\ JobInv /\ AllHonest /\ CountersMatchAnswers /\ AnswersInOrder
=============================================================================
