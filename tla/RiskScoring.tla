---------------------------- MODULE RiskScoring ----------------------------
(***************************************************************************)
(* From a calibrated probability to a risk score, a level and a decision   *)
(* (src/scoring/risk_scorer.py and DecisionEngine in                       *)
(* src/scoring/decision_engine.py, with RiskScoringConfig of               *)
(* src/config/settings.py).                                                *)
(*                                                                         *)
(* The score is the truncated square root of the probability, scaled to    *)
(* MaxScore.  Only the place of a probability among the MaxScore + 1       *)
(* boundaries matters, so a probability p is the half point h: 2s for      *)
(* sqrt(p) * MaxScore = s exactly, 2s + 1 for a p strictly between the     *)
(* boundaries of s and s + 1, with the same order as the probabilities.    *)
(* At some boundaries the product falls just below the integer in floating *)
(* point and is truncated to s - 1 (with MaxScore = 1000 at 62 of them, of *)
(* which 199 is the largest inside LOW); Lost is the set of these scores.  *)
(***************************************************************************)
EXTENDS Integers

CONSTANTS
    MaxScore,               \* RiskScoringConfig.max_score; min_score is 0
    LowMax, MediumMax, HighMax,
    ApproveMax, ReviewMax,
    Lost                    \* scores whose boundary is truncated to the score below

ASSUME ScoringAssumption ==
    /\ MaxScore \in Nat \ {0}
    /\ {LowMax, MediumMax, HighMax, ApproveMax, ReviewMax} \subseteq 0 .. MaxScore
    /\ LowMax < MediumMax /\ MediumMax < HighMax /\ HighMax < MaxScore
    /\ ApproveMax < ReviewMax /\ ReviewMax < MaxScore
    /\ Lost \subseteq 1 .. MaxScore - 1

Scores == 0 .. MaxScore

Levels == {"LOW", "MEDIUM", "HIGH", "CRITICAL"}

Decisions == {"APPROVE", "REVIEW", "BLOCK"}

\* np.clip
Clip(x, low, high) == IF x < low THEN low ELSE IF x > high THEN high ELSE x

\* int(np.sqrt(p) * max_score)
Truncated(h) == IF h % 2 = 0 /\ h \div 2 \in Lost THEN h \div 2 - 1 ELSE h \div 2

\* Mutant: the score at a lost boundary is rounded down twice.
Score_RoundsTwice(h) == LET p == Clip(h, 0, 2 * MaxScore)
                        IN  IF p % 2 = 0 /\ p \div 2 \in Lost
                            THEN Clip(p \div 2 - 2, 0, MaxScore) ELSE p \div 2

Score(h) == Clip(Truncated(Clip(h, 0, 2 * MaxScore)), 0, MaxScore)

Level(score) == CASE score <= LowMax                          -> "LOW"
                  [] score > LowMax /\ score <= MediumMax     -> "MEDIUM"
                  [] score > MediumMax /\ score <= HighMax    -> "HIGH"
                  [] OTHER                                    -> "CRITICAL"

Decision(score) == CASE score <= ApproveMax                       -> "APPROVE"
                     [] score > ApproveMax /\ score <= ReviewMax  -> "REVIEW"
                     [] OTHER                                     -> "BLOCK"

\* DecisionEngine.decide
Decide(h) == LET s == Score(h)
             IN  [score |-> s, level |-> Level(s), decision |-> Decision(s)]

(***************************************************************************)
(* batch_assess does not clip the probabilities before the root: that of a *)
(* negative one is NaN, which astype(int) turns into the least integer (or *)
(* zero), and the clip of the scores into 0.  batch_decide decides one     *)
(* after the other.                                                        *)
(***************************************************************************)
BatchScore(h) == IF h < 0 THEN 0 ELSE Clip(Truncated(h), 0, MaxScore)

BatchAssess(hs) == [i \in DOMAIN hs |-> [score |-> BatchScore(hs[i]),
                                         level |-> Level(BatchScore(hs[i]))]]

BatchDecide(hs) == [i \in DOMAIN hs |-> Decide(hs[i])]

\* How strict an answer is, to compare two of them.
Strictness(d) == CASE d \in {"APPROVE", "LOW"} -> 0
                   [] d = "MEDIUM"             -> 1
                   [] d = "REVIEW"             -> 1
                   [] d = "HIGH"               -> 2
                   [] OTHER                    -> 3
=============================================================================
