----------------------------- MODULE Confidence -----------------------------
(***************************************************************************)
(* ConfidenceScorer: the score of a reply, in hundredths, and the decision *)
(* to send it without review.  The modifiers are those that                *)
(* config/confidence_thresholds.yaml and the code agree on.                *)
(***************************************************************************)
EXTENDS Integers

(* What the scorer looks at besides the model's own confidence.           *)
Signals ==
    [manyMemories : BOOLEAN, deadlineRisk : BOOLEAN, senderKnown : BOOLEAN,
     social : BOOLEAN, foreign : BOOLEAN, priority : {"high", "normal", "low"},
     group : BOOLEAN, titled : BOOLEAN, history : BOOLEAN]

Modifier(flag, points) == IF flag THEN points ELSE 0

Clipped(x) == IF x < 0 THEN 0 ELSE IF x > 100 THEN 100 ELSE x

(* score: every signal moves the model's confidence by a fixed amount, and *)
(* the sum is clipped.                                                     *)
Score(base, s) ==
    Clipped(base + Modifier(s.manyMemories, 10)
                 + Modifier(s.deadlineRisk, -20)
                 + Modifier(~s.senderKnown, -15)
                 + Modifier(s.social, IF s.group THEN -90 ELSE 25)
                 + Modifier(~s.history, -90)
                 + Modifier(s.titled, -30)
                 + Modifier(s.foreign, -10)
                 + Modifier(s.priority = "high", 15)
                 + Modifier(s.priority = "low", -10))

(* The most a reply into a room without history can score, if the model    *)
(* reports no more than 1.0 (which nothing enforces): 100 + 10 + 25        *)
(* + 15 - 90.                                                              *)
StrangerMax == 60
=============================================================================
