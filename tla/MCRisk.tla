------------------------------- MODULE MCRisk -------------------------------
(* The functions of RiskDecision swept over every model output: one state   *)
(* for each raw probability.                                                *)
EXTENDS RiskDecision

VARIABLE raw

Init == raw = 0

Next == raw' = IF raw = Exactly(One) THEN 0 ELSE raw + 1

Sweep == Init /\ [][Next]_raw

\* A row whose stored probability and decision disagree, which nothing in
\* scoring_requests excludes, holds 0.2 or 0.4 and was rounded towards REVIEW.
DisagreementIsConfined == DisagreementIsConfinedAt(raw)

\* get_scoring_history: min_score and max_score of four decimals compare
\* the stored value, but lose no record whose model output meets the bound.
FiltersKeepQualifying ==
    \A m \in (Below(raw) - 1 .. Below(raw) + 2) \cap StoredProbability : FilterKeepsAt(raw, m)

\* app/schemas/scoring.py:305, "APPROVE (< 0.20), REVIEW (0.20-0.40), DENY
\* (> 0.40)", of a response whose only probability is the rounded one.
StoredProbabilityExplainsDecision == DecisionOfStored(round4(raw)) = classify_risk(raw)
=============================================================================
