---------------------------- MODULE RiskDecision ----------------------------
(***************************************************************************)
(* How a model output becomes a decision and a stored probability:         *)
(* classify_risk in app/schemas/scoring.py and the round(prob_default, 4)  *)
(* of score_applicant.                                                     *)
(*                                                                         *)
(* A probability is an integer number of grains, with Grain grains to one  *)
(* ten-thousandth, so that 1.0 is 10000 * Grain.  Grain is a parameter:    *)
(* how much finer than the stored four decimals the model's output is.     *)
(***************************************************************************)
EXTENDS Integers

CONSTANT Grain

ASSUME GrainAssumption == Grain \in Nat \ {0}

\* The raw probability of k ten-thousandths.
Exactly(k) == k * Grain

\* In ten-thousandths.
One == 10000
ReviewFrom == 2000
DenyAbove == 4000

RawProbability == 0 .. Exactly(One)
StoredProbability == 0 .. One

Decision == {"APPROVE", "REVIEW", "DENY"}

\* Faulty: the bounds are compared with the wrong precision (0.2 against 0.205).
classify_risk_Coarse(p) ==
    IF p < Exactly(ReviewFrom + 50) THEN "APPROVE"
    ELSE IF p <= Exactly(DenyAbove) THEN "REVIEW"
    ELSE "DENY"

\* < 0.20 APPROVE, <= 0.40 REVIEW, else DENY.
classify_risk(p) ==
    IF p < Exactly(ReviewFrom) THEN "APPROVE"
    ELSE IF p <= Exactly(DenyAbove) THEN "REVIEW"
    ELSE "DENY"

\* Faulty: three decimals instead of four.
round4_Three(p) == 10 * ((p + 5 * Grain) \div (10 * Grain))

\* round(p, 4): the nearest ten-thousandth, a tie going to the even one.
Below(p) == p \div Grain
Rest(p) == p % Grain

round4(p) ==
    IF 2 * Rest(p) < Grain \/ (2 * Rest(p) = Grain /\ Below(p) % 2 = 0)
    THEN Below(p)
    ELSE Below(p) + 1

\* The decision a reader of the stored probability would expect.
DecisionOfStored(k) == classify_risk(Exactly(k))

Severity(d) == IF d = "APPROVE" THEN 0 ELSE IF d = "REVIEW" THEN 1 ELSE 2

-----------------------------------------------------------------------------
(* What must hold of every model output.                                   *)

\* A higher default probability never gets a milder decision.
MonotoneAt(p, q) == p <= q => Severity(classify_risk(p)) <= Severity(classify_risk(q))

\* Rounding is off by half a ten-thousandth at most, and keeps the range.
RoundingIsTightAt(p) ==
    /\ round4(p) \in StoredProbability
    /\ 2 * (Exactly(round4(p)) - p) <= Grain
    /\ 2 * (p - Exactly(round4(p))) <= Grain

\* The stored probability and the stored decision disagree at the two
\* thresholds only, where the probability alone would say REVIEW: an APPROVE
\* stored with 0.2, a DENY stored with 0.4.
DisagreementIsConfinedAt(p) ==
    DecisionOfStored(round4(p)) # classify_risk(p) =>
        /\ DecisionOfStored(round4(p)) = "REVIEW"
        /\ \/ round4(p) = ReviewFrom /\ classify_risk(p) = "APPROVE"
           \/ round4(p) = DenyAbove /\ classify_risk(p) = "DENY"

\* A history query for probabilities of m ten-thousandths or more
\* (min_score), or m or less (max_score), which compares the stored value,
\* never leaves out a record whose raw probability qualifies.
FilterKeepsAt(p, m) ==
    /\ p >= Exactly(m) => round4(p) >= m
    /\ p <= Exactly(m) => round4(p) <= m
=============================================================================
