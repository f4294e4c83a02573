----------------------------- MODULE RiskProofs -----------------------------
(***************************************************************************)
(* Rounding and classification for every resolution of the model's output. *)
(***************************************************************************)
EXTENDS RiskDecision, TLAPS

\* Products by Grain preserve and reflect the order: the one nonlinear fact
\* the rest needs.
LEMMA ExactlyOrder ==
    /\ Grain \in Int /\ Grain >= 1
    /\ \A a \in Int : Exactly(a) \in Int
    /\ \A a, b \in Int : a <= b => Exactly(a) <= Exactly(b)
    /\ \A a, b \in Int : a < b => Exactly(a) + Grain <= Exactly(b)
    /\ \A a \in Int : Exactly(a + 1) = Exactly(a) + Grain
    /\ Exactly(0) = 0
<1>1. Grain \in Int /\ Grain >= 1
  BY GrainAssumption
<1>2. ASSUME NEW d \in Int, d >= 0 PROVE d * Grain >= 0
  BY <1>1, <1>2
<1>3. ASSUME NEW a \in Int, NEW b \in Int
      PROVE  /\ a <= b => a * Grain <= b * Grain
             /\ a < b => a * Grain + Grain <= b * Grain
  <2>1. (b - a) * Grain = b * Grain - a * Grain
    BY <1>1
  <2>2. (b - a - 1) * Grain = b * Grain - a * Grain - Grain
    BY <1>1
  <2>3. a * Grain \in Int /\ b * Grain \in Int
    BY <1>1
  <2>4. ASSUME a <= b PROVE a * Grain <= b * Grain
    BY <1>2, <2>1, <2>3, <2>4
  <2>5. ASSUME a < b PROVE a * Grain + Grain <= b * Grain
    BY <1>1, <1>2, <2>2, <2>3, <2>5
  <2> QED
    BY <2>4, <2>5
<1>4. \A a \in Int : a * Grain \in Int /\ (a + 1) * Grain = a * Grain + Grain
  BY <1>1
<1>5. 0 * Grain = 0
  BY <1>1
<1> QED
  BY <1>1, <1>3, <1>4, <1>5 DEF Exactly

\* Membership of the stored values, as the inequalities the steps below use.
LEMMA StoredRange ==
    One \in Int /\ One >= 0 /\ \A k : k \in StoredProbability <=> (k \in Int /\ 0 <= k /\ k <= One)
<1>1. One \in Int /\ One >= 0
  BY DEF One
<1> QED
  BY <1>1 DEF StoredProbability

\* What the rounding of a raw probability rests on: the quotient and the
\* remainder of the division by Grain.
LEMMA Division ==
    ASSUME NEW p \in RawProbability
    PROVE  /\ Below(p) \in Int /\ 0 <= Below(p) /\ Below(p) <= One
           /\ Rest(p) \in Int /\ 0 <= Rest(p) /\ Rest(p) < Grain
           /\ p = Exactly(Below(p)) + Rest(p)
           /\ Below(p) = One => Rest(p) = 0
<1>1. One \in Int /\ p \in Int /\ 0 <= p /\ p <= Exactly(One)
  BY ExactlyOrder, StoredRange DEF RawProbability
<1>2. Grain \in Int /\ Grain >= 1
  BY ExactlyOrder
<1>3. Below(p) \in Int
  BY <1>1, <1>2 DEF Below
<1>4. Rest(p) \in Int /\ 0 <= Rest(p) /\ Rest(p) < Grain
  BY <1>1, <1>2 DEF Rest
<1>5. p = Exactly(Below(p)) + Rest(p)
  BY <1>1, <1>2 DEF Exactly, Below, Rest
<1>6. 0 <= Below(p)
  BY <1>1, <1>2, <1>3, <1>4, <1>5, ExactlyOrder
<1>7. Below(p) <= One
  BY <1>1, <1>2, <1>3, <1>4, <1>5, ExactlyOrder
<1>8. Below(p) = One => Rest(p) = 0
  BY <1>1, <1>2, <1>3, <1>4, <1>5, ExactlyOrder
<1> QED
  BY <1>3, <1>4, <1>5, <1>6, <1>7, <1>8

\* round4 yields a storable value within half a ten-thousandth of its
\* argument: predicted_probability is a faithful copy of what was predicted.
THEOREM RoundingIsTight ==
    ASSUME NEW p \in RawProbability
    PROVE  RoundingIsTightAt(p)
<1>1. ASSUME NEW b \in Int, NEW r \in Int, NEW s,
             p \in Int, 0 <= b, b <= One, 0 <= r, r < Grain, p = Exactly(b) + r, b = One => r = 0,
             s = IF 2 * r < Grain \/ (2 * r = Grain /\ b % 2 = 0) THEN b ELSE b + 1
      PROVE  /\ s \in StoredProbability
             /\ 2 * (Exactly(s) - p) <= Grain
             /\ 2 * (p - Exactly(s)) <= Grain
  <2>1. Grain \in Int /\ Grain >= 1 /\ One \in Int
    BY ExactlyOrder, StoredRange
  <2>2. Exactly(b) \in Int /\ Exactly(b + 1) = Exactly(b) + Grain
    BY ExactlyOrder
  <2>3. \/ s = b /\ 2 * r <= Grain
        \/ s = b + 1 /\ 2 * r >= Grain
    BY <1>1, <2>1
  <2>4. CASE s = b /\ 2 * r <= Grain
    BY <1>1, <2>1, <2>2, <2>4 DEF StoredProbability
  <2>5. CASE s = b + 1 /\ 2 * r >= Grain
    <3>1. b < One
      BY <1>1, <2>1, <2>5
    <3>2. s \in StoredProbability
      BY <1>1, <2>1, <2>5, <3>1 DEF StoredProbability
    <3>3. Exactly(s) = Exactly(b) + Grain
      BY <2>2, <2>5
    <3> QED
      BY <1>1, <2>1, <2>2, <2>5, <3>2, <3>3
  <2> QED
    BY <2>3, <2>4, <2>5
<1>2. p \in Int
  BY ExactlyOrder, StoredRange DEF RawProbability
<1> QED
  BY <1>1, <1>2, Division, Zenon DEF round4, RoundingIsTightAt

\* The history filters, which compare the stored probability, keep every
\* record whose raw probability qualifies.
THEOREM FilterKeeps ==
    ASSUME NEW p \in RawProbability, NEW m \in StoredProbability
    PROVE  FilterKeepsAt(p, m)
<1>1. ASSUME NEW s \in Int, NEW k \in Int, NEW q \in Int,
             2 * (Exactly(s) - q) <= Grain, 2 * (q - Exactly(s)) <= Grain
      PROVE  /\ q >= Exactly(k) => s >= k
             /\ q <= Exactly(k) => s <= k
  <2>1. /\ Grain \in Int /\ Grain >= 1
        /\ Exactly(s) \in Int /\ Exactly(k) \in Int
        /\ s < k => Exactly(s) + Grain <= Exactly(k)
        /\ k < s => Exactly(k) + Grain <= Exactly(s)
    BY ExactlyOrder
  <2> QED
    BY <1>1, <2>1
<1>2. round4(p) \in Int /\ m \in Int
  BY RoundingIsTight, StoredRange, Zenon DEF RoundingIsTightAt
<1>3. p \in Int
  BY ExactlyOrder, StoredRange DEF RawProbability
<1>4. /\ 2 * (Exactly(round4(p)) - p) <= Grain
      /\ 2 * (p - Exactly(round4(p))) <= Grain
  BY RoundingIsTight, Zenon DEF RoundingIsTightAt
<1> QED
  BY <1>1, <1>2, <1>3, <1>4, Zenon DEF FilterKeepsAt

\* The thresholds of classify_risk, in order.
LEMMA Thresholds ==
    /\ ReviewFrom \in StoredProbability /\ DenyAbove \in StoredProbability
    /\ ReviewFrom \in Int /\ DenyAbove \in Int /\ ReviewFrom < DenyAbove
    /\ Exactly(ReviewFrom) \in Int /\ Exactly(DenyAbove) \in Int
    /\ Exactly(ReviewFrom) < Exactly(DenyAbove)
<1>1. Grain \in Int /\ Grain >= 1
  BY ExactlyOrder
<1> QED
  BY <1>1 DEF Exactly, ReviewFrom, DenyAbove, StoredProbability, One

\* classify_risk is monotone: a higher probability, no milder decision.
THEOREM Monotone ==
    ASSUME NEW p \in RawProbability, NEW q \in RawProbability
    PROVE  MonotoneAt(p, q)
<1> DEFINE Band(x, l, h) == IF x < l THEN "APPROVE" ELSE IF x <= h THEN "REVIEW" ELSE "DENY"
<1>1. p \in Int /\ q \in Int
  BY ExactlyOrder, StoredRange DEF RawProbability
<1>2. ASSUME NEW l \in Int, NEW h \in Int, l < h, p <= q
      PROVE  Severity(Band(p, l, h)) <= Severity(Band(q, l, h))
  BY <1>1, <1>2 DEF Severity
<1>3. /\ classify_risk(p) = Band(p, Exactly(ReviewFrom), Exactly(DenyAbove))
      /\ classify_risk(q) = Band(q, Exactly(ReviewFrom), Exactly(DenyAbove))
  BY Zenon DEF classify_risk
<1> HIDE DEF Band
<1> QED
  BY <1>2, <1>3, Thresholds, Zenon DEF MonotoneAt

\* A stored probability contradicts its stored decision at 0.2 and at 0.4
\* only, and then reads as REVIEW.
THEOREM DisagreementIsAtThresholds ==
    ASSUME NEW p \in RawProbability
    PROVE  DisagreementIsConfinedAt(p)
<1> DEFINE Band(x, l, h) == IF x < l THEN "APPROVE" ELSE IF x <= h THEN "REVIEW" ELSE "DENY"
<1>1. p \in Int
  BY ExactlyOrder, StoredRange DEF RawProbability
<1>2. round4(p) \in Int
  BY RoundingIsTight, StoredRange, Zenon DEF RoundingIsTightAt
<1>3. /\ p >= Exactly(ReviewFrom) => round4(p) >= ReviewFrom
      /\ p <= Exactly(ReviewFrom) => round4(p) <= ReviewFrom
      /\ p >= Exactly(DenyAbove) => round4(p) >= DenyAbove
      /\ p <= Exactly(DenyAbove) => round4(p) <= DenyAbove
  BY Thresholds, FilterKeeps, Zenon DEF FilterKeepsAt
<1>4. ASSUME NEW s \in Int
      PROVE  DecisionOfStored(s) = Band(s, ReviewFrom, DenyAbove)
  <2>1. ASSUME NEW a \in Int, NEW b \in Int
        PROVE  /\ Grain \in Int /\ Grain >= 1 /\ Exactly(s) \in Int
               /\ s < a => Exactly(s) + Grain <= Exactly(a)
               /\ a <= s => Exactly(a) <= Exactly(s)
               /\ s <= b => Exactly(s) <= Exactly(b)
               /\ b < s => Exactly(b) + Grain <= Exactly(s)
    BY ExactlyOrder
  <2>2. ASSUME NEW a \in Int, NEW b \in Int,
               Exactly(a) \in Int, Exactly(b) \in Int, Exactly(a) < Exactly(b)
        PROVE  Band(Exactly(s), Exactly(a), Exactly(b)) = Band(s, a, b)
    BY <2>1, <2>2
  <2>3. DecisionOfStored(s) = Band(Exactly(s), Exactly(ReviewFrom), Exactly(DenyAbove))
    BY Zenon DEF DecisionOfStored, classify_risk
  <2> HIDE DEF Band
  <2> QED
    BY <2>2, <2>3, Thresholds, Zenon
<1>5. ASSUME NEW s \in Int, NEW a \in Int, NEW b \in Int, NEW l \in Int, NEW h \in Int,
             l < h, a < b,
             p >= l => s >= a, p <= l => s <= a, p >= h => s >= b, p <= h => s <= b,
             Band(s, a, b) # Band(p, l, h)
      PROVE  /\ Band(s, a, b) = "REVIEW"
             /\ \/ s = a /\ Band(p, l, h) = "APPROVE"
                \/ s = b /\ Band(p, l, h) = "DENY"
  <2>1. CASE p < l
    BY <1>1, <1>5, <2>1
  <2>2. CASE l <= p /\ p <= h
    BY <1>1, <1>5, <2>2
  <2>3. CASE h < p
    BY <1>1, <1>5, <2>3
  <2> QED
    BY <1>1, <1>5, <2>1, <2>2, <2>3
<1>6. classify_risk(p) = Band(p, Exactly(ReviewFrom), Exactly(DenyAbove))
  BY Zenon DEF classify_risk
<1>7. DecisionOfStored(round4(p)) = Band(round4(p), ReviewFrom, DenyAbove)
  BY <1>2, <1>4, Zenon
<1> HIDE DEF Band
<1>8. ASSUME Band(round4(p), ReviewFrom, DenyAbove)
               # Band(p, Exactly(ReviewFrom), Exactly(DenyAbove))
      PROVE  /\ Band(round4(p), ReviewFrom, DenyAbove) = "REVIEW"
             /\ \/ /\ round4(p) = ReviewFrom
                   /\ Band(p, Exactly(ReviewFrom), Exactly(DenyAbove)) = "APPROVE"
                \/ /\ round4(p) = DenyAbove
                   /\ Band(p, Exactly(ReviewFrom), Exactly(DenyAbove)) = "DENY"
  BY <1>2, <1>3, <1>5, <1>8, Thresholds
<1> QED
  BY <1>6, <1>7, <1>8, Zenon DEF DisagreementIsConfinedAt
=============================================================================
