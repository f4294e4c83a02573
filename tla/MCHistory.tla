----------------------------- MODULE MCHistory ------------------------------
(***************************************************************************)
(* History on small instances: two records of one user, with different    *)
(* decisions, and listings of that user and of another.                    *)
(***************************************************************************)
EXTENDS History, TLC

CONSTANTS a1, a2, alice, bob

Rows == a1 :> [owner |-> alice, probability |-> 1000, decision |-> "APPROVE"]
     @@ a2 :> [owner |-> alice, probability |-> 2500, decision |-> "REVIEW"]

All(limit, offset) ==
    [caller |-> alice, limit |-> limit, offset |-> offset, decision |-> Null, min_score |-> Null,
     max_score |-> Null, start_date |-> Null, end_date |-> Null]

\* Two pages of one row; all rows; all filters; another user's listing.
Asked == {All(1, 0), All(1, 1), [All(2, 0) EXCEPT !.decision = ""],
          [All(2, 0) EXCEPT !.decision = "approve", !.min_score = 500, !.max_score = 2000,
                            !.start_date = 0, !.end_date = 0],
          [All(2, 0) EXCEPT !.caller = bob]}

Symmetry == Permutations(Listings)
=============================================================================
