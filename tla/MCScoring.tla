----------------------------- MODULE MCScoring ------------------------------
(***************************************************************************)
(* Scoring on small instances.  The slots of one kind are interchangeable, *)
(* and so are the users.                                                   *)
(***************************************************************************)
EXTENDS ScoringInv, TLC

Symmetry == Permutations(ScoreRequests) \cup Permutations(GetRequests)
                \cup Permutations(DeleteRequests) \cup Permutations(Users)
=============================================================================
