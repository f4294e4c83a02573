----------------------------- MODULE MCServing ------------------------------
(***************************************************************************)
(* Serving on small instances: requests of one kind are interchangeable.   *)
(***************************************************************************)
EXTENDS Serving, TLC

Symmetry == Permutations(ApiRequests) \cup Permutations(StaticRequests)
=============================================================================
