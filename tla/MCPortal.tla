------------------------------ MODULE MCPortal ------------------------------
(***************************************************************************)
(* Portal on small instances: users are interchangeable, and so are        *)
(* decisions.                                                              *)
(***************************************************************************)
EXTENDS Portal, TLC

Symmetry == Permutations(Users) \cup Permutations(Decisions)
=============================================================================
