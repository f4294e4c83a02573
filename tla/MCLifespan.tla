----------------------------- MODULE MCLifespan -----------------------------
(* Three instances in a rolling update: two of one model version, which     *)
(* race to register it, and one of another.                                 *)
EXTENDS Lifespan, TLC

CONSTANTS i1, i2, i3, v1, v2

RollingUpdate == (i1 :> v1) @@ (i2 :> v1) @@ (i3 :> v2)

SameVersion == (i1 :> v1) @@ (i2 :> v1)
=============================================================================
