------------------------------ MODULE Platform ------------------------------
(***************************************************************************)
(* What the request handlers may assume of everything around them: the     *)
(* database, the model_versions row their inserts refer to, and the server *)
(* process with the pipeline in its app.state.  Scoring takes this for its *)
(* environment; Lifespan shows that the startup sequence provides it.      *)
(***************************************************************************)
VARIABLES dbUp, registered, process

world == <<dbUp, registered, process>>

Init ==
    /\ dbUp \in BOOLEAN
    /\ registered \in BOOLEAN
    /\ process \in {"down", "loaded", "bare"}

DbTurns == dbUp' = ~dbUp /\ UNCHANGED <<registered, process>>

\* Once there, the row stays: no code deletes it.
Register ==
    /\ dbUp /\ ~registered
    /\ registered' = TRUE
    /\ UNCHANGED <<dbUp, process>>

Stop == process # "down" /\ process' = "down" /\ UNCHANGED <<dbUp, registered>>

\* A process that serves after a start has its pipeline, whether or not the
\* database was there and the model version could be registered.
Startup == process = "down" /\ process' = "loaded" /\ UNCHANGED <<dbUp, registered>>

Next == DbTurns \/ Register \/ Stop \/ Startup

Step == Next \/ UNCHANGED world

Spec == Init /\ [][Next]_world
=============================================================================
