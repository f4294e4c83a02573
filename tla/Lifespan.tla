------------------------------ MODULE Lifespan ------------------------------
(***************************************************************************)
(* How an instance of the API comes up, serves and goes down:              *)
(*   alembic upgrade head && uvicorn app.main:app      (the container)     *)
(*   lifespan: load the artifact, register the model version, yield        *)
(*   readiness_check: GET /health/ready                                    *)
(* Several instances, of one model version or of several (a rolling        *)
(* update), share one database, and all of them migrate it and register.   *)
(*                                                                         *)
(* An instance is cut at every statement it sends to the database; a       *)
(* transaction it has open is rolled back when its connection breaks.      *)
(***************************************************************************)
EXTENDS Naturals

CONSTANTS Instances,
          Versions,
          MODEL_VERSION      \* instance -> the version it is configured with

ASSUME VersionsAssumption == MODEL_VERSION \in [Instances -> Versions]

VARIABLES
    dbUp,           \* PostgreSQL accepts connections
    schema,         \* "empty" or "head": what alembic finds
    model_versions, \* the versions that have a row
    artifact,       \* the image holds a loadable model artifact
    phase,          \* how far the instance is
    model_pipeline, \* app.state.model_pipeline is set
    conn,           \* its transaction is alive
    sync,           \* how registration ended: "none", "done", "race", "outage"
    busy,           \* it has a request in flight
    probe,          \* the last answer of /health/ready, 0 for none
    calm            \* the disturbances are over, which HealsItself asks for

shared == <<dbUp, schema, model_versions, artifact, calm>>
own == <<phase, model_pipeline, conn, sync, busy, probe>>
vars == <<dbUp, schema, model_versions, artifact, calm,
          phase, model_pipeline, conn, sync, busy, probe>>

Phase == {"down", "migrate", "ddl", "ddlCommit", "ddlDone", "load", "lookup", "insert", "insertCommit",
          "insertDone", "serving", "draining"}

SyncOutcome == {"none", "done", "race", "outage"}
ProbeAnswer == {0, 200, 503}

AfterLoad == {"lookup", "insert", "insertCommit", "insertDone", "serving", "draining"}

Serves(i) == phase[i] \in {"serving", "draining"}

Move(i, to) == phase' = [phase EXCEPT ![i] = to]

\* What a statement may fail of that has no transaction to lose: there is no
\* database, or, while there are disturbances, its connection breaks.
MayFail == ~dbUp \/ ~calm

\* The process ends, and with it its connection and its app.state.
Exit(i) ==
    /\ Move(i, "down")
    /\ model_pipeline' = [model_pipeline EXCEPT ![i] = FALSE]
    /\ conn' = [conn EXCEPT ![i] = FALSE]
    /\ sync' = [sync EXCEPT ![i] = "none"]
    /\ busy' = [busy EXCEPT ![i] = FALSE]
    /\ probe' = [probe EXCEPT ![i] = 0]

\* It goes on, with a transaction open or not.
Proceed(i, to, open) ==
    /\ Move(i, to)
    /\ conn' = [conn EXCEPT ![i] = open]
    /\ UNCHANGED <<model_pipeline, sync, busy, probe>>

\* lifespan yields: an exception of the registration is logged and forgotten.
Yield(i, outcome) ==
    /\ Move(i, "serving")
    /\ conn' = [conn EXCEPT ![i] = FALSE]
    /\ sync' = [sync EXCEPT ![i] = outcome]
    /\ UNCHANGED <<model_pipeline, busy, probe>>

-----------------------------------------------------------------------------
(* Faulty variants of the definitions below.                               *)

\* "alembic upgrade head; uvicorn ...": a failed migration is ignored.
MigrateCheck_Ignored(i) ==
    /\ phase[i] = "migrate"
    /\ \/ MayFail /\ Proceed(i, "load", FALSE)
       \/ dbUp /\ schema = "head" /\ Proceed(i, "load", FALSE)
       \/ dbUp /\ schema = "empty" /\ Proceed(i, "ddl", TRUE)
    /\ UNCHANGED shared

\* The container waits where it should fail and start again.
MigrateCheck_Stuck(i) ==
    /\ phase[i] = "migrate"
    /\ dbUp /\ schema = "empty"
    /\ Proceed(i, "ddl", TRUE)
    /\ UNCHANGED shared

\* The model is loaded lazily.
LoadModel_Lazy(i) ==
    /\ phase[i] = "load"
    /\ artifact
    /\ Proceed(i, "lookup", FALSE)
    /\ UNCHANGED shared

\* Any row of model_versions is taken for the instance's own.
SyncLookup_AnyVersion(i) ==
    /\ phase[i] = "lookup"
    /\ \/ MayFail /\ Yield(i, "outage")
       \/ dbUp /\ model_versions # {} /\ Yield(i, "done")
       \/ dbUp /\ model_versions = {} /\ Proceed(i, "insert", TRUE)
    /\ UNCHANGED shared

\* readiness_check lets the exception of its SELECT through.
readiness_check_Unhandled(i) ==
    /\ phase[i] = "serving"
    /\ \E answer \in {200, 500} :
          /\ answer = 200 => model_pipeline[i] /\ dbUp
          /\ probe' = [probe EXCEPT ![i] = answer]
    /\ UNCHANGED <<shared, phase, model_pipeline, conn, sync, busy>>

-----------------------------------------------------------------------------
(* Startup.                                                                *)

\* restart: unless-stopped, or an operator.
Restart(i) ==
    /\ phase[i] = "down"
    /\ Proceed(i, "migrate", FALSE)
    /\ UNCHANGED shared

\* alembic reads alembic_version.  If it cannot, it fails, and && does not
\* start the server.
MigrateCheck(i) ==
    /\ phase[i] = "migrate"
    /\ \/ MayFail /\ Exit(i)
       \/ dbUp /\ schema = "head" /\ Proceed(i, "load", FALSE)
       \/ dbUp /\ schema = "empty" /\ Proceed(i, "ddl", TRUE)
    /\ UNCHANGED shared

\* The first CREATE TABLE: it waits for another instance's transaction that
\* created the same table, and fails when that one has committed.
MigrateApply(i) ==
    /\ phase[i] = "ddl"
    /\ \/ ~conn[i] /\ Exit(i)
       \/ conn[i] /\ schema = "head" /\ Exit(i)
       \/ /\ conn[i] /\ schema = "empty"
          /\ \A j \in Instances : ~(phase[j] = "ddlCommit" /\ conn[j])
          /\ Proceed(i, "ddlCommit", TRUE)
    /\ UNCHANGED shared

\* All of the migration commits at once ...
MigrateCommit(i) ==
    /\ phase[i] = "ddlCommit"
    /\ \/ ~conn[i] /\ Exit(i) /\ UNCHANGED schema
       \/ conn[i] /\ schema' = "head" /\ Proceed(i, "ddlDone", TRUE)
    /\ UNCHANGED <<dbUp, model_versions, artifact, calm>>

\* ... and the server starts if alembic learns of it.
MigrateDone(i) ==
    /\ phase[i] = "ddlDone"
    /\ IF conn[i] THEN Proceed(i, "load", FALSE) ELSE Exit(i)
    /\ UNCHANGED shared

\* lifespan: without the artifact the server does not start.
LoadModel(i) ==
    /\ phase[i] = "load"
    /\ \/ ~artifact /\ Exit(i)
       \/ /\ artifact
          /\ Move(i, "lookup")
          /\ model_pipeline' = [model_pipeline EXCEPT ![i] = TRUE]
          /\ UNCHANGED <<conn, sync, busy, probe>>
    /\ UNCHANGED shared

\* SELECT ... WHERE version = MODEL_VERSION.
SyncLookup(i) ==
    /\ phase[i] = "lookup"
    /\ \/ MayFail /\ Yield(i, "outage")
       \/ dbUp /\ MODEL_VERSION[i] \in model_versions /\ Yield(i, "done")
       \/ dbUp /\ MODEL_VERSION[i] \notin model_versions /\ Proceed(i, "insert", TRUE)
    /\ UNCHANGED shared

\* The INSERT of session.commit(): it waits for another instance's insert of
\* the same version, and raises IntegrityError when that one has committed.
SyncInsert(i) ==
    /\ phase[i] = "insert"
    /\ \/ ~conn[i] /\ Yield(i, "outage")
       \/ conn[i] /\ MODEL_VERSION[i] \in model_versions /\ Yield(i, "race")
       \/ /\ conn[i] /\ MODEL_VERSION[i] \notin model_versions
          /\ \A j \in Instances :
                ~(phase[j] = "insertCommit" /\ conn[j] /\ MODEL_VERSION[j] = MODEL_VERSION[i])
          /\ Proceed(i, "insertCommit", TRUE)
    /\ UNCHANGED shared

\* Its COMMIT ...
SyncCommit(i) ==
    /\ phase[i] = "insertCommit"
    /\ \/ ~conn[i] /\ Yield(i, "outage") /\ UNCHANGED model_versions
       \/ /\ conn[i]
          /\ model_versions' = model_versions \cup {MODEL_VERSION[i]}
          /\ Proceed(i, "insertDone", TRUE)
    /\ UNCHANGED <<dbUp, schema, artifact, calm>>

\* ... and its acknowledgement, which may be lost.
SyncDone(i) ==
    /\ phase[i] = "insertDone"
    /\ Yield(i, IF conn[i] THEN "done" ELSE "outage")
    /\ UNCHANGED shared

-----------------------------------------------------------------------------
(* Service and shutdown.                                                   *)

Arrive(i) ==
    /\ phase[i] = "serving"
    /\ ~busy[i]
    /\ busy' = [busy EXCEPT ![i] = TRUE]
    /\ UNCHANGED <<shared, phase, model_pipeline, conn, sync, probe>>

Finish(i) ==
    /\ busy[i]
    /\ busy' = [busy EXCEPT ![i] = FALSE]
    /\ UNCHANGED <<shared, phase, model_pipeline, conn, sync, probe>>

\* GET /health/ready: the pipeline is in memory, then SELECT 1.  The SELECT
\* can fail on its own although the database is up.
readiness_check(i) ==
    /\ phase[i] = "serving"
    /\ \E answer \in {200, 503} :
          /\ answer = 200 => model_pipeline[i] /\ dbUp
          /\ probe' = [probe EXCEPT ![i] = answer]
    /\ UNCHANGED <<shared, phase, model_pipeline, conn, sync, busy>>

\* SIGTERM: no new requests ...
Shutdown(i) ==
    /\ phase[i] = "serving"
    /\ Move(i, "draining")
    /\ UNCHANGED <<shared, model_pipeline, conn, sync, busy, probe>>

\* ... and when the last is answered, the end of lifespan.
LifespanEnd(i) ==
    /\ phase[i] = "draining"
    /\ ~busy[i]
    /\ Exit(i)
    /\ UNCHANGED shared

-----------------------------------------------------------------------------
(* The environment.                                                        *)

DbFail ==
    /\ dbUp
    /\ dbUp' = FALSE
    /\ conn' = [i \in Instances |-> FALSE]
    /\ UNCHANGED <<schema, model_versions, artifact, calm, phase, model_pipeline, sync, busy, probe>>

DbRecover ==
    /\ ~dbUp
    /\ dbUp' = TRUE
    /\ UNCHANGED <<schema, model_versions, artifact, calm, own>>

DropConnection(i) ==
    /\ conn[i]
    /\ conn' = [conn EXCEPT ![i] = FALSE]
    /\ UNCHANGED <<shared, phase, model_pipeline, sync, busy, probe>>

Crash(i) ==
    /\ phase[i] # "down"
    /\ Exit(i)
    /\ UNCHANGED shared

\* From now on nothing fails and nobody stops an instance.
CalmDown ==
    /\ ~calm
    /\ calm' = TRUE
    /\ UNCHANGED <<dbUp, schema, model_versions, artifact, own>>

-----------------------------------------------------------------------------
Init ==
    /\ dbUp \in BOOLEAN
    /\ schema \in {"empty", "head"}
    /\ model_versions = {}
    /\ artifact \in BOOLEAN
    /\ calm = FALSE
    /\ phase = [i \in Instances |-> "down"]
    /\ model_pipeline = [i \in Instances |-> FALSE]
    /\ conn = [i \in Instances |-> FALSE]
    /\ sync = [i \in Instances |-> "none"]
    /\ busy = [i \in Instances |-> FALSE]
    /\ probe = [i \in Instances |-> 0]

\* What the container's command and its restart policy do by themselves.
ComeUp(i) ==
    \/ Restart(i)
    \/ MigrateCheck(i) \/ MigrateApply(i) \/ MigrateCommit(i) \/ MigrateDone(i)
    \/ LoadModel(i)
    \/ SyncLookup(i) \/ SyncInsert(i) \/ SyncCommit(i) \/ SyncDone(i)

Disturb ==
    /\ ~calm
    /\ \/ DbFail
       \/ \E i \in Instances : DropConnection(i) \/ Crash(i) \/ Shutdown(i)

Next ==
    \/ \E i \in Instances :
          \/ ComeUp(i)
          \/ Arrive(i) \/ Finish(i) \/ readiness_check(i) \/ LifespanEnd(i)
    \/ DbRecover
    \/ Disturb
    \/ CalmDown

Spec == Init /\ [][Next]_vars

\* Both containers restart by themselves (restart: unless-stopped; whoever
\* shut one down starts it or its successor), and a request in flight ends
\* (EveryRequestEnds of Scoring).
Fairness ==
    /\ WF_vars(DbRecover)
    /\ \A i \in Instances : WF_vars(ComeUp(i)) /\ WF_vars(Finish(i)) /\ WF_vars(LifespanEnd(i))

FairSpec == Spec /\ Fairness

-----------------------------------------------------------------------------
(* Properties.                                                             *)

TypeOK ==
    /\ dbUp \in BOOLEAN
    /\ schema \in {"empty", "head"}
    /\ model_versions \subseteq Versions
    /\ artifact \in BOOLEAN
    /\ calm \in BOOLEAN
    /\ phase \in [Instances -> Phase]
    /\ model_pipeline \in [Instances -> BOOLEAN]
    /\ conn \in [Instances -> BOOLEAN]
    /\ sync \in [Instances -> SyncOutcome]
    /\ busy \in [Instances -> BOOLEAN]
    /\ probe \in [Instances -> ProbeAnswer]

\* No request meets an instance without its pipeline, during a shutdown
\* either, nor a database without its tables.
RequestsFindTheModel ==
    \A i \in Instances : busy[i] => model_pipeline[i] /\ schema = "head"

\* An instance serves with its model version unregistered only if it lost
\* the database while it registered: losing the race against another
\* instance, or an instance of another version, never leaves that behind.
UnregisteredOnlyAfterOutage ==
    \A i \in Instances :
        Serves(i) /\ MODEL_VERSION[i] \notin model_versions => sync[i] = "outage"

\* The inductive invariant behind the two: what the phase an instance has
\* reached says of the database and of its own registration.
PhaseInv ==
    \A i \in Instances :
        /\ phase[i] \in {"ddlDone", "load"} \cup AfterLoad => schema = "head"
        /\ phase[i] \in AfterLoad => model_pipeline[i]
        /\ conn[i] => dbUp
        /\ busy[i] => Serves(i)
        /\ phase[i] = "insertDone" => MODEL_VERSION[i] \in model_versions
        /\ Serves(i) => sync[i] # "none"
        /\ sync[i] \in {"done", "race"} => MODEL_VERSION[i] \in model_versions

StartupInv == TypeOK /\ PhaseInv

\* When the disturbances end, every instance with an artifact ends up
\* serving, whatever the outage and the others' migrations did to its start.
HealsItself ==
    (calm /\ artifact) ~> [](\A i \in Instances : phase[i] = "serving")

\* Each instance gives its handlers the environment Scoring assumes: it
\* implements Platform's specification, step by step.
Provides(i) == INSTANCE Platform WITH
    registered <- MODEL_VERSION[i] \in model_versions,
    process <- IF ~Serves(i) THEN "down" ELSE IF model_pipeline[i] THEN "loaded" ELSE "bare"

ImplementsPlatform ==
    /\ \A i \in Instances : Provides(i)!Init
    /\ [][\A i \in Instances : Provides(i)!Step]_vars

-----------------------------------------------------------------------------
(* A statement of the repository's documents the code does not keep.       *)

\* app/routers/health.py:46, "Returns 200 OK if the API, database, and ML
\* pipeline are ready to serve traffic": an instance that answered 200 and
\* has its database can insert a score, whose row refers to its version.
ReadyMeansScorable ==
    \A i \in Instances :
        phase[i] = "serving" /\ probe[i] = 200 => MODEL_VERSION[i] \in model_versions
=============================================================================
