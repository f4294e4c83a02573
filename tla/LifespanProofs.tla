--------------------------- MODULE LifespanProofs ---------------------------
(***************************************************************************)
(* The safety of Lifespan for any number of instances and model versions:  *)
(* StartupInv is inductive (TypeStep, PhaseStep), the two invariants are   *)
(* read off it, and every step of every instance is a step of Platform, or *)
(* a stutter, as each instance's handlers see it.                          *)
(***************************************************************************)
EXTENDS Lifespan, TLAPS

\* The phases and outcomes the actions write are in range.
LEMMA Ranges ==
    /\ "down" \in Phase /\ "migrate" \in Phase /\ "ddl" \in Phase /\ "ddlCommit" \in Phase
    /\ "ddlDone" \in Phase /\ "load" \in Phase /\ "lookup" \in Phase /\ "insert" \in Phase
    /\ "insertCommit" \in Phase /\ "insertDone" \in Phase /\ "serving" \in Phase
    /\ "draining" \in Phase
    /\ "none" \in SyncOutcome /\ "done" \in SyncOutcome /\ "race" \in SyncOutcome
    /\ "outage" \in SyncOutcome
    /\ 0 \in ProbeAnswer /\ 200 \in ProbeAnswer /\ 503 \in ProbeAnswer
BY DEF Phase, SyncOutcome, ProbeAnswer

\* The part of the type invariant about what belongs to an instance, and the
\* part about what the instances share.
OwnTypes ==
    /\ phase \in [Instances -> Phase]
    /\ model_pipeline \in [Instances -> BOOLEAN]
    /\ conn \in [Instances -> BOOLEAN]
    /\ sync \in [Instances -> SyncOutcome]
    /\ busy \in [Instances -> BOOLEAN]
    /\ probe \in [Instances -> ProbeAnswer]

SharedTypes ==
    /\ dbUp \in BOOLEAN
    /\ schema \in {"empty", "head"}
    /\ model_versions \subseteq Versions
    /\ artifact \in BOOLEAN
    /\ calm \in BOOLEAN

\* A jump of an instance keeps its types.
LEMMA JumpTypes ==
    ASSUME OwnTypes, NEW i \in Instances, NEW to \in Phase, NEW open \in BOOLEAN,
           NEW outcome \in SyncOutcome,
           Exit(i) \/ Proceed(i, to, open) \/ Yield(i, outcome)
    PROVE  OwnTypes'
<1> USE Ranges DEF OwnTypes, Move
<1>1. CASE Exit(i)
  BY <1>1 DEF Exit
<1>2. CASE Proceed(i, to, open)
  BY <1>2 DEF Proceed
<1>3. CASE Yield(i, outcome)
  BY <1>3 DEF Yield
<1> QED
  BY <1>1, <1>2, <1>3

\* Types are kept by every step.
LEMMA TypeStep == TypeOK /\ [Next]_vars => TypeOK'
<1> SUFFICES ASSUME SharedTypes, OwnTypes, [Next]_vars PROVE SharedTypes' /\ OwnTypes'
  BY DEF TypeOK, SharedTypes, OwnTypes
<1>1. ASSUME NEW i \in Instances, ComeUp(i) PROVE SharedTypes' /\ OwnTypes'
  <2>1. CASE LoadModel(i)
    <3>1. SharedTypes'
      BY <2>1 DEF LoadModel, SharedTypes, shared
    <3>2. CASE Exit(i)
      BY <3>1, <3>2, Ranges, JumpTypes
    <3>3. CASE ~Exit(i)
      BY <2>1, <3>1, <3>3, Ranges DEF LoadModel, OwnTypes, Move
    <3> QED
      BY <3>2, <3>3
  <2>2. CASE ~LoadModel(i)
    <3>1. \/ Exit(i)
          \/ \E to \in Phase, open \in BOOLEAN : Proceed(i, to, open)
          \/ \E outcome \in SyncOutcome : Yield(i, outcome)
      BY <1>1, <2>2, Ranges DEF ComeUp, Restart, MigrateCheck, MigrateApply, MigrateCommit, MigrateDone,
                                SyncLookup, SyncInsert, SyncCommit, SyncDone
    <3>2. OwnTypes'
      BY <3>1, Ranges, JumpTypes
    <3>3. SharedTypes'
      BY <1>1, <2>2, VersionsAssumption
         DEF ComeUp, Restart, MigrateCheck, MigrateApply, MigrateCommit, MigrateDone,
             SyncLookup, SyncInsert, SyncCommit, SyncDone, SharedTypes, shared
    <3> QED
      BY <3>2, <3>3
  <2> QED
    BY <2>1, <2>2
<1>2. ASSUME NEW i \in Instances, Crash(i) \/ LifespanEnd(i) PROVE SharedTypes' /\ OwnTypes'
  BY <1>2, Ranges, JumpTypes DEF Crash, LifespanEnd, SharedTypes, shared
<1>3. ASSUME NEW i \in Instances,
             Arrive(i) \/ Finish(i) \/ readiness_check(i) \/ DropConnection(i) \/ Shutdown(i)
      PROVE  SharedTypes' /\ OwnTypes'
  <2>1. SharedTypes'
    BY <1>3 DEF Arrive, Finish, readiness_check, DropConnection, Shutdown, SharedTypes, shared
  <2>2. CASE Arrive(i) \/ Finish(i)
    BY <2>1, <2>2 DEF Arrive, Finish, OwnTypes
  <2>3. CASE readiness_check(i)
    BY <2>1, <2>3, Ranges DEF readiness_check, OwnTypes
  <2>4. CASE DropConnection(i) \/ Shutdown(i)
    BY <2>1, <2>4, Ranges DEF DropConnection, Shutdown, Move, OwnTypes
  <2> QED
    BY <1>3, <2>2, <2>3, <2>4
<1>4. CASE DbFail
  <2>1. SharedTypes'
    BY <1>4 DEF DbFail, SharedTypes
  <2>2. OwnTypes'
    BY <1>4 DEF DbFail, OwnTypes
  <2> QED
    BY <2>1, <2>2
<1>5. CASE DbRecover \/ CalmDown
  BY <1>5 DEF DbRecover, CalmDown, SharedTypes, OwnTypes, own
<1>6. CASE UNCHANGED vars
  BY <1>6 DEF vars, SharedTypes, OwnTypes
<1> QED
  BY <1>1, <1>2, <1>3, <1>4, <1>5, <1>6 DEF Next, Disturb

\* A step of one instance keeps what the others know: a schema at head stays
\* there and a registered version stays registered.
LEMMA SharedIsMonotone ==
    TypeOK /\ [Next]_vars =>
        /\ schema = "head" => schema' = "head"
        /\ model_versions \subseteq model_versions'
BY DEF TypeOK, Next, ComeUp, Disturb, Restart, MigrateCheck, MigrateApply, MigrateCommit, MigrateDone,
       LoadModel, SyncLookup, SyncInsert, SyncCommit, SyncDone, Arrive, Finish, readiness_check,
       Shutdown, LifespanEnd, DbFail, DbRecover, DropConnection, Crash, CalmDown, shared, vars

\* An instance's phase keeps saying what it says.
LEMMA PhaseStep == StartupInv /\ [Next]_vars => PhaseInv'
<1> SUFFICES ASSUME StartupInv, [Next]_vars PROVE PhaseInv'
  OBVIOUS
<1> USE SharedIsMonotone DEF StartupInv, TypeOK, PhaseInv, Phase, AfterLoad, Serves, shared, own
<1>1. ASSUME NEW i \in Instances, ComeUp(i) PROVE PhaseInv'
  <2>1. CASE Restart(i)
    BY <2>1 DEF Restart, Proceed, Move
  <2>2. CASE MigrateCheck(i)
    BY <2>2 DEF MigrateCheck, Proceed, Exit, Move
  <2>3. CASE MigrateApply(i)
    BY <2>3 DEF MigrateApply, Proceed, Exit, Move
  <2>4. CASE MigrateCommit(i)
    BY <2>4 DEF MigrateCommit, Proceed, Exit, Move
  <2>5. CASE MigrateDone(i)
    BY <2>5 DEF MigrateDone, Proceed, Exit, Move
  <2>6. CASE LoadModel(i)
    BY <2>6 DEF LoadModel, Exit, Move
  <2>7. CASE SyncLookup(i)
    BY <2>7 DEF SyncLookup, Proceed, Yield, Move
  <2>8. CASE SyncInsert(i)
    BY <2>8 DEF SyncInsert, Proceed, Yield, Move
  <2>9. CASE SyncCommit(i)
    BY <2>9 DEF SyncCommit, Proceed, Yield, Move
  <2>10. CASE SyncDone(i)
    BY <2>10 DEF SyncDone, Yield, Move
  <2> QED
    BY <1>1, <2>1, <2>2, <2>3, <2>4, <2>5, <2>6, <2>7, <2>8, <2>9, <2>10 DEF ComeUp
<1>2. ASSUME NEW i \in Instances, Arrive(i) \/ Finish(i) \/ readiness_check(i) PROVE PhaseInv'
  BY <1>2 DEF Arrive, Finish, readiness_check
<1>3. ASSUME NEW i \in Instances, Crash(i) \/ LifespanEnd(i) PROVE PhaseInv'
  BY <1>3 DEF Crash, LifespanEnd, Exit, Move
<1>4. ASSUME NEW i \in Instances, Shutdown(i) PROVE PhaseInv'
  BY <1>4 DEF Shutdown, Move
<1>5. ASSUME NEW i \in Instances, DropConnection(i) PROVE PhaseInv'
  BY <1>5 DEF DropConnection
<1>6. CASE DbFail \/ DbRecover \/ CalmDown
  BY <1>6 DEF DbFail, DbRecover, CalmDown
<1>7. CASE UNCHANGED vars
  BY <1>7 DEF vars
<1> QED
  BY <1>1, <1>2, <1>3, <1>4, <1>5, <1>6, <1>7 DEF Next, Disturb

\* The invariant of startup and shutdown.
THEOREM StartupInvariance == Spec => []StartupInv
<1>1. Init => StartupInv
  BY ZenonT(60) DEF Init, StartupInv, TypeOK, PhaseInv, Phase, SyncOutcome, ProbeAnswer, AfterLoad, Serves
<1>2. StartupInv /\ [Next]_vars => StartupInv'
  BY TypeStep, PhaseStep DEF StartupInv
<1> QED
  BY <1>1, <1>2, PTL DEF Spec

\* Whatever fails during a start or a shutdown, a request is only ever served
\* by an instance that holds the pipeline, over a migrated database.
THEOREM ModelIsThere == Spec => []RequestsFindTheModel
<1>1. StartupInv => RequestsFindTheModel
  BY DEF StartupInv, PhaseInv, RequestsFindTheModel, Serves, AfterLoad
<1> QED
  BY <1>1, StartupInvariance, PTL

\* Registration races are harmless: only an outage leaves a version out.
THEOREM RacesAreHarmless == Spec => []UnregisteredOnlyAfterOutage
<1>1. StartupInv => UnregisteredOnlyAfterOutage
  BY DEF StartupInv, TypeOK, PhaseInv, SyncOutcome, UnregisteredOnlyAfterOutage
<1> QED
  BY <1>1, StartupInvariance, PTL

\* A step, of this instance or of another one, is a step of Platform or a
\* stutter for the handlers of instance k.
LEMMA PlatformStep ==
    ASSUME NEW k \in Instances, StartupInv, StartupInv', [Next]_vars
    PROVE  Provides(k)!Step
<1> USE DEF Provides!Step, Provides!Next, Provides!world, Provides!DbTurns, Provides!Register,
            Provides!Stop, Provides!Startup
<1> DEFINE seen == IF ~Serves(k) THEN "down" ELSE IF model_pipeline[k] THEN "loaded" ELSE "bare"
           known == MODEL_VERSION[k] \in model_versions
<1>1. /\ seen = IF Serves(k) THEN "loaded" ELSE "down"
      /\ seen' = IF Serves(k)' THEN "loaded" ELSE "down"
  BY DEF StartupInv, PhaseInv, Serves, AfterLoad
<1>2. ASSUME UNCHANGED <<dbUp, model_versions>> PROVE Provides(k)!Step
  <2>1. UNCHANGED known
    BY <1>2
  <2> QED
    BY <1>1, <1>2, <2>1
<1>3. CASE DbFail \/ DbRecover
  <2>1. dbUp' = ~dbUp /\ UNCHANGED <<model_versions, phase>>
    BY <1>3 DEF DbFail, DbRecover, own
  <2>2. UNCHANGED known /\ UNCHANGED seen
    BY <1>1, <2>1 DEF Serves
  <2> QED
    BY <2>1, <2>2
<1>4. ASSUME NEW i \in Instances, SyncCommit(i), conn[i] PROVE Provides(k)!Step
  <2>1. Serves(k)' <=> Serves(k)
    BY <1>4 DEF SyncCommit, Proceed, Move, Serves, StartupInv, TypeOK
  <2>2. UNCHANGED seen
    BY <1>1, <2>1
  <2>3. dbUp /\ UNCHANGED dbUp
    BY <1>4 DEF SyncCommit, StartupInv, PhaseInv
  <2>4. known => known'
    BY <1>4 DEF SyncCommit
  <2>5. CASE known \/ ~known'
    <3>1. UNCHANGED known
      BY <2>4, <2>5
    <3> QED
      BY <2>2, <2>3, <3>1
  <2>6. CASE ~known /\ known'
    <3>1. Provides(k)!Register
      BY <2>2, <2>3, <2>6, Zenon
    <3> QED
      BY <3>1
  <2> QED
    BY <2>5, <2>6
<1>5. ASSUME NEW i \in Instances, SyncCommit(i), ~conn[i] PROVE Provides(k)!Step
  BY <1>2, <1>5 DEF SyncCommit
<1>6. ASSUME ~(DbFail \/ DbRecover), \A i \in Instances : ~SyncCommit(i) PROVE Provides(k)!Step
  <2>1. UNCHANGED <<dbUp, model_versions>>
    BY <1>6 DEF Next, ComeUp, Disturb, Restart, MigrateCheck, MigrateApply, MigrateCommit,
                MigrateDone, LoadModel, SyncLookup, SyncInsert, SyncDone, Arrive, Finish,
                readiness_check, Shutdown, LifespanEnd, DropConnection, Crash, CalmDown, shared, vars
  <2> QED
    BY <1>2, <2>1
<1> QED
  BY <1>3, <1>4, <1>5, <1>6

\* Every instance gives its request handlers the environment that Scoring is
\* proved correct in.
THEOREM LifespanImplementsPlatform == Spec => ImplementsPlatform
<1>1. Init => \A i \in Instances : Provides(i)!Init
  <2> SUFFICES ASSUME Init, NEW i \in Instances PROVE Provides(i)!Init
    OBVIOUS
  <2>1. dbUp \in BOOLEAN /\ phase[i] = "down"
    BY DEF Init
  <2>2. ~Serves(i)
    BY <2>1 DEF Serves
  <2>3. (MODEL_VERSION[i] \in model_versions) \in BOOLEAN
    OBVIOUS
  <2> QED
    BY <2>1, <2>2, <2>3 DEF Provides!Init
<1>2. StartupInv /\ StartupInv' /\ [Next]_vars => [\A i \in Instances : Provides(i)!Step]_vars
  BY PlatformStep
<1> QED
  BY <1>1, <1>2, StartupInvariance, PTL DEF Spec, ImplementsPlatform
=============================================================================
