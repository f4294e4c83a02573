---------------------------- MODULE ScoringProofs ---------------------------
(***************************************************************************)
(* The properties of Scoring proved for any number of requests, users and  *)
(* probabilities and any precision of the model's output.                  *)
(*                                                                         *)
(* IInv of ScoringInv is inductive: TypeStep, PhaseStep, RowStep,          *)
(* DeleteStep, AnswerStep and HistoryStep each show that one part of it    *)
(* survives every step, and the theorems read the properties off it.  The  *)
(* last part maps every step to one of AuditTrail or to a stutter, and     *)
(* every step to one of Platform or to a stutter.                          *)
(***************************************************************************)
EXTENDS ScoringInv, RiskProofs, TLAPS

\* The values the actions write are in range.
LEMMA Ranges ==
    /\ 200 \in Status /\ 201 \in Status /\ 401 \in Status /\ 403 \in Status /\ 404 \in Status
    /\ 422 \in Status /\ 500 \in Status /\ 503 \in Status
    /\ "auth" \in PC /\ "handler" \in PC /\ "infer" \in PC /\ "flush" \in PC /\ "commit" \in PC
    /\ "refresh" \in PC /\ "closing" \in PC /\ "done" \in PC /\ "lost" \in PC
    /\ "open" \in TxState /\ "committing" \in TxState /\ "committed" \in TxState
    /\ "rolledBack" \in TxState
    /\ \A t \in TxState : Abandon(t) \in TxState
BY DEF Status, PC, TxState, Abandon

\* The part of the type invariant that an answer or a jump can disturb.
SessionTypes ==
    /\ pc \in [Requests -> PC]
    /\ status \in [Requests -> Status]
    /\ conn \in [Requests -> BOOLEAN]
    /\ tx \in [Requests -> TxState]

\* An error response keeps the types of the session.
LEMMA ReplyTypes ==
    ASSUME TypeOK, NEW r \in Requests, NEW code \in Status, Reply(r, code)
    PROVE  SessionTypes'
BY Ranges DEF TypeOK, Reply, SessionTypes

\* So does a successful one.
LEMMA AnswerTypes ==
    ASSUME TypeOK, NEW r \in Requests, NEW code \in Status, NEW held \in BOOLEAN,
           Answer(r, code, held)
    PROVE  SessionTypes'
BY Ranges DEF TypeOK, Answer, SessionTypes

\* So does a step to the handler's next await.
LEMMA GotoTypes ==
    ASSUME TypeOK, NEW r \in Requests, NEW label \in PC, Goto(r, label)
    PROVE  SessionTypes'
BY DEF TypeOK, Goto, SessionTypes

\* Types are kept by every step.
LEMMA TypeStep == IInv /\ [Next]_vars => TypeOK'
<1> SUFFICES ASSUME IInv, [Next]_vars PROVE TypeOK'
  OBVIOUS
<1> USE DEF IInv
<1>1. ASSUME NEW r \in Requests, Begin(r) PROVE TypeOK'
  <2>1. SessionTypes'
    BY <1>1, Ranges, GotoTypes DEF Begin
  <2>2. caller' \in [Requests -> Users \cup {NoUser}] /\ barred' \in [Requests -> BOOLEAN]
    BY <1>1 DEF Begin, TypeOK
  <2>3. target' \in [Requests -> ScoreRequests \cup {NoTarget}]
    BY <1>1 DEF Begin, TypeOK
  <2>4. before' \in [Requests -> SUBSET Requests]
    BY <1>1 DEF Begin, TypeOK
  <2> QED
    BY <1>1, <2>1, <2>2, <2>3, <2>4 DEF Begin, TypeOK, SessionTypes, envVars
<1>2. ASSUME NEW r \in Requests, RefuseRequest(r) PROVE TypeOK'
  <2>1. SessionTypes'
    BY <1>2, Ranges, ReplyTypes, GotoTypes DEF RefuseRequest
  <2> QED
    BY <1>2, <2>1 DEF RefuseRequest, TypeOK, SessionTypes, envVars
<1>3. ASSUME NEW r \in Requests, Authenticate(r) PROVE TypeOK'
  <2>1. SessionTypes'
    <3>1. CASE /\ pc' = [pc EXCEPT ![r] = "handler"]
               /\ conn' = [conn EXCEPT ![r] = TRUE]
               /\ tx' = [tx EXCEPT ![r] = "open"]
               /\ UNCHANGED status
      BY <3>1, Ranges DEF TypeOK, SessionTypes
    <3>2. CASE \E code \in Status : Reply(r, code)
      BY <3>2, ReplyTypes
    <3> QED
      BY <1>3, <3>1, <3>2, Ranges DEF Authenticate
  <2> QED
    BY <1>3, <2>1 DEF Authenticate, TypeOK, SessionTypes, envVars
<1>4. ASSUME NEW r \in Requests, RefuseInput(r) PROVE TypeOK'
  <2>1. SessionTypes'
    BY <1>4, Ranges, ReplyTypes, GotoTypes DEF RefuseInput
  <2> QED
    BY <1>4, <2>1 DEF RefuseInput, TypeOK, SessionTypes, envVars
<1>5. ASSUME NEW r \in Requests, PrepareInference(r) PROVE TypeOK'
  <2>1. SessionTypes'
    BY <1>5, Ranges, ReplyTypes, GotoTypes DEF PrepareInference
  <2> QED
    BY <1>5, <2>1 DEF PrepareInference, TypeOK, SessionTypes, envVars
<1>6. ASSUME NEW r \in Requests, Infer(r) PROVE TypeOK'
  <2>1. SessionTypes'
    BY <1>6, Ranges, ReplyTypes, GotoTypes DEF Infer
  <2>2. raw' \in [Requests -> RawProbability]
    BY <1>6, ProbabilitiesAssumption DEF Infer, TypeOK
  <2> QED
    BY <1>6, <2>1, <2>2 DEF Infer, TypeOK, SessionTypes, envVars
<1>7. ASSUME NEW r \in Requests, FlushInsert(r) PROVE TypeOK'
  <2>1. SessionTypes'
    BY <1>7, Ranges, ReplyTypes, GotoTypes DEF FlushInsert
  <2> QED
    BY <1>7, <2>1 DEF FlushInsert, TypeOK, SessionTypes, envVars
<1>8. ASSUME NEW r \in Requests, GetRecord(r) PROVE TypeOK'
  <2>1. SessionTypes'
    BY <1>8, Ranges, ReplyTypes, AnswerTypes, ZenonT(60) DEF GetRecord
  <2> QED
    BY <1>8, <2>1 DEF GetRecord, TypeOK, SessionTypes, envVars
<1>9. ASSUME NEW r \in Requests, LookupForDelete(r) PROVE TypeOK'
  <2>1. SessionTypes'
    BY <1>9, Ranges, ReplyTypes, GotoTypes DEF LookupForDelete
  <2> QED
    BY <1>9, <2>1 DEF LookupForDelete, TypeOK, SessionTypes, envVars
<1>10. ASSUME NEW r \in Requests, FlushUpdate(r) PROVE TypeOK'
  <2>1. SessionTypes'
    BY <1>10, Ranges, ReplyTypes, GotoTypes DEF FlushUpdate
  <2> QED
    BY <1>10, <2>1 DEF FlushUpdate, TypeOK, SessionTypes, envVars
<1>11. ASSUME NEW r \in Requests, SendCommit(r) PROVE TypeOK'
  BY <1>11, Ranges DEF TypeOK, SendCommit, envVars
<1>12. ASSUME NEW r \in Requests, DbCommit(r) PROVE TypeOK'
  <2>1. records' \in [ScoreRequests -> Row \cup {NoRow}]
    <3>1. CASE r \in ScoreRequests
      <4>1. caller[r] \in Users
        BY <1>12, <3>1 DEF PhaseInv, DbCommit, TypeOK, Requests
      <4>2. round4(raw[r]) \in StoredProbability
        BY RoundingIsTight DEF TypeOK, RoundingIsTightAt
      <4>3. NewRow(r) \in Row
        BY <4>1, <4>2 DEF NewRow, Row, classify_risk, Decision
      <4> QED
        BY <1>12, <3>1, <4>3 DEF DbCommit, TypeOK
    <3>2. CASE r \notin ScoreRequests
      <4>1. r \in DeleteRequests
        BY <1>12, <3>2 DEF PhaseInv, DbCommit, Requests
      <4>2. target[r] \in ScoreRequests
        BY <1>12 DEF PhaseInv, DbCommit, TypeOK
      <4>3. records[target[r]] \in Row
        BY <1>12, <4>1, <4>2 DEF DeleteInv, DbCommit, TypeOK
      <4>4. [records[target[r]] EXCEPT !.deleted = r] \in Row
        BY <4>1, <4>3 DEF Row
      <4> QED
        BY <1>12, <3>2, <4>2, <4>4 DEF DbCommit, TypeOK
    <3> QED
      BY <3>1, <3>2
  <2> QED
    BY <1>12, <2>1, Ranges DEF TypeOK, DbCommit, envVars
<1>13. ASSUME NEW r \in Requests, AfterCommit(r) PROVE TypeOK'
  <2>1. SessionTypes'
    <3>1. CASE /\ pc' = [pc EXCEPT ![r] = "refresh"]
               /\ conn' = [conn EXCEPT ![r] = FALSE]
               /\ UNCHANGED <<status, tx>>
      BY <3>1, Ranges DEF TypeOK, SessionTypes
    <3>2. CASE \E code \in Status : Reply(r, code) \/ Answer(r, code, FALSE)
      BY <3>2, ReplyTypes, AnswerTypes
    <3> QED
      BY <1>13, <3>1, <3>2, Ranges, ZenonT(60) DEF AfterCommit
  <2> QED
    BY <1>13, <2>1 DEF AfterCommit, TypeOK, SessionTypes, envVars
<1>14. ASSUME NEW r \in Requests, Refresh(r) PROVE TypeOK'
  <2>1. SessionTypes'
    BY <1>14, Ranges, ReplyTypes, AnswerTypes, ZenonT(60) DEF Refresh
  <2> QED
    BY <1>14, <2>1 DEF Refresh, TypeOK, SessionTypes, envVars
<1>15. ASSUME NEW r \in Requests, DropConnection(r) PROVE TypeOK'
  BY <1>15, Ranges DEF TypeOK, DropConnection, Abandon, envVars
<1>16. CASE DbFail
  BY <1>16, Ranges DEF TypeOK, DbFail, Abandon
<1>17. CASE DbRecover
  BY <1>17 DEF TypeOK, DbRecover, reqVars
<1>18. CASE Crash
  BY <1>18, Ranges DEF TypeOK, Crash, Abandon, InFlight
<1>19. CASE Startup
  BY <1>19 DEF TypeOK, Startup, reqVars
<1>20. ASSUME NEW u \in Users, Deactivate(u) PROVE TypeOK'
  BY <1>20 DEF TypeOK, UserStatus, Deactivate, reqVars
<1>21. CASE UNCHANGED vars
  BY <1>21 DEF TypeOK, vars
<1>22. CASE Register
  BY <1>22 DEF TypeOK, Register, reqVars
<1>23. ASSUME NEW r \in Requests, CloseSession(r) PROVE TypeOK'
  BY <1>23, Ranges DEF TypeOK, CloseSession, Abandon, envVars
<1> QED
  BY <1>1, <1>2, <1>3, <1>4, <1>5, <1>6, <1>7, <1>8, <1>9, <1>10, <1>11, <1>12, <1>13, <1>14,
     <1>15, <1>16, <1>17, <1>18, <1>19, <1>20, <1>21, <1>22, <1>23 DEF Next, Serve, Environment

\* Every step keeps the handlers, their sessions and their transactions in step.
LEMMA PhaseStep == IInv /\ [Next]_vars => PhaseInv'
<1> SUFFICES ASSUME IInv, [Next]_vars PROVE PhaseInv'
  OBVIOUS
<1> USE SlotsAssumption DEF IInv, TypeOK, PhaseInv, Requests
<1>1. ASSUME NEW r \in Requests, Begin(r) PROVE PhaseInv'
  BY <1>1 DEF Begin, Goto, envVars
<1>2. ASSUME NEW r \in Requests, RefuseRequest(r) PROVE PhaseInv'
  BY <1>2 DEF RefuseRequest, Reply, Abandon, envVars
<1>3. ASSUME NEW r \in Requests, Authenticate(r) PROVE PhaseInv'
  BY <1>3 DEF Authenticate, Reply, Abandon, envVars
<1>4. ASSUME NEW r \in Requests, RefuseInput(r) PROVE PhaseInv'
  BY <1>4 DEF RefuseInput, Reply, Abandon, envVars
<1>5. ASSUME NEW r \in Requests, PrepareInference(r) PROVE PhaseInv'
  BY <1>5 DEF PrepareInference, Reply, Abandon, Goto, envVars
<1>6. ASSUME NEW r \in Requests, Infer(r) PROVE PhaseInv'
  BY <1>6 DEF Infer, Reply, Abandon, Goto, envVars
<1>7. ASSUME NEW r \in Requests, FlushInsert(r) PROVE PhaseInv'
  BY <1>7 DEF FlushInsert, Reply, Abandon, Goto, envVars
<1>8. ASSUME NEW r \in Requests, GetRecord(r) PROVE PhaseInv'
  BY <1>8 DEF GetRecord, Reply, Answer, Abandon, envVars
<1>9. ASSUME NEW r \in Requests, LookupForDelete(r) PROVE PhaseInv'
  BY <1>9 DEF LookupForDelete, Reply, Abandon, Goto, envVars
<1>10. ASSUME NEW r \in Requests, FlushUpdate(r) PROVE PhaseInv'
  BY <1>10 DEF FlushUpdate, Reply, Abandon, Goto, envVars
<1>11. ASSUME NEW r \in Requests, SendCommit(r) PROVE PhaseInv'
  BY <1>11 DEF SendCommit, envVars
<1>12. ASSUME NEW r \in Requests, DbCommit(r) PROVE PhaseInv'
  BY <1>12 DEF DbCommit, envVars
<1>13. ASSUME NEW r \in Requests, AfterCommit(r) PROVE PhaseInv'
  BY <1>13 DEF AfterCommit, Reply, Answer, Abandon, envVars
<1>14. ASSUME NEW r \in Requests, Refresh(r) PROVE PhaseInv'
  BY <1>14 DEF Refresh, Reply, Answer, Abandon, envVars
<1>15. ASSUME NEW r \in Requests, DropConnection(r) PROVE PhaseInv'
  BY <1>15 DEF DropConnection, Abandon, envVars
<1>16. CASE DbFail
  BY <1>16 DEF DbFail, Abandon
<1>17. CASE DbRecover
  BY <1>17 DEF DbRecover, reqVars
<1>18. CASE Crash
  BY <1>18 DEF Crash, Abandon, InFlight
<1>19. CASE Startup
  BY <1>19 DEF Startup, reqVars
<1>20. ASSUME NEW u \in Users, Deactivate(u) PROVE PhaseInv'
  BY <1>20 DEF Deactivate, reqVars
<1>21. CASE UNCHANGED vars
  BY <1>21 DEF vars
<1>22. CASE Register
  BY <1>22 DEF Register, reqVars
<1>23. ASSUME NEW r \in Requests, CloseSession(r) PROVE PhaseInv'
  BY <1>23 DEF CloseSession, Abandon, envVars
<1> QED
  BY <1>1, <1>2, <1>3, <1>4, <1>5, <1>6, <1>7, <1>8, <1>9, <1>10, <1>11, <1>12, <1>13, <1>14,
     <1>15, <1>16, <1>17, <1>18, <1>19, <1>20, <1>21, <1>22, <1>23 DEF Next, Serve, Environment

\* NoRow is not a row.
LEMMA RowsArePresent == NoRow \notin Row
<1> SUFFICES ASSUME NoRow \in Row PROVE FALSE
  OBVIOUS
<1>1. /\ NoRow.owner \in Users /\ NoRow.probability \in StoredProbability
      /\ NoRow.decision \in Decision /\ NoRow.deleted \in DeleteRequests \cup {NotDeleted}
      /\ NoRow = [owner |-> NoRow.owner, probability |-> NoRow.probability,
                  decision |-> NoRow.decision, deleted |-> NoRow.deleted]
  BY DEF Row
<1> QED
  BY <1>1, NoRowAssumption, Zenon

\* The commit of a POST puts its row, and only it, where there was none.
LEMMA InsertEffect ==
    ASSUME IInv, NEW r \in ScoreRequests, DbCommit(r)
    PROVE  /\ records[r] = NoRow
           /\ caller[r] \in Users
           /\ records'[r] \in Row /\ records'[r] # NoRow
           /\ records'[r].owner = caller[r]
           /\ records'[r].probability = round4(raw[r])
           /\ records'[r].decision = classify_risk(raw[r])
           /\ records'[r].deleted = NotDeleted
           /\ \A id \in ScoreRequests \ {r} : records'[id] = records[id]
<1>1. r \in Requests
  BY DEF Requests
<1>2. caller[r] \in Users
  BY <1>1 DEF IInv, PhaseInv, DbCommit, TypeOK
<1>3. records[r] = NoRow
  BY DEF IInv, RowInv, DbCommit
<1>4. round4(raw[r]) \in StoredProbability
  BY <1>1, RoundingIsTight DEF IInv, TypeOK, RoundingIsTightAt
<1>5. NewRow(r) \in Row
  BY <1>2, <1>4 DEF NewRow, Row, classify_risk, Decision
<1>6. records' = [records EXCEPT ![r] = NewRow(r)]
  BY DEF DbCommit
<1>7. records'[r] = NewRow(r) /\ \A id \in ScoreRequests \ {r} : records'[id] = records[id]
  BY <1>6 DEF IInv, TypeOK
<1> QED
  BY <1>2, <1>3, <1>5, <1>7, RowsArePresent DEF NewRow

\* The commit of a DELETE marks the row it looked up, and changes nothing else.
LEMMA UpdateEffect ==
    ASSUME IInv, NEW r \in Requests, r \notin ScoreRequests, DbCommit(r)
    PROVE  /\ r \in DeleteRequests /\ r \notin GetRequests
           /\ target[r] \in ScoreRequests
           /\ records[target[r]] # NoRow
           /\ records[target[r]].owner = caller[r]
           /\ records'[target[r]] \in Row /\ records'[target[r]] # NoRow
           /\ records'[target[r]].owner = records[target[r]].owner
           /\ records'[target[r]].probability = records[target[r]].probability
           /\ records'[target[r]].decision = records[target[r]].decision
           /\ records'[target[r]].deleted = r
           /\ \A id \in ScoreRequests \ {target[r]} : records'[id] = records[id]
<1>1. r \in DeleteRequests /\ r \notin GetRequests
  BY SlotsAssumption DEF IInv, PhaseInv, DbCommit, Requests
<1>2. target[r] \in ScoreRequests
  BY DEF IInv, PhaseInv, DbCommit, TypeOK
<1>3. records[target[r]] # NoRow /\ records[target[r]].owner = caller[r]
  BY <1>1 DEF IInv, DeleteInv, DbCommit
<1>4. records[target[r]] \in Row
  BY <1>2, <1>3 DEF IInv, TypeOK
<1>5. records' = [records EXCEPT ![target[r]].deleted = r]
  BY DEF DbCommit
<1>6. /\ records'[target[r]] = [records[target[r]] EXCEPT !.deleted = r]
      /\ \A id \in ScoreRequests \ {target[r]} : records'[id] = records[id]
  BY <1>2, <1>5 DEF IInv, TypeOK
<1> QED
  BY <1>1, <1>2, <1>3, <1>4, <1>6, RowsArePresent DEF Row

\* Every step keeps the rows those of the committed POSTs.
LEMMA RowStep == IInv /\ [Next]_vars => RowInv'
<1> SUFFICES ASSUME IInv, [Next]_vars PROVE RowInv'
  OBVIOUS
<1> USE SlotsAssumption, NullsAssumption DEF IInv, TypeOK, PhaseInv, Requests, RowInv
<1>1. ASSUME NEW r \in Requests, Begin(r) PROVE RowInv'
  BY <1>1 DEF Begin, Goto, envVars
<1>2. ASSUME NEW r \in Requests, RefuseRequest(r) PROVE RowInv'
  BY <1>2 DEF RefuseRequest, Reply, Abandon, envVars
<1>3. ASSUME NEW r \in Requests, Authenticate(r) PROVE RowInv'
  BY <1>3 DEF Authenticate, Reply, Abandon, envVars
<1>4. ASSUME NEW r \in Requests, RefuseInput(r) PROVE RowInv'
  BY <1>4 DEF RefuseInput, Reply, Abandon, envVars
<1>5. ASSUME NEW r \in Requests, PrepareInference(r) PROVE RowInv'
  BY <1>5 DEF PrepareInference, Reply, Abandon, Goto, envVars
<1>6. ASSUME NEW r \in Requests, Infer(r) PROVE RowInv'
  BY <1>6 DEF Infer, Reply, Abandon, Goto, envVars
<1>7. ASSUME NEW r \in Requests, FlushInsert(r) PROVE RowInv'
  BY <1>7 DEF FlushInsert, Reply, Abandon, Goto, envVars
<1>8. ASSUME NEW r \in Requests, GetRecord(r) PROVE RowInv'
  BY <1>8 DEF GetRecord, Reply, Answer, Abandon, envVars
<1>9. ASSUME NEW r \in Requests, LookupForDelete(r) PROVE RowInv'
  BY <1>9 DEF LookupForDelete, Reply, Abandon, Goto, envVars
<1>10. ASSUME NEW r \in Requests, FlushUpdate(r) PROVE RowInv'
  BY <1>10 DEF FlushUpdate, Reply, Abandon, Goto, envVars
<1>11. ASSUME NEW r \in Requests, SendCommit(r) PROVE RowInv'
  BY <1>11 DEF SendCommit, envVars
<1>12. ASSUME NEW r \in Requests, DbCommit(r) PROVE RowInv'
  <2>1. /\ tx[r] = "committing" /\ tx' = [tx EXCEPT ![r] = "committed"]
        /\ UNCHANGED <<envVars, pc, caller, target, raw, status, conn, before, barred>>
    BY <1>12 DEF DbCommit
  <2>2. CASE r \in ScoreRequests
    BY <1>12, <2>1, <2>2, InsertEffect DEF envVars
  <2>3. CASE r \notin ScoreRequests
    BY <1>12, <2>1, <2>3, UpdateEffect DEF envVars
  <2> QED
    BY <2>2, <2>3
<1>13. ASSUME NEW r \in Requests, AfterCommit(r) PROVE RowInv'
  BY <1>13 DEF AfterCommit, Reply, Answer, Abandon, envVars
<1>14. ASSUME NEW r \in Requests, Refresh(r) PROVE RowInv'
  BY <1>14 DEF Refresh, Reply, Answer, Abandon, envVars
<1>15. ASSUME NEW r \in Requests, DropConnection(r) PROVE RowInv'
  BY <1>15 DEF DropConnection, Abandon, envVars
<1>16. CASE DbFail
  BY <1>16 DEF DbFail, Abandon
<1>17. CASE DbRecover
  BY <1>17 DEF DbRecover, reqVars
<1>18. CASE Crash
  BY <1>18 DEF Crash, Abandon, InFlight
<1>19. CASE Startup
  BY <1>19 DEF Startup, reqVars
<1>20. ASSUME NEW u \in Users, Deactivate(u) PROVE RowInv'
  BY <1>20 DEF Deactivate, reqVars
<1>21. CASE UNCHANGED vars
  BY <1>21 DEF vars
<1>22. CASE Register
  BY <1>22 DEF Register, reqVars
<1>23. ASSUME NEW r \in Requests, CloseSession(r) PROVE RowInv'
  BY <1>23 DEF CloseSession, Abandon, envVars
<1> QED
  BY <1>1, <1>2, <1>3, <1>4, <1>5, <1>6, <1>7, <1>8, <1>9, <1>10, <1>11, <1>12, <1>13, <1>14,
     <1>15, <1>16, <1>17, <1>18, <1>19, <1>20, <1>21, <1>22, <1>23 DEF Next, Serve, Environment

\* Every step keeps the marks those of the committed DELETEs, made for owners.
LEMMA DeleteStep == IInv /\ [Next]_vars => DeleteInv'
<1> SUFFICES ASSUME IInv, [Next]_vars PROVE DeleteInv'
  OBVIOUS
<1> USE SlotsAssumption, NullsAssumption DEF IInv, TypeOK, PhaseInv, Requests, RowInv, DeleteInv, IsDeleted
<1>1. ASSUME NEW r \in Requests, Begin(r) PROVE DeleteInv'
  BY <1>1 DEF Begin, Goto, envVars
<1>2. ASSUME NEW r \in Requests, RefuseRequest(r) PROVE DeleteInv'
  BY <1>2 DEF RefuseRequest, Reply, Abandon, envVars
<1>3. ASSUME NEW r \in Requests, Authenticate(r) PROVE DeleteInv'
  BY <1>3 DEF Authenticate, Reply, Abandon, envVars
<1>4. ASSUME NEW r \in Requests, RefuseInput(r) PROVE DeleteInv'
  BY <1>4 DEF RefuseInput, Reply, Abandon, envVars
<1>5. ASSUME NEW r \in Requests, PrepareInference(r) PROVE DeleteInv'
  BY <1>5 DEF PrepareInference, Reply, Abandon, Goto, envVars
<1>6. ASSUME NEW r \in Requests, Infer(r) PROVE DeleteInv'
  BY <1>6 DEF Infer, Reply, Abandon, Goto, envVars
<1>7. ASSUME NEW r \in Requests, FlushInsert(r) PROVE DeleteInv'
  BY <1>7 DEF FlushInsert, Reply, Abandon, Goto, envVars
<1>8. ASSUME NEW r \in Requests, GetRecord(r) PROVE DeleteInv'
  BY <1>8 DEF GetRecord, Reply, Answer, Abandon, envVars
<1>9. ASSUME NEW r \in Requests, LookupForDelete(r) PROVE DeleteInv'
  BY <1>9 DEF LookupForDelete, Reply, Abandon, Goto, envVars
<1>10. ASSUME NEW r \in Requests, FlushUpdate(r) PROVE DeleteInv'
  BY <1>10 DEF FlushUpdate, Reply, Abandon, Goto, envVars
<1>11. ASSUME NEW r \in Requests, SendCommit(r) PROVE DeleteInv'
  BY <1>11 DEF SendCommit, envVars
<1>12. ASSUME NEW r \in Requests, DbCommit(r) PROVE DeleteInv'
  <2>1. /\ tx[r] = "committing" /\ tx' = [tx EXCEPT ![r] = "committed"]
        /\ UNCHANGED <<envVars, pc, caller, target, raw, status, conn, before, barred>>
    BY <1>12 DEF DbCommit
  <2>2. CASE r \in ScoreRequests
    BY <1>12, <2>1, <2>2, InsertEffect DEF envVars
  <2>3. CASE r \notin ScoreRequests
    BY <1>12, <2>1, <2>3, UpdateEffect DEF envVars
  <2> QED
    BY <2>2, <2>3
<1>13. ASSUME NEW r \in Requests, AfterCommit(r) PROVE DeleteInv'
  BY <1>13 DEF AfterCommit, Reply, Answer, Abandon, envVars
<1>14. ASSUME NEW r \in Requests, Refresh(r) PROVE DeleteInv'
  BY <1>14 DEF Refresh, Reply, Answer, Abandon, envVars
<1>15. ASSUME NEW r \in Requests, DropConnection(r) PROVE DeleteInv'
  BY <1>15 DEF DropConnection, Abandon, envVars
<1>16. CASE DbFail
  BY <1>16 DEF DbFail, Abandon
<1>17. CASE DbRecover
  BY <1>17 DEF DbRecover, reqVars
<1>18. CASE Crash
  BY <1>18 DEF Crash, Abandon, InFlight
<1>19. CASE Startup
  BY <1>19 DEF Startup, reqVars
<1>20. ASSUME NEW u \in Users, Deactivate(u) PROVE DeleteInv'
  BY <1>20 DEF Deactivate, reqVars
<1>21. CASE UNCHANGED vars
  BY <1>21 DEF vars
<1>22. CASE Register
  BY <1>22 DEF Register, reqVars
<1>23. ASSUME NEW r \in Requests, CloseSession(r) PROVE DeleteInv'
  BY <1>23 DEF CloseSession, Abandon, envVars
<1> QED
  BY <1>1, <1>2, <1>3, <1>4, <1>5, <1>6, <1>7, <1>8, <1>9, <1>10, <1>11, <1>12, <1>13, <1>14,
     <1>15, <1>16, <1>17, <1>18, <1>19, <1>20, <1>21, <1>22, <1>23 DEF Next, Serve, Environment

\* Every step keeps what the answers say of the table.
LEMMA AnswerStep == IInv /\ [Next]_vars => AnswerInv'
<1> SUFFICES ASSUME IInv, [Next]_vars PROVE AnswerInv'
  OBVIOUS
<1> USE SlotsAssumption, NullsAssumption DEF IInv, TypeOK, PhaseInv, Requests, RowInv, DeleteInv, AnswerInv, IsDeleted, Readers, Refusals
<1>1. ASSUME NEW r \in Requests, Begin(r) PROVE AnswerInv'
  BY <1>1 DEF Begin, Goto, envVars
<1>2. ASSUME NEW r \in Requests, RefuseRequest(r) PROVE AnswerInv'
  BY <1>2 DEF RefuseRequest, Reply, Abandon, envVars
<1>3. ASSUME NEW r \in Requests, Authenticate(r) PROVE AnswerInv'
  BY <1>3 DEF Authenticate, Reply, Abandon, envVars
<1>4. ASSUME NEW r \in Requests, RefuseInput(r) PROVE AnswerInv'
  BY <1>4 DEF RefuseInput, Reply, Abandon, envVars
<1>5. ASSUME NEW r \in Requests, PrepareInference(r) PROVE AnswerInv'
  BY <1>5 DEF PrepareInference, Reply, Abandon, Goto, envVars
<1>6. ASSUME NEW r \in Requests, Infer(r) PROVE AnswerInv'
  BY <1>6 DEF Infer, Reply, Abandon, Goto, envVars
<1>7. ASSUME NEW r \in Requests, FlushInsert(r) PROVE AnswerInv'
  BY <1>7 DEF FlushInsert, Reply, Abandon, Goto, envVars
<1>8. ASSUME NEW r \in Requests, GetRecord(r) PROVE AnswerInv'
  BY <1>8 DEF GetRecord, Reply, Answer, Abandon, envVars
<1>9. ASSUME NEW r \in Requests, LookupForDelete(r) PROVE AnswerInv'
  BY <1>9 DEF LookupForDelete, Reply, Abandon, Goto, envVars
<1>10. ASSUME NEW r \in Requests, FlushUpdate(r) PROVE AnswerInv'
  BY <1>10 DEF FlushUpdate, Reply, Abandon, Goto, envVars
<1>11. ASSUME NEW r \in Requests, SendCommit(r) PROVE AnswerInv'
  BY <1>11 DEF SendCommit, envVars
<1>12. ASSUME NEW r \in Requests, DbCommit(r) PROVE AnswerInv'
  <2>1. /\ tx[r] = "committing" /\ tx' = [tx EXCEPT ![r] = "committed"]
        /\ UNCHANGED <<envVars, pc, caller, target, raw, status, conn, before, barred>>
    BY <1>12 DEF DbCommit
  <2>2. CASE r \in ScoreRequests
    BY <1>12, <2>1, <2>2, InsertEffect DEF envVars
  <2>3. CASE r \notin ScoreRequests
    BY <1>12, <2>1, <2>3, UpdateEffect DEF envVars
  <2> QED
    BY <2>2, <2>3
<1>13. ASSUME NEW r \in Requests, AfterCommit(r) PROVE AnswerInv'
  BY <1>13 DEF AfterCommit, Reply, Answer, Abandon, envVars
<1>14. ASSUME NEW r \in Requests, Refresh(r) PROVE AnswerInv'
  BY <1>14 DEF Refresh, Reply, Answer, Abandon, envVars
<1>15. ASSUME NEW r \in Requests, DropConnection(r) PROVE AnswerInv'
  BY <1>15 DEF DropConnection, Abandon, envVars
<1>16. CASE DbFail
  BY <1>16 DEF DbFail, Abandon
<1>17. CASE DbRecover
  BY <1>17 DEF DbRecover, reqVars
<1>18. CASE Crash
  BY <1>18 DEF Crash, Abandon, InFlight
<1>19. CASE Startup
  BY <1>19 DEF Startup, reqVars
<1>20. ASSUME NEW u \in Users, Deactivate(u) PROVE AnswerInv'
  BY <1>20 DEF Deactivate, reqVars
<1>21. CASE UNCHANGED vars
  BY <1>21 DEF vars
<1>22. CASE Register
  BY <1>22 DEF Register, reqVars
<1>23. ASSUME NEW r \in Requests, CloseSession(r) PROVE AnswerInv'
  BY <1>23 DEF CloseSession, Abandon, envVars
<1> QED
  BY <1>1, <1>2, <1>3, <1>4, <1>5, <1>6, <1>7, <1>8, <1>9, <1>10, <1>11, <1>12, <1>13, <1>14,
     <1>15, <1>16, <1>17, <1>18, <1>19, <1>20, <1>21, <1>22, <1>23 DEF Next, Serve, Environment

\* Every step keeps what the past of a request allows it.
LEMMA HistoryStep == IInv /\ [Next]_vars => HistoryInv'
<1> SUFFICES ASSUME IInv, [Next]_vars PROVE HistoryInv'
  OBVIOUS
<1> USE SlotsAssumption, NullsAssumption DEF IInv, TypeOK, PhaseInv, Requests, RowInv, DeleteInv, AnswerInv, HistoryInv, IsDeleted, Readers
<1>1. ASSUME NEW r \in Requests, Begin(r) PROVE HistoryInv'
  BY <1>1 DEF Begin, Goto, envVars
<1>2. ASSUME NEW r \in Requests, RefuseRequest(r) PROVE HistoryInv'
  BY <1>2 DEF RefuseRequest, Reply, Abandon, envVars
<1>3. ASSUME NEW r \in Requests, Authenticate(r) PROVE HistoryInv'
  BY <1>3 DEF Authenticate, Reply, Abandon, envVars
<1>4. ASSUME NEW r \in Requests, RefuseInput(r) PROVE HistoryInv'
  BY <1>4 DEF RefuseInput, Reply, Abandon, envVars
<1>5. ASSUME NEW r \in Requests, PrepareInference(r) PROVE HistoryInv'
  BY <1>5 DEF PrepareInference, Reply, Abandon, Goto, envVars
<1>6. ASSUME NEW r \in Requests, Infer(r) PROVE HistoryInv'
  BY <1>6 DEF Infer, Reply, Abandon, Goto, envVars
<1>7. ASSUME NEW r \in Requests, FlushInsert(r) PROVE HistoryInv'
  BY <1>7 DEF FlushInsert, Reply, Abandon, Goto, envVars
<1>8. ASSUME NEW r \in Requests, GetRecord(r) PROVE HistoryInv'
  BY <1>8 DEF GetRecord, Reply, Answer, Abandon, envVars
<1>9. ASSUME NEW r \in Requests, LookupForDelete(r) PROVE HistoryInv'
  BY <1>9 DEF LookupForDelete, Reply, Abandon, Goto, envVars
<1>10. ASSUME NEW r \in Requests, FlushUpdate(r) PROVE HistoryInv'
  BY <1>10 DEF FlushUpdate, Reply, Abandon, Goto, envVars
<1>11. ASSUME NEW r \in Requests, SendCommit(r) PROVE HistoryInv'
  BY <1>11 DEF SendCommit, envVars
<1>12. ASSUME NEW r \in Requests, DbCommit(r) PROVE HistoryInv'
  <2>1. /\ tx[r] = "committing" /\ tx' = [tx EXCEPT ![r] = "committed"]
        /\ UNCHANGED <<envVars, pc, caller, target, raw, status, conn, before, barred>>
    BY <1>12 DEF DbCommit
  <2>2. CASE r \in ScoreRequests
    BY <1>12, <2>1, <2>2, InsertEffect DEF envVars
  <2>3. CASE r \notin ScoreRequests
    BY <1>12, <2>1, <2>3, UpdateEffect DEF envVars
  <2> QED
    BY <2>2, <2>3
<1>13. ASSUME NEW r \in Requests, AfterCommit(r) PROVE HistoryInv'
  BY <1>13 DEF AfterCommit, Reply, Answer, Abandon, envVars
<1>14. ASSUME NEW r \in Requests, Refresh(r) PROVE HistoryInv'
  BY <1>14 DEF Refresh, Reply, Answer, Abandon, envVars
<1>15. ASSUME NEW r \in Requests, DropConnection(r) PROVE HistoryInv'
  BY <1>15 DEF DropConnection, Abandon, envVars
<1>16. CASE DbFail
  BY <1>16 DEF DbFail, Abandon
<1>17. CASE DbRecover
  BY <1>17 DEF DbRecover, reqVars
<1>18. CASE Crash
  BY <1>18 DEF Crash, Abandon, InFlight
<1>19. CASE Startup
  BY <1>19 DEF Startup, reqVars
<1>20. ASSUME NEW u \in Users, Deactivate(u) PROVE HistoryInv'
  BY <1>20 DEF Deactivate, reqVars
<1>21. CASE UNCHANGED vars
  BY <1>21 DEF vars
<1>22. CASE Register
  BY <1>22 DEF Register, reqVars
<1>23. ASSUME NEW r \in Requests, CloseSession(r) PROVE HistoryInv'
  BY <1>23 DEF CloseSession, Abandon, envVars
<1> QED
  BY SMTT(30), <1>1, <1>2, <1>3, <1>4, <1>5, <1>6, <1>7, <1>8, <1>9, <1>10, <1>11, <1>12, <1>13, <1>14,
     <1>15, <1>16, <1>17, <1>18, <1>19, <1>20, <1>21, <1>22, <1>23 DEF Next, Serve, Environment

\* The server starts with no request begun and no row written.
LEMMA InitInv == Init => IInv
<1> SUFFICES ASSUME Init PROVE IInv
  OBVIOUS
<1>1. 0 \in RawProbability
  BY ExactlyOrder, StoredRange DEF RawProbability
<1>2. TypeOK
  BY <1>1 DEF Init, TypeOK, PC, Status, TxState
<1>3. PhaseInv
  BY DEF Init, PhaseInv
<1>4. RowInv /\ DeleteInv
  BY SlotsAssumption DEF Init, RowInv, DeleteInv, IsDeleted, Requests
<1>5. AnswerInv /\ HistoryInv
  BY DEF Init, AnswerInv, HistoryInv, Readers, Refusals, Requests
<1> QED
  BY <1>2, <1>3, <1>4, <1>5 DEF IInv

\* Every step of every handler keeps the whole invariant.
LEMMA Inductive == IInv /\ [Next]_vars => IInv'
BY TypeStep, PhaseStep, RowStep, DeleteStep, AnswerStep, HistoryStep, Zenon DEF IInv

\* The invariant that every property below is read off.
THEOREM Invariance == Spec => []IInv
BY InitInv, Inductive, PTL DEF Spec

-----------------------------------------------------------------------------
(* The properties of Scoring, for any number of requests and users.        *)

\* Every variable keeps its type: no status, phase or transaction state
\* outside the ones the handlers produce.
THEOREM TypeCorrect == Spec => []TypeOK
<1>1. IInv => TypeOK
  BY DEF IInv
<1> QED
  BY <1>1, Invariance, PTL

\* What was answered 201 or 200 stays true of the table, through every
\* crash, lost connection and later request.
THEOREM Durability == Spec => []AnswersAreDurable
<1>1. IInv => AnswersAreDurable
  BY SlotsAssumption DEF IInv, RowInv, DeleteInv, AnswerInv, AnswersAreDurable, IsDeleted, Requests
<1> QED
  BY <1>1, Invariance, PTL

\* A refused request has written nothing and will write nothing.
THEOREM RefusalsAreClean == Spec => []RefusalLeavesNothing
<1>1. IInv => RefusalLeavesNothing
  BY DEF IInv, RowInv, AnswerInv, RefusalLeavesNothing, Refusals, Requests
<1> QED
  BY <1>1, Invariance, PTL

\* A record is marked deleted by its owner only.
THEOREM DeletionIsOwned == Spec => []OnlyTheOwnerDeletes
<1>1. IInv => OnlyTheOwnerDeletes
  BY DEF IInv, DeleteInv, OnlyTheOwnerDeletes
<1> QED
  BY <1>1, Invariance, PTL

\* A record is read by its owner only, and the owner is not refused it.
THEOREM Isolation == Spec => []ReadIsolation
<1>1. IInv => ReadIsolation
  BY DEF IInv, AnswerInv, ReadIsolation, Requests
<1> QED
  BY <1>1, Invariance, PTL

\* A deletion that was acknowledged is final for every later request.
THEOREM DeletionIsFinal == Spec => []DeletedStaysHidden
<1>1. IInv => DeletedStaysHidden
  BY DEF IInv, HistoryInv, DeletedStaysHidden, Readers, Requests
<1> QED
  BY <1>1, Invariance, PTL

\* A creation that was acknowledged is visible to every later request until
\* the record is deleted.
THEOREM CreationIsVisible == Spec => []CreatedStaysVisible
<1>1. IInv => CreatedStaysVisible
  BY DEF IInv, HistoryInv, CreatedStaysVisible, Readers, Requests
<1> QED
  BY <1>1, Invariance, PTL

\* An account that is absent or inactive can no longer do anything.
THEOREM BarredIsBarred == Spec => []BarredCallerHasNoEffect
<1>1. IInv => BarredCallerHasNoEffect
  BY DEF IInv, HistoryInv, BarredCallerHasNoEffect
<1> QED
  BY <1>1, Invariance, PTL

\* No session, connection or row lock leaks past the request that opened it.
THEOREM NoSessionLeaks == Spec => []SessionsAreClosed
<1>1. IInv => SessionsAreClosed
  BY DEF IInv, PhaseInv, SessionsAreClosed, InFlight
<1> QED
  BY <1>1, Invariance, PTL

-----------------------------------------------------------------------------
(* Scoring implements AuditTrail.                                          *)

\* The caller of a request that has written never changes.
LEMMA CallerStable ==
    IInv /\ [Next]_vars =>
        \A d \in DeleteRequests : tx[d] = "committed" => caller'[d] = caller[d]
<1> SUFFICES ASSUME IInv, [Next]_vars,
                    NEW d \in DeleteRequests, tx[d] = "committed"
             PROVE  caller'[d] = caller[d]
  OBVIOUS
<1>1. d \in Requests /\ pc[d] # "idle"
  BY DEF IInv, PhaseInv, Requests
<1>2. ASSUME NEW r \in Requests, Begin(r) PROVE caller'[d] = caller[d]
  BY <1>1, <1>2 DEF Begin, IInv, TypeOK
<1>3. (\A r \in Requests : ~Begin(r)) => caller' = caller
  BY ZenonT(60) DEF Next, Serve, Environment, RefuseRequest, Authenticate, RefuseInput, PrepareInference,
         Infer, FlushInsert, GetRecord, LookupForDelete, FlushUpdate, SendCommit, DbCommit,
         AfterCommit, Refresh, CloseSession, DropConnection, DbFail, DbRecover, Crash, Startup, Register, Deactivate,
         reqVars, vars
<1> QED
  BY <1>2, <1>3

\* Only a commit changes the table.
LEMMA OnlyCommitsWrite ==
    [Next]_vars => records' = records \/ \E r \in Requests : DbCommit(r)
BY ZenonT(60) DEF Next, Serve, Environment, Begin, RefuseRequest, Authenticate, RefuseInput,
       PrepareInference, Infer, FlushInsert, GetRecord, LookupForDelete, FlushUpdate, SendCommit,
       AfterCommit, Refresh, CloseSession, DropConnection, DbFail, DbRecover, Crash, Startup, Register, Deactivate, vars

\* Where the table keeps a row, so does the trail.
LEMMA TrailRowStable ==
    ASSUME IInv, [Next]_vars, NEW id \in ScoreRequests, records'[id] = records[id]
    PROVE  TrailRows'[id] = TrailRows[id]
<1>1. IsDeleted(id)' <=> IsDeleted(id)
  BY DEF IsDeleted
<1>2. CASE IsDeleted(id)
  <2>1. caller'[records[id].deleted] = caller[records[id].deleted]
    BY <1>2, CallerStable DEF IInv, DeleteInv
  <2> QED
    BY <1>1, <1>2, <2>1 DEF TrailRows
<1>3. CASE ~IsDeleted(id)
  BY <1>1, <1>3 DEF TrailRows
<1> QED
  BY <1>2, <1>3

\* The empty table is the trail's initial state.
LEMMA TrailInit == Init => Trail!Init
BY DEF Init, Trail!Init, TrailRows, IsDeleted

\* The commit of a POST inserts in the trail, that of a DELETE marks, and no
\* other step changes it.
LEMMA TrailStep == IInv /\ [Next]_vars => [Trail!Next]_TrailRows
<1> SUFFICES ASSUME IInv, [Next]_vars PROVE [Trail!Next]_TrailRows
  OBVIOUS
<1>1. CASE records' = records
  <2>1. \A id \in ScoreRequests : TrailRows'[id] = TrailRows[id]
    BY <1>1, TrailRowStable
  <2> QED
    BY <2>1 DEF TrailRows
<1>2. ASSUME NEW r \in ScoreRequests, DbCommit(r) PROVE Trail!Insert(r)
  <2>1. TrailRows[r] = NoRow
    BY <1>2, InsertEffect DEF TrailRows, IsDeleted
  <2>2. raw[r] \in Probabilities
    BY <1>2 DEF IInv, PhaseInv, DbCommit, Requests
  <2> DEFINE new == [owner |-> caller[r], probability |-> round4(raw[r]),
                     decision |-> classify_risk(raw[r]), deleted |-> NotDeleted]
  <2>3. records'[r] = new
    BY <1>2, InsertEffect DEF Row
  <2>4. TrailRows'[r] = new
    BY <1>2, <2>3, InsertEffect DEF TrailRows, IsDeleted
  <2>5. \A id \in ScoreRequests \ {r} : TrailRows'[id] = TrailRows[id]
    BY <1>2, InsertEffect, TrailRowStable
  <2>6. TrailRows' = [TrailRows EXCEPT ![r] = new]
    BY <2>4, <2>5 DEF TrailRows
  <2>7. caller[r] \in Users /\ classify_risk(raw[r]) \in Decision
    BY <1>2, InsertEffect DEF classify_risk, Decision
  <2> QED
    BY <2>1, <2>2, <2>6, <2>7 DEF Trail!Insert
<1>3. ASSUME NEW r \in Requests, r \notin ScoreRequests, DbCommit(r)
      PROVE  Trail!Mark(target[r])
  <2> DEFINE t == target[r]
             mark == [by |-> caller[r], at |-> r]
  <2>1. t \in ScoreRequests /\ r \in DeleteRequests
    BY <1>3, UpdateEffect
  <2>2. records[t] \in Row /\ records[t] # NoRow /\ records[t].owner = caller[r]
    BY <1>3, <2>1, UpdateEffect DEF IInv, TypeOK
  <2>3. TrailRows[t] # NoRow
    <3>1. CASE ~IsDeleted(t)
      BY <2>1, <2>2, <3>1 DEF TrailRows
    <3>2. CASE IsDeleted(t)
      <4>1. caller[records[t].deleted] \in Users /\ records[t].deleted \in DeleteRequests
        BY <2>1, <3>2 DEF IInv, DeleteInv, PhaseInv, Requests
      <4>2. TrailRows[t] = [owner |-> records[t].owner, probability |-> records[t].probability,
                            decision |-> records[t].decision,
                            deleted |-> [by |-> caller[records[t].deleted],
                                         at |-> records[t].deleted]]
        BY <2>1, <2>2, <3>2 DEF TrailRows, Row
      <4>3. /\ records[t].owner \in Users /\ records[t].probability \in StoredProbability
            /\ records[t].decision \in Decision
        BY <2>2 DEF Row
      <4>4. [by |-> caller[records[t].deleted], at |-> records[t].deleted]
              \in DeleteRequests \cup {NotDeleted} \cup [by : Users, at : DeleteRequests]
        BY <4>1
      <4> QED
        BY <4>2, <4>3, <4>4, NoRowAssumption, Zenon
    <3> QED
      BY <3>1, <3>2
  <2>4. TrailRows[t].owner = caller[r]
    BY <2>1, <2>2 DEF TrailRows, Row
  <2>5. caller'[r] = caller[r]
    BY <1>3 DEF DbCommit
  <2>6. records'[t] = [records[t] EXCEPT !.deleted = r]
    BY <1>3, <2>1, UpdateEffect DEF DbCommit, IInv, TypeOK
  <2>7. records'[t] # NoRow /\ records'[t].deleted = r /\ r # NotDeleted
    BY <1>3, <2>1, UpdateEffect, NullsAssumption
  <2>8. TrailRows'[t] = [TrailRows[t] EXCEPT !.deleted = mark]
    BY <2>1, <2>2, <2>5, <2>6, <2>7 DEF TrailRows, IsDeleted, Row
  <2>9. \A id \in ScoreRequests \ {t} : TrailRows'[id] = TrailRows[id]
    BY <1>3, UpdateEffect, TrailRowStable
  <2>10. TrailRows' = [TrailRows EXCEPT ![t].deleted = mark]
    <3> HIDE DEF t, mark
    <3> QED
      BY <2>1, <2>8, <2>9 DEF TrailRows
  <2> QED
    BY <2>1, <2>3, <2>4, <2>10 DEF Trail!Mark
<1>4. CASE \E r \in Requests : DbCommit(r)
  <2>1. PICK r \in Requests : DbCommit(r)
    BY <1>4
  <2>2. CASE r \in ScoreRequests
    BY <1>2, <2>1, <2>2 DEF Trail!Next
  <2>3. CASE r \notin ScoreRequests
    BY <1>3, <2>1, <2>3, UpdateEffect DEF Trail!Next
  <2> QED
    BY <2>2, <2>3
<1> QED
  BY <1>1, <1>4, OnlyCommitsWrite

\* The scoring endpoints, whatever fails around them, implement the audit
\* trail: no row is ever half-written, rewritten, lost or undeleted.
THEOREM ScoringImplementsAuditTrail == Spec => ImplementsAuditTrail
<1>1. Trail!Spec <=> Trail!Init /\ [][Trail!Next]_TrailRows
  BY DEF Trail!Spec
<1> QED
  BY <1>1, Invariance, TrailInit, TrailStep, PTL DEF Spec, ImplementsAuditTrail

-----------------------------------------------------------------------------
(* Scoring and Platform.                                                   *)

\* What becomes of requests, connections and transactions as the world turns:
\* with the database all connections break and no COMMIT under way succeeds,
\* with the process the requests end too.
Follow ==
    LET fails == dbUp /\ ~dbUp'
        stops == process # "down" /\ process' = "down"
    IN  /\ pc' = IF stops THEN [r \in Requests |-> IF InFlight(r) THEN "lost" ELSE pc[r]] ELSE pc
        /\ conn' = IF fails \/ stops THEN [r \in Requests |-> FALSE] ELSE conn
        /\ tx' = IF fails
                 THEN [r \in Requests |-> IF tx[r] = "committing" THEN "rolledBack" ELSE Abandon(tx[r])]
                 ELSE IF stops THEN [r \in Requests |-> Abandon(tx[r])] ELSE tx
        /\ UNCHANGED <<users, records, caller, target, raw, status, before, barred>>

\* Whatever step Platform allows the world, at whatever moment, it is a step
\* here, so that a property proved of the handlers holds in each world that
\* Lifespan provides.
THEOREM PlatformIsMet ==
    ASSUME TypeOK, World!Next, Follow
    PROVE  Environment
<1> USE DEF Environment, World!Next, envVars, reqVars
<1>1. dbUp \in BOOLEAN /\ registered \in BOOLEAN
  BY DEF TypeOK
<1>2. CASE World!DbTurns
  <2>1. CASE dbUp
    <3>1. ~dbUp' /\ UNCHANGED <<registered, process>>
      BY <1>1, <1>2, <2>1 DEF World!DbTurns
    <3>2. DbFail
      BY <2>1, <3>1 DEF Follow, DbFail
    <3> QED
      BY <3>2
  <2>2. CASE ~dbUp
    <3>1. dbUp' = TRUE /\ UNCHANGED <<registered, process>>
      BY <1>1, <1>2, <2>2 DEF World!DbTurns
    <3>2. DbRecover
      BY <2>2, <3>1 DEF Follow, DbRecover
    <3> QED
      BY <3>2
  <2> QED
    BY <2>1, <2>2
<1>3. CASE World!Register
  <2>1. Register
    BY <1>3 DEF World!Register, Register, Follow
  <2> QED
    BY <2>1
<1>4. CASE World!Stop
  <2>1. Crash
    BY <1>4 DEF World!Stop, Crash, Follow
  <2> QED
    BY <2>1
<1>5. CASE World!Startup
  <2>1. Startup
    BY <1>5 DEF World!Startup, Startup, Follow
  <2> QED
    BY <2>1
<1> QED
  BY <1>2, <1>3, <1>4, <1>5
=============================================================================
