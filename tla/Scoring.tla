------------------------------ MODULE Scoring -------------------------------
(***************************************************************************)
(* The authenticated scoring endpoints of the API over the database:       *)
(*   POST   /v1/score          score_applicant                             *)
(*   GET    /v1/scores/{id}    get_scoring_record                          *)
(*   DELETE /v1/scores/{id}    soft_delete_scoring_record                  *)
(* with get_current_user and the get_db session they depend on.            *)
(*                                                                         *)
(* A request is a coroutine of the server process.  It is cut at every     *)
(* await, so between two of its actions any other request, the database    *)
(* and the environment may move.  The transaction its session holds is a   *)
(* separate thing that lives in the database: the handler can be gone, or  *)
(* have answered 500, while a COMMIT it sent is still to be executed.      *)
(*                                                                         *)
(* Requests are one-shot slots.  The primary key a POST draws (uuid4) is   *)
(* the slot's own name; an id no POST has inserted stands for an id the    *)
(* table does not hold.  The value a DELETE writes to deleted_at (its own  *)
(* reading of the clock) is named by the slot that took it.                *)
(***************************************************************************)
EXTENDS RiskDecision

CONSTANTS ScoreRequests,    \* POST   /v1/score
          GetRequests,      \* GET    /v1/scores/{score_id}
          DeleteRequests,   \* DELETE /v1/scores/{score_id}
          Users,            \* the subjects of the tokens
          Probabilities,    \* what predict_proba may return
          NoRow,            \* the key is not in the table
          NotDeleted,       \* deleted_at IS NULL
          NoUser,           \* the request has not begun
          NoTarget

Requests == ScoreRequests \cup GetRequests \cup DeleteRequests

ASSUME SlotsAssumption ==
    /\ ScoreRequests \cap GetRequests = {}
    /\ ScoreRequests \cap DeleteRequests = {}
    /\ GetRequests \cap DeleteRequests = {}

ASSUME ProbabilitiesAssumption == Probabilities \subseteq RawProbability

ASSUME NullsAssumption ==
    /\ NotDeleted \notin DeleteRequests
    /\ NoUser \notin Users
    /\ NoTarget \notin ScoreRequests

ASSUME NoRowAssumption ==
    \A o \in Users, p \in StoredProbability, d \in Decision,
       x \in DeleteRequests \cup {NotDeleted} \cup [by : Users, at : DeleteRequests] :
          NoRow # [owner |-> o, probability |-> p, decision |-> d, deleted |-> x]

Row == [owner : Users, probability : StoredProbability, decision : Decision,
        deleted : DeleteRequests \cup {NotDeleted}]

VARIABLES
    dbUp,         \* PostgreSQL accepts connections
    registered,   \* app.state.model_version has its row in model_versions
    process,      \* "down", "loaded", or "bare": serving with no pipeline in app.state
    users,        \* the users table: "absent", "active" or "inactive"
    records,      \* the scoring_requests table
    pc,           \* where the request's handler is
    caller,       \* the subject of its token
    target,       \* the score_id it names; for a POST the id it draws
    raw,          \* a POST's prob_default
    status,       \* the HTTP status it was answered with, 0 when it was not
    conn,         \* its session holds a live connection
    tx,           \* the transaction of its session, as the database sees it
    before,       \* history: the requests already answered when this one was sent
    barred        \* history: its caller was not an active user when it was sent

envVars == <<dbUp, registered, process, users>>
reqVars == <<pc, caller, target, raw, status, conn, tx, before, barred>>
vars == <<dbUp, registered, process, users, records,
          pc, caller, target, raw, status, conn, tx, before, barred>>

PC == {"idle", "auth", "handler", "infer", "flush", "commit", "refresh", "closing", "done",
       "lost"}
TxState == {"none", "open", "committing", "committed", "rolledBack"}
\* What the exception handlers answer: an HTTPException its own status, a
\* validation error 422, anything else 500.
Status == {0, 200, 201, 401, 403, 404, 422, 500, 503}
UserStatus == {"absent", "active", "inactive"}

InFlight(r) == pc[r] \notin {"idle", "done", "lost"}

-----------------------------------------------------------------------------
(* Sessions and transactions.                                              *)

\* What becomes of a transaction whose connection is gone or whose session
\* is closed: uncommitted work is rolled back, a COMMIT under way is not.
Abandon(t) == IF t = "open" THEN "rolledBack" ELSE t

\* Faulty variants of the definitions below, each a plausible slip in the
\* code, which the properties must catch: here a get_db that forgets to close
\* the session, and one that commits as it closes it.
Reply_LeavesSessionOpen(r, code) ==
    /\ pc' = [pc EXCEPT ![r] = "done"]
    /\ status' = [status EXCEPT ![r] = code]
    /\ UNCHANGED <<conn, tx>>

Reply_CommitsOnClose(r, code) ==
    /\ pc' = [pc EXCEPT ![r] = "done"]
    /\ status' = [status EXCEPT ![r] = code]
    /\ conn' = [conn EXCEPT ![r] = FALSE]
    /\ tx' = [tx EXCEPT ![r] = IF tx[r] = "open" THEN "committing" ELSE tx[r]]

\* The handler raises: get_db rolls back and closes the session, and then
\* the error response goes out.
Reply(r, code) ==
    /\ pc' = [pc EXCEPT ![r] = "done"]
    /\ status' = [status EXCEPT ![r] = code]
    /\ conn' = [conn EXCEPT ![r] = FALSE]
    /\ tx' = [tx EXCEPT ![r] = Abandon(tx[r])]

\* The handler returns: the response goes out first, and get_db still holds
\* the session, with a connection checked out or not.
Answer(r, code, held) ==
    /\ pc' = [pc EXCEPT ![r] = "closing"]
    /\ status' = [status EXCEPT ![r] = code]
    /\ conn' = [conn EXCEPT ![r] = held]
    /\ UNCHANGED tx

Goto(r, label) ==
    /\ pc' = [pc EXCEPT ![r] = label]
    /\ UNCHANGED <<status, conn, tx>>

\* The UPDATE of a DELETE holds the row's lock until its transaction ends.
Locks(q, id) ==
    /\ q \in DeleteRequests
    /\ target[q] = id
    /\ \/ tx[q] = "committing"
       \/ pc[q] = "commit" /\ tx[q] = "open"

\* Faulty: the decision is taken from the rounded probability.
NewRow_DecidesLate(r) == [owner |-> caller[r], probability |-> round4(raw[r]),
                          decision |-> DecisionOfStored(round4(raw[r])), deleted |-> NotDeleted]

\* The row a POST adds to its session.
NewRow(r) == [owner |-> caller[r], probability |-> round4(raw[r]),
              decision |-> classify_risk(raw[r]), deleted |-> NotDeleted]

-----------------------------------------------------------------------------
(* Faulty variants of the handlers.                                        *)

\* get_current_user without its is_active check.
Authenticate_IgnoresInactive(r) ==
    /\ pc[r] = "auth"
    /\ dbUp
    /\ users[caller[r]] # "absent"
    /\ pc' = [pc EXCEPT ![r] = "handler"]
    /\ conn' = [conn EXCEPT ![r] = TRUE]
    /\ tx' = [tx EXCEPT ![r] = "open"]
    /\ UNCHANGED <<envVars, records, caller, target, raw, status, before, barred>>

\* get_scoring_record without its owner check.
GetRecord_AnyUser(r) ==
    /\ pc[r] = "handler"
    /\ r \in GetRequests
    /\ conn[r]
    /\ records[target[r]] # NoRow
    /\ records[target[r]].deleted = NotDeleted
    /\ Answer(r, 200, TRUE)
    /\ UNCHANGED <<envVars, records, caller, target, raw, before, barred>>

\* get_scoring_record without deleted_at IS NULL.
GetRecord_ShowsDeleted(r) ==
    /\ pc[r] = "handler"
    /\ r \in GetRequests
    /\ conn[r]
    /\ records[target[r]] # NoRow
    /\ records[target[r]].owner = caller[r]
    /\ Answer(r, 200, TRUE)
    /\ UNCHANGED <<envVars, records, caller, target, raw, before, barred>>

\* soft_delete_scoring_record without its owner check.
LookupForDelete_AnyUser(r) ==
    /\ pc[r] = "handler"
    /\ r \in DeleteRequests
    /\ conn[r]
    /\ records[target[r]] # NoRow
    /\ records[target[r]].deleted = NotDeleted
    /\ Goto(r, "flush")
    /\ UNCHANGED <<envVars, records, caller, target, raw, before, barred>>

\* soft_delete_scoring_record without its deleted_at check.
LookupForDelete_Again(r) ==
    /\ pc[r] = "handler"
    /\ r \in DeleteRequests
    /\ conn[r]
    /\ records[target[r]] # NoRow
    /\ records[target[r]].owner = caller[r]
    /\ Goto(r, "flush")
    /\ UNCHANGED <<envVars, records, caller, target, raw, before, barred>>

\* The row is removed instead of marked.
DbCommit_HardDelete(r) ==
    /\ dbUp
    /\ tx[r] = "committing"
    /\ tx' = [tx EXCEPT ![r] = "committed"]
    /\ records' = IF r \in ScoreRequests
                  THEN [records EXCEPT ![r] = NewRow(r)]
                  ELSE [records EXCEPT ![target[r]] = NoRow]
    /\ UNCHANGED <<envVars, pc, caller, target, raw, status, conn, before, barred>>

\* The answer does not wait for the commit.
AfterCommit_Optimistic(r) ==
    /\ pc[r] = "commit"
    /\ tx[r] = "committing"
    /\ \/ r \in DeleteRequests /\ Answer(r, 200, FALSE)
       \/ r \in ScoreRequests /\ Goto(r, "refresh")
    /\ UNCHANGED <<envVars, records, caller, target, raw, before, barred>>

\* A broken connection is not noticed.
AfterCommit_WaitsForever(r) ==
    /\ pc[r] = "commit"
    /\ tx[r] = "committed"
    /\ \/ r \in DeleteRequests /\ Answer(r, 200, FALSE)
       \/ r \in ScoreRequests /\ Goto(r, "refresh")
    /\ UNCHANGED <<envVars, records, caller, target, raw, before, barred>>

-----------------------------------------------------------------------------
(* Requests.                                                               *)

\* A client sends a request: a token's subject and, but for a POST, an id.
Begin(r) ==
    /\ pc[r] = "idle"
    /\ process # "down"
    /\ \E u \in Users :
          /\ caller' = [caller EXCEPT ![r] = u]
          /\ barred' = [barred EXCEPT ![r] = users[u] # "active"]
    /\ \E id \in (IF r \in ScoreRequests THEN {r} ELSE ScoreRequests) :
          target' = [target EXCEPT ![r] = id]
    /\ before' = [before EXCEPT ![r] = {q \in Requests : status[q] # 0}]
    /\ Goto(r, "auth")
    /\ UNCHANGED <<envVars, records, raw>>

\* Refused before the database is asked: 401 for a token that is missing,
\* tampered with or expired, 422 for a body that is not JSON.
RefuseRequest(r) ==
    /\ pc[r] = "auth"
    /\ \/ Reply(r, 401)
       \/ r \in ScoreRequests /\ Reply(r, 422)
    /\ UNCHANGED <<envVars, records, caller, target, raw, before, barred>>

\* get_current_user: the first statement of the session, which checks a
\* connection out of the pool (pre-pinged) and opens the transaction.  It
\* fails without a database, and can fail with one.
Authenticate(r) ==
    /\ pc[r] = "auth"
    /\ LET user == users[caller[r]]
       IN  \/ Reply(r, 500)
           \/ dbUp /\ user = "absent" /\ Reply(r, 401)
           \/ dbUp /\ user = "inactive" /\ Reply(r, 403)
           \/ /\ dbUp /\ user = "active"
              /\ pc' = [pc EXCEPT ![r] = "handler"]
              /\ conn' = [conn EXCEPT ![r] = TRUE]
              /\ tx' = [tx EXCEPT ![r] = "open"]
              /\ UNCHANGED status
    /\ UNCHANGED <<envVars, records, caller, target, raw, before, barred>>

\* A field of the body, or the id in the path, fails validation.
RefuseInput(r) ==
    /\ pc[r] = "handler"
    /\ Reply(r, 422)
    /\ UNCHANGED <<envVars, records, caller, target, raw, before, barred>>

\* score_applicant up to its first await.  The payload may pass validation
\* and still break to_model_dataframe, outside the try: 500.
PrepareInference(r) ==
    /\ pc[r] = "handler"
    /\ r \in ScoreRequests
    /\ \/ process = "bare" /\ Reply(r, 503)
       \/ process # "bare" /\ (Reply(r, 500) \/ Goto(r, "infer"))
    /\ UNCHANGED <<envVars, records, caller, target, raw, before, barred>>

\* predict_proba in the worker thread, then the decision and db.add.
Infer(r) ==
    /\ pc[r] = "infer"
    /\ \/ Reply(r, 500) /\ UNCHANGED raw
       \/ /\ \E p \in Probabilities : raw' = [raw EXCEPT ![r] = p]
          /\ Goto(r, "flush")
    /\ UNCHANGED <<envVars, records, caller, target, before, barred>>

\* db.commit() of a POST, first half: the INSERT, whose foreign key on
\* model_versions the database checks at once.  It may also refuse the row
\* for a value JSONB does not take (a NaN or an infinity in the features).
FlushInsert(r) ==
    /\ pc[r] = "flush"
    /\ r \in ScoreRequests
    /\ \/ conn[r] /\ registered /\ Goto(r, "commit")
       \/ Reply(r, 500)
    /\ UNCHANGED <<envVars, records, caller, target, raw, before, barred>>

\* get_scoring_record.
GetRecord(r) ==
    /\ pc[r] = "handler"
    /\ r \in GetRequests
    /\ LET row == records[target[r]]
           found == row # NoRow /\ row.deleted = NotDeleted
       IN  \/ ~conn[r] /\ Reply(r, 500)
           \/ conn[r] /\ ~found /\ Reply(r, 404)
           \/ conn[r] /\ found /\ row.owner # caller[r] /\ Reply(r, 403)
           \/ conn[r] /\ found /\ row.owner = caller[r] /\ Answer(r, 200, TRUE)
    /\ UNCHANGED <<envVars, records, caller, target, raw, before, barred>>

\* soft_delete_scoring_record up to record.deleted_at = now.
LookupForDelete(r) ==
    /\ pc[r] = "handler"
    /\ r \in DeleteRequests
    /\ LET row == records[target[r]]
           found == row # NoRow /\ row.deleted = NotDeleted
       IN  \/ ~conn[r] /\ Reply(r, 500)
           \/ conn[r] /\ ~found /\ Reply(r, 404)
           \/ conn[r] /\ found /\ row.owner # caller[r] /\ Reply(r, 403)
           \/ conn[r] /\ found /\ row.owner = caller[r] /\ Goto(r, "flush")
    /\ UNCHANGED <<envVars, records, caller, target, raw, before, barred>>

\* db.commit() of a DELETE, first half: UPDATE ... WHERE id = score_id, which
\* waits for the row's lock and does not look at deleted_at again.
FlushUpdate(r) ==
    /\ pc[r] = "flush"
    /\ r \in DeleteRequests
    /\ \/ ~conn[r] /\ Reply(r, 500)
       \/ /\ conn[r]
          /\ \A q \in DeleteRequests : ~Locks(q, target[r])
          /\ Goto(r, "commit")
    /\ UNCHANGED <<envVars, records, caller, target, raw, before, barred>>

\* db.commit(), second half: COMMIT is sent ...
SendCommit(r) ==
    /\ pc[r] = "commit"
    /\ tx[r] = "open"
    /\ tx' = [tx EXCEPT ![r] = "committing"]
    /\ UNCHANGED <<envVars, records, pc, caller, target, raw, status, conn, before, barred>>

\* ... the database executes it, whatever became of the handler since ...
DbCommit(r) ==
    /\ dbUp
    /\ tx[r] = "committing"
    /\ tx' = [tx EXCEPT ![r] = "committed"]
    /\ records' = IF r \in ScoreRequests
                  THEN [records EXCEPT ![r] = NewRow(r)]
                  ELSE [records EXCEPT ![target[r]].deleted = r]
    /\ UNCHANGED <<envVars, pc, caller, target, raw, status, conn, before, barred>>

\* ... and the handler learns of it, or finds its connection broken.
AfterCommit(r) ==
    /\ pc[r] = "commit"
    /\ \/ ~conn[r] /\ Reply(r, 500)
       \/ conn[r] /\ tx[r] = "committed" /\ r \in DeleteRequests /\ Answer(r, 200, FALSE)
       \/ /\ conn[r] /\ tx[r] = "committed" /\ r \in ScoreRequests
          /\ pc' = [pc EXCEPT ![r] = "refresh"]
          /\ conn' = [conn EXCEPT ![r] = FALSE]
          /\ UNCHANGED <<status, tx>>
    /\ UNCHANGED <<envVars, records, caller, target, raw, before, barred>>

\* db.refresh(scoring_record): one more SELECT, on a fresh checkout, which
\* can fail as the first one can.
Refresh(r) ==
    /\ pc[r] = "refresh"
    /\ \/ dbUp /\ Answer(r, 201, TRUE)
       \/ Reply(r, 500)
    /\ UNCHANGED <<envVars, records, caller, target, raw, before, barred>>

\* The end of get_db after a success.
CloseSession(r) ==
    /\ pc[r] = "closing"
    /\ pc' = [pc EXCEPT ![r] = "done"]
    /\ conn' = [conn EXCEPT ![r] = FALSE]
    /\ tx' = [tx EXCEPT ![r] = Abandon(tx[r])]
    /\ UNCHANGED <<envVars, records, caller, target, raw, status, before, barred>>

-----------------------------------------------------------------------------
(* The environment.                                                        *)

DbFail ==
    /\ dbUp
    /\ dbUp' = FALSE
    /\ conn' = [r \in Requests |-> FALSE]
    /\ tx' = [r \in Requests |-> IF tx[r] = "committing" THEN "rolledBack" ELSE Abandon(tx[r])]
    /\ UNCHANGED <<registered, process, users, records, pc, caller, target, raw, status,
                   before, barred>>

DbRecover ==
    /\ ~dbUp
    /\ dbUp' = TRUE
    /\ UNCHANGED <<registered, process, users, records, reqVars>>

\* One connection breaks while the database stays up.
DropConnection(r) ==
    /\ conn[r]
    /\ conn' = [conn EXCEPT ![r] = FALSE]
    /\ tx' = [tx EXCEPT ![r] = Abandon(tx[r])]
    /\ UNCHANGED <<envVars, records, pc, caller, target, raw, status, before, barred>>

\* The server process dies: its coroutines and connections go with it.
Crash ==
    /\ process # "down"
    /\ process' = "down"
    /\ pc' = [r \in Requests |-> IF InFlight(r) THEN "lost" ELSE pc[r]]
    /\ conn' = [r \in Requests |-> FALSE]
    /\ tx' = [r \in Requests |-> Abandon(tx[r])]
    /\ UNCHANGED <<dbUp, registered, users, records, caller, target, raw, status, before, barred>>

\* The container starts it again and lifespan loads the pipeline.
Startup ==
    /\ process = "down"
    /\ process' = "loaded"
    /\ UNCHANGED <<dbUp, registered, users, records, reqVars>>

\* The lifespan of an instance that is starting, this one or another,
\* registers the model version.  It may also have failed to, for good.
Register ==
    /\ dbUp
    /\ ~registered
    /\ registered' = TRUE
    /\ UNCHANGED <<dbUp, process, users, records, reqVars>>

\* An administrator clears is_active; no endpoint does.
Deactivate(u) ==
    /\ users[u] = "active"
    /\ users' = [users EXCEPT ![u] = "inactive"]
    /\ UNCHANGED <<dbUp, registered, process, records, reqVars>>

-----------------------------------------------------------------------------
Init ==
    /\ dbUp \in BOOLEAN
    /\ registered \in BOOLEAN
    /\ process \in {"down", "loaded", "bare"}
    /\ users \in [Users -> UserStatus]
    /\ records = [r \in ScoreRequests |-> NoRow]
    /\ pc = [r \in Requests |-> "idle"]
    /\ caller = [r \in Requests |-> NoUser]
    /\ target = [r \in Requests |-> NoTarget]
    /\ raw = [r \in Requests |-> 0]
    /\ status = [r \in Requests |-> 0]
    /\ conn = [r \in Requests |-> FALSE]
    /\ tx = [r \in Requests |-> "none"]
    /\ before = [r \in Requests |-> {}]
    /\ barred = [r \in Requests |-> FALSE]

\* The steps of the handlers and of the database on their behalf.
Serve(r) ==
    \/ Authenticate(r)
    \/ PrepareInference(r) \/ Infer(r) \/ FlushInsert(r)
    \/ GetRecord(r)
    \/ LookupForDelete(r) \/ FlushUpdate(r)
    \/ SendCommit(r) \/ DbCommit(r) \/ AfterCommit(r) \/ Refresh(r)
    \/ CloseSession(r)

Environment ==
    \/ DbFail \/ DbRecover
    \/ Crash \/ Startup \/ Register
    \/ \E r \in Requests : DropConnection(r)
    \/ \E u \in Users : Deactivate(u)

Next ==
    \/ \E r \in Requests : Begin(r) \/ RefuseRequest(r) \/ RefuseInput(r) \/ Serve(r)
    \/ Environment

Spec == Init /\ [][Next]_vars

Fairness == \A r \in Requests : WF_vars(Serve(r))

FairSpec == Spec /\ Fairness

-----------------------------------------------------------------------------
(* Properties.                                                             *)

TypeOK ==
    /\ dbUp \in BOOLEAN
    /\ registered \in BOOLEAN
    /\ process \in {"down", "loaded", "bare"}
    /\ users \in [Users -> UserStatus]
    /\ records \in [ScoreRequests -> Row \cup {NoRow}]
    /\ pc \in [Requests -> PC]
    /\ caller \in [Requests -> Users \cup {NoUser}]
    /\ target \in [Requests -> ScoreRequests \cup {NoTarget}]
    /\ raw \in [Requests -> RawProbability]
    /\ status \in [Requests -> Status]
    /\ conn \in [Requests -> BOOLEAN]
    /\ tx \in [Requests -> TxState]
    /\ before \in [Requests -> SUBSET Requests]
    /\ barred \in [Requests -> BOOLEAN]

IsDeleted(id) == records[id] # NoRow /\ records[id].deleted # NotDeleted

\* A 201 is durable and tells the truth: whatever crashed, dropped or was
\* deleted since, the row is in the table, belongs to the caller, and holds
\* the rounded probability and the decision taken from the raw one.  A 200
\* to a DELETE likewise: the row is the caller's and is marked deleted.
AnswersAreDurable ==
    /\ \A r \in ScoreRequests : status[r] = 201 =>
          /\ records[r] # NoRow
          /\ records[r].owner = caller[r]
          /\ records[r].probability = round4(raw[r])
          /\ records[r].decision = classify_risk(raw[r])
    /\ \A r \in DeleteRequests : status[r] = 200 =>
          /\ IsDeleted(target[r])
          /\ records[target[r]].owner = caller[r]

\* A request answered 4xx or 503 wrote nothing and has nothing under way in
\* the database that could still be written after the answer.
RefusalLeavesNothing ==
    \A r \in Requests : status[r] \in {401, 403, 404, 422, 503} =>
        /\ tx[r] \notin {"open", "committing", "committed"}
        /\ r \in ScoreRequests => records[r] = NoRow

\* A deleted_at was written by a DELETE of that record that its owner sent,
\* also when that DELETE was answered 500 or its process died.
OnlyTheOwnerDeletes ==
    \A id \in ScoreRequests : IsDeleted(id) =>
        LET d == records[id].deleted
        IN  target[d] = id /\ caller[d] = records[id].owner

\* A record is shown to its owner only; the owner is refused it with 403
\* only when the account is no longer active.
ReadIsolation ==
    \A r \in GetRequests :
        /\ status[r] = 200 => /\ records[target[r]] # NoRow
                              /\ records[target[r]].owner = caller[r]
        /\ (/\ status[r] = 403
            /\ records[target[r]] # NoRow
            /\ records[target[r]].owner = caller[r]) => users[caller[r]] = "inactive"

\* Once a DELETE is answered 200, no GET or DELETE of that record sent
\* afterwards is answered 200: the deletion is final in real time.
DeletedStaysHidden ==
    \A r \in GetRequests \cup DeleteRequests, d \in DeleteRequests :
        (d \in before[r] /\ status[d] = 200 /\ target[d] = target[r]) => status[r] # 200

\* Once a POST is answered 201, a GET or DELETE of the record sent afterwards
\* is answered 404 only if the record has meanwhile been deleted.
CreatedStaysVisible ==
    \A r \in GetRequests \cup DeleteRequests :
        (target[r] \in before[r] /\ status[target[r]] = 201 /\ status[r] = 404)
            => IsDeleted(target[r])

\* A caller who was not an active user when the request was sent gets no
\* success and changes nothing, however the account row is read later.
BarredCallerHasNoEffect ==
    \A r \in Requests : barred[r] =>
        /\ status[r] \notin {200, 201}
        /\ tx[r] \notin {"committing", "committed"}

\* get_db closes what it opened: no session outlives its request, so no
\* answered or lost request keeps a connection, or a row lock other than
\* that of a COMMIT the database has yet to execute.
SessionsAreClosed ==
    \A r \in Requests : ~InFlight(r) => ~conn[r] /\ tx[r] # "open"

\* The table behaves as the audit trail promises: rows appear once, whole,
\* never change but for deleted_at, never vanish, and are marked on behalf
\* of their owner.
TrailRows ==
    [id \in ScoreRequests |->
        IF IsDeleted(id)
        THEN [records[id] EXCEPT !.deleted =
                 [by |-> caller[records[id].deleted], at |-> records[id].deleted]]
        ELSE records[id]]

Trail == INSTANCE AuditTrail WITH
    Ids <- ScoreRequests,
    Owners <- Users,
    Scores <- {round4(p) : p \in Probabilities},
    Decisions <- Decision,
    Stamps <- DeleteRequests,
    Unmarked <- NotDeleted,
    rows <- TrailRows

ImplementsAuditTrail == Trail!Spec

\* The world around the handlers, which Lifespan provides: ScoringProofs shows
\* that Environment leaves out none of its steps.
World == INSTANCE Platform

\* Every request that was sent is answered, or lost with its process:
\* neither a failed database nor another request's lock holds it forever.
EveryRequestEnds ==
    \A r \in Requests : InFlight(r) ~> ~InFlight(r)

-----------------------------------------------------------------------------
(* Statements of the repository's documents that the code does not keep.   *)

\* README.md:90, "guarantee zero orphan records or partial writes if a query
\* fails mid-request": a POST answered 500 leaves no record.
FailedScoreLeavesNoRecord ==
    \A r \in ScoreRequests : status[r] = 500 => records[r] = NoRow

\* app/routers/scoring.py:291, "404 Not Found if missing or already
\* deleted": a record is deleted by one DELETE only.
DeletedOnlyOnce ==
    \A q, r \in DeleteRequests :
        (status[q] = 200 /\ status[r] = 200 /\ target[q] = target[r]) => q = r
=============================================================================
