------------------------------ MODULE Serving -------------------------------
(***************************************************************************)
(* What every request passes through, whatever endpoint it is for:         *)
(*   ServerErrorMiddleware     unhandled_exception_handler                 *)
(*   CorrelationIdMiddleware   X-Request-ID                                *)
(*   RequestLoggingMiddleware  one line per request, none for /static/     *)
(*   ExceptionMiddleware       the other handlers of error_handlers.py     *)
(*   get_db                    a session, and a connection of the pool     *)
(* from the outside in.  The endpoint is reduced to what it does to these: *)
(* it runs statements, commits (which gives the connection back until the  *)
(* next statement), returns or raises.                                     *)
(*                                                                         *)
(* The pool is SQLAlchemy's default one: session.py gives it no size, no   *)
(* overflow and no timeout of its own.  A checkout takes an idle           *)
(* connection, else opens one, else waits for one to be returned; when the *)
(* wait is over it looks at the limit again before it gives up.            *)
(***************************************************************************)
EXTENDS Naturals, Sequences, FiniteSets

CONSTANTS ApiRequests,
          StaticRequests,   \* paths under /static/
          GivenIds,         \* values of X-Request-ID that clients send
          HandledErrors,    \* those of ErrorStatus that endpoints raise
          PoolSize,
          MaxOverflow,
          Null

Requests == ApiRequests \cup StaticRequests

ASSUME RequestsAssumption == ApiRequests \cap StaticRequests = {} /\ IsFiniteSet(Requests)

ASSUME PoolAssumption == PoolSize \in Nat \ {0} /\ MaxOverflow \in Nat

Limit == PoolSize + MaxOverflow

\* A generated id (uuid4) is named by the request it was generated for.
Id == GivenIds \cup Requests

\* What the registered handlers answer: an HTTPException's status, 422 for a
\* RequestValidationError, the status of an AppException (503).
ErrorStatus == {401, 403, 404, 409, 422, 500, 503}
Success == {200, 201}
Status == Success \cup ErrorStatus

ASSUME ErrorsAssumption == HandledErrors \subseteq ErrorStatus

Answer == [status : Status, header : Id \cup {Null}, body : Id \cup {Null}]

ASSUME NullAssumption == Null \notin Id \cup Answer

VARIABLES
    pc,        \* where the request is
    given,     \* the X-Request-ID it was sent with, Null for none
    cid,       \* correlation_id, a context variable of its task
    answer,    \* status, X-Request-ID header, request_id and code of the envelope
    log,       \* the lines "http_request_finished" about it
    held,      \* its session has a connection checked out
    committed, \* its handler has committed
    idle,      \* connections in the pool's queue
    created    \* connections there are, or are being opened

poolVars == <<idle, created>>
vars == <<pc, given, cid, answer, log, held, committed, idle, created>>

\* "app": in the handler or its dependencies, with no connection;
\* "raised": an exception leaves the handler; "returned": its answer is sent
\* and the session is still open; "answered": nothing is left but the log.
PC == {"idle", "app", "connecting", "waiting", "holding", "raised", "returned", "answered",
       "logged", "done"}

Opening == {r \in Requests : pc[r] = "connecting"}
Holding == {r \in Requests : held[r]}
Waiting == {r \in Requests : pc[r] = "waiting"}

Goto(r, label) == pc' = [pc EXCEPT ![r] = label]

Send(r, code, header, body) ==
    answer' = [answer EXCEPT ![r] = [status |-> code, header |-> header, body |-> body]]

LogLine(r, code) ==
    log' = [log EXCEPT ![r] = Append(@, [status |-> code, correlation_id |-> cid[r]])]

\* Faulty: a connection that is returned is lost to the pool.
ReturnConnection_Leaks(r) ==
    /\ held' = [held EXCEPT ![r] = FALSE]
    /\ UNCHANGED poolVars

\* A connection goes back to the queue, or is closed when the queue is full.
ReturnConnection(r) ==
    /\ held' = [held EXCEPT ![r] = FALSE]
    /\ IF ~held[r] THEN UNCHANGED poolVars
       ELSE IF idle < PoolSize THEN idle' = idle + 1 /\ UNCHANGED created
       ELSE created' = created - 1 /\ UNCHANGED idle

-----------------------------------------------------------------------------
(* Faulty variants of the actions below.                                   *)

\* get_current_user opens a session of its own.
Checkout_OwnSession(r) ==
    /\ r \in ApiRequests
    /\ pc[r] \in {"app", "holding"}
    /\ \/ /\ pc[r] = "app" /\ idle > 0
          /\ idle' = idle - 1
          /\ held' = [held EXCEPT ![r] = TRUE]
          /\ Goto(r, "holding")
          /\ UNCHANGED created
       \/ /\ pc[r] = "app" /\ idle = 0 /\ created < Limit
          /\ created' = created + 1
          /\ Goto(r, "connecting")
          /\ UNCHANGED <<idle, held>>
       \/ /\ idle = 0 /\ created = Limit
          /\ Goto(r, "waiting")
          /\ UNCHANGED <<poolVars, held>>
    /\ UNCHANGED <<given, cid, answer, log, committed>>

\* The id is kept in a global of the module.
Arrive_GlobalId(r) ==
    /\ pc[r] = "idle"
    /\ Goto(r, "app")
    /\ \E g \in GivenIds \cup {Null} :
          /\ given' = [given EXCEPT ![r] = g]
          /\ cid' = [q \in Requests |-> IF g = Null THEN r ELSE g]
    /\ UNCHANGED <<answer, log, held, committed, poolVars>>

\* The access log has no finally.
RaiseUnhandled_Unlogged(r) ==
    /\ pc[r] = "raised"
    /\ r \in ApiRequests
    /\ ReturnConnection(r)
    /\ Goto(r, "logged")
    /\ UNCHANGED <<given, cid, answer, log, committed>>

-----------------------------------------------------------------------------
(* From the outside in.                                                    *)

\* CorrelationIdMiddleware: the client's id, unvalidated, or a new one.
Arrive(r) ==
    /\ pc[r] = "idle"
    /\ Goto(r, "app")
    /\ \E g \in GivenIds \cup {Null} :
          /\ given' = [given EXCEPT ![r] = g]
          /\ cid' = [cid EXCEPT ![r] = IF g = Null THEN r ELSE g]
    /\ UNCHANGED <<answer, log, held, committed, poolVars>>

\* The session's first statement, or the first since a commit.
Checkout(r) ==
    /\ pc[r] = "app"
    /\ r \in ApiRequests
    /\ \/ /\ idle > 0
          /\ idle' = idle - 1
          /\ held' = [held EXCEPT ![r] = TRUE]
          /\ Goto(r, "holding")
          /\ UNCHANGED created
       \/ /\ idle = 0 /\ created < Limit
          /\ created' = created + 1
          /\ Goto(r, "connecting")
          /\ UNCHANGED <<idle, held>>
       \/ /\ idle = 0 /\ created = Limit
          /\ Goto(r, "waiting")
          /\ UNCHANGED <<poolVars, held>>
    /\ UNCHANGED <<given, cid, answer, log, committed>>

Connect(r) ==
    /\ pc[r] = "connecting"
    /\ \/ /\ held' = [held EXCEPT ![r] = TRUE]
          /\ Goto(r, "holding")
          /\ UNCHANGED created
       \/ /\ created' = created - 1
          /\ Goto(r, "raised")
          /\ UNCHANGED held
    /\ UNCHANGED <<given, cid, answer, log, committed, idle>>

\* A connection was returned.  Nobody wakes those who wait when a connection
\* could not be opened: they find the room when their time is over.
WaitOver(r) ==
    /\ pc[r] = "waiting"
    /\ \/ /\ idle > 0
          /\ idle' = idle - 1
          /\ held' = [held EXCEPT ![r] = TRUE]
          /\ Goto(r, "holding")
          /\ UNCHANGED created
       \/ /\ idle = 0 /\ created < Limit
          /\ created' = created + 1
          /\ Goto(r, "connecting")
          /\ UNCHANGED <<idle, held>>
       \/ /\ idle = 0 /\ created = Limit
          /\ Goto(r, "raised")
          /\ UNCHANGED <<poolVars, held>>
    /\ UNCHANGED <<given, cid, answer, log, committed>>

\* db.commit() gives the connection back.
Commit(r) ==
    /\ pc[r] = "holding"
    /\ ~committed[r]
    /\ committed' = [committed EXCEPT ![r] = TRUE]
    /\ ReturnConnection(r)
    /\ Goto(r, "app")
    /\ UNCHANGED <<given, cid, answer, log>>

\* A handler returns: the answer goes out through the middleware, which adds
\* the header, and the session is closed after it.
HandlerReturns(r) ==
    /\ pc[r] \in {"app", "holding"}
    /\ r \in ApiRequests
    /\ \E code \in Success : Send(r, code, cid[r], Null)
    /\ Goto(r, "returned")
    /\ UNCHANGED <<given, cid, log, held, committed, poolVars>>

HandlerRaises(r) ==
    /\ pc[r] \in {"app", "holding"}
    /\ r \in ApiRequests
    /\ Goto(r, "raised")
    /\ UNCHANGED <<given, cid, answer, log, held, committed, poolVars>>

\* get_db closes the session, and one of the registered handlers answers.
RaiseHandled(r) ==
    /\ pc[r] = "raised"
    /\ r \in ApiRequests
    /\ ReturnConnection(r)
    /\ \E code \in HandledErrors : Send(r, code, cid[r], cid[r])
    /\ Goto(r, "answered")
    /\ UNCHANGED <<given, cid, log, committed>>

\* get_db closes the session, and the exception passes the middleware: the
\* line is logged, with the status of an answer that is not yet sent.
RaiseUnhandled(r) ==
    /\ pc[r] = "raised"
    /\ r \in ApiRequests
    /\ ReturnConnection(r)
    /\ LogLine(r, 500)
    /\ Goto(r, "logged")
    /\ UNCHANGED <<given, cid, answer, committed>>

\* unhandled_exception_handler: past the middleware, so without the header.
RespondUnhandled(r) ==
    /\ pc[r] = "logged"
    /\ Send(r, 500, Null, cid[r])
    /\ Goto(r, "done")
    /\ UNCHANGED <<given, cid, log, held, committed, poolVars>>

\* The session of an answered request is closed, with or without an error.
CloseSession(r) ==
    /\ pc[r] = "returned"
    /\ ReturnConnection(r)
    /\ Goto(r, "answered")
    /\ UNCHANGED <<given, cid, answer, log, committed>>

LogFinished(r) ==
    /\ pc[r] = "answered"
    /\ LogLine(r, answer[r].status)
    /\ Goto(r, "done")
    /\ UNCHANGED <<given, cid, answer, held, committed, poolVars>>

\* StaticFiles: a file, or a 404 of the handlers.  Nothing is logged.
ServeStatic(r) ==
    /\ pc[r] = "app"
    /\ r \in StaticRequests
    /\ Send(r, 200, cid[r], Null) \/ Send(r, 404, cid[r], cid[r])
    /\ Goto(r, "done")
    /\ UNCHANGED <<given, cid, log, held, committed, poolVars>>

\* An unexpected exception of StaticFiles: the access log's finally returns,
\* which discards it, and the server answers 500 for want of an answer.
RaiseStatic(r) ==
    /\ pc[r] = "app"
    /\ r \in StaticRequests
    /\ Send(r, 500, Null, Null)
    /\ Goto(r, "done")
    /\ UNCHANGED <<given, cid, log, held, committed, poolVars>>

-----------------------------------------------------------------------------
Init ==
    /\ pc = [r \in Requests |-> "idle"]
    /\ given = [r \in Requests |-> Null]
    /\ cid = [r \in Requests |-> Null]
    /\ answer = [r \in Requests |-> Null]
    /\ log = [r \in Requests |-> <<>>]
    /\ held = [r \in Requests |-> FALSE]
    /\ committed = [r \in Requests |-> FALSE]
    /\ idle = 0
    /\ created = 0

Serve(r) ==
    \/ Checkout(r) \/ Connect(r) \/ WaitOver(r) \/ Commit(r)
    \/ HandlerReturns(r) \/ HandlerRaises(r)
    \/ RaiseHandled(r) \/ RaiseUnhandled(r) \/ RespondUnhandled(r)
    \/ CloseSession(r) \/ LogFinished(r)
    \/ ServeStatic(r) \/ RaiseStatic(r)

Next == \E r \in Requests : Arrive(r) \/ Serve(r)

Spec == Init /\ [][Next]_vars

-----------------------------------------------------------------------------
(* Properties.                                                             *)

TypeOK ==
    /\ pc \in [Requests -> PC]
    /\ given \in [Requests -> GivenIds \cup {Null}]
    /\ cid \in [Requests -> Id \cup {Null}]
    /\ answer \in [Requests -> Answer \cup {Null}]
    /\ log \in [Requests -> Seq([status : Status, correlation_id : Id])]
    /\ held \in [Requests -> BOOLEAN]
    /\ committed \in [Requests -> BOOLEAN]
    /\ idle \in Nat
    /\ created \in Nat

\* The connections there are lie in the queue, belong to a session or are
\* being opened: none is lost and none is counted twice.
PoolInv ==
    /\ created = idle + Cardinality(Holding) + Cardinality(Opening)
    /\ created <= Limit
    /\ idle <= PoolSize
    /\ \A r \in Requests :
          /\ held[r] => pc[r] \in {"holding", "raised", "returned"}
          /\ pc[r] = "holding" => held[r]

\* What is answered and logged when.
LogInv ==
    \A r \in Requests :
        /\ pc[r] \in {"idle", "app", "connecting", "waiting", "holding", "raised"} =>
              answer[r] = Null /\ log[r] = <<>>
        /\ pc[r] \in {"returned", "answered"} => answer[r] # Null /\ log[r] = <<>>
        /\ pc[r] = "logged" => answer[r] = Null
        /\ pc[r] = "done" => answer[r] # Null
        /\ r \in StaticRequests => pc[r] \in {"idle", "app", "done"} /\ log[r] = <<>>
        /\ pc[r] # "idle" => cid[r] = IF given[r] = Null THEN r ELSE given[r]

ServingInv == TypeOK /\ PoolInv /\ LogInv

\* Whoever waits for a connection holds none, and whoever holds one can go
\* on without another: a full pool empties by itself, so that nobody waits
\* for someone who waits.  When all requests are over, every connection is
\* back in the queue.
PoolNeverWedges ==
    /\ \A r \in Waiting : ~held[r]
    /\ Waiting # {} /\ idle = 0 /\ created = Limit =>
          \E q \in Requests \ Waiting : held[q] \/ pc[q] = "connecting"
    /\ (\A r \in Requests : pc[r] \in {"idle", "done"}) => created = idle

\* An answer names the request it answers, by the id the client sent or else
\* by its own: in the header, and in the envelope of an error.  Only the 500
\* of an unexpected exception lacks the header.
AnswerNamesItsRequest ==
    \A r \in Requests : answer[r] # Null =>
        LET own == IF given[r] = Null THEN r ELSE given[r]
            a == answer[r]
        IN  /\ a.status # 500 => a.header = own
            /\ a.header \in {own, Null}
            /\ a.status \in Success => a.body = Null
            /\ a.status \notin Success /\ (r \in ApiRequests \/ a.status # 500) => a.body = own

\* One line for each request that is over, under its id and with the status
\* the client has got, written when its connection is back in the pool; none
\* for a file, nor twice.
LogTellsTheAnswer ==
    \A r \in Requests :
        /\ log[r] # <<>> => ~held[r] /\ Len(log[r]) = 1
        /\ pc[r] = "done" /\ r \in ApiRequests =>
              log[r] = <<[status |-> answer[r].status,
                          correlation_id |-> IF given[r] = Null THEN r ELSE given[r]]>>
        /\ r \in StaticRequests => log[r] = <<>>
=============================================================================
