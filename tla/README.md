# TLA+ models of the Fraud & Risk Scoring API

TLA+ modules that model the core of this repository, TLC configurations that
check them on small instances, and TLAPS proofs of the properties that matter
most for every instance. Paths below are relative to the repository's root.

## 1. Inventory

| Component | Source | State it keeps | Operations | Modelled in |
|---|---|---|---|---|
| Scoring records | `app/routers/scoring.py` | table `scoring_requests` | POST `/v1/score`, GET and DELETE `/v1/scores/{id}` | `Scoring`, `AuditTrail` |
| Scoring history | `app/routers/scoring.py:147-201` | none; reads `scoring_requests` | GET `/v1/scores` | `History` |
| Risk decision | `app/schemas/scoring.py:249-268`, `app/routers/scoring.py:98-104` | none | `classify_risk`, `round(p, 4)` | `RiskDecision` |
| Authentication | `app/core/security.py` | reads table `users` | `get_current_user`, tokens, password hashes | `Scoring`, `Accounts` |
| Sessions | `app/db/session.py` | one session and transaction per request | `get_db` | `Scoring`, `Accounts`, `Serving` |
| Connection pool | `app/db/session.py:6-11` | checked-out connections | checkout, return | `Serving` |
| Lifespan | `app/main.py:22-68` | `app.state`, table `model_versions` | load, register, serve, shut down | `Lifespan`, `Platform` |
| Container start, migrations | `docker-compose.yml`, `Dockerfile`, `alembic/` | the schema | `alembic upgrade head`, restart | `Lifespan` |
| Probes | `app/routers/health.py` | none | `/health/ready`, `/health` | `Lifespan`; `/health` is a constant |
| Exception handlers | `app/core/error_handlers.py` | none | exception to status and envelope | `Serving`; statuses in `Scoring`, `Accounts` |
| Accounts | `app/routers/auth.py` | table `users` | register, login | `Accounts`, `Directory` |
| Profile, model info | `app/routers/users.py`, `app/routers/scoring.py:329-372` | none | two reads | profile in `Accounts` |
| Correlation ids, access log | `app/core/logging.py`, `app/main.py:150-164` | a context variable | tag, log | `Serving` |
| Applicant schema | `app/schemas/scoring.py:11-246` | none | validate, build the feature frame | outcomes in `Scoring`, parsers in `FeatureParsing` |
| Settings | `app/core/config.py` | constants | normalise `DATABASE_URL` | `DatabaseUrl` |
| Web portal | `app/static/app.js` | token, page, list shown | sign in, score, list, delete | `Portal` |
| Training scripts | `scripts/` | files | download, train | not modelled: offline and sequential; the model is an arbitrary probability |

**How they interact.** One asyncio process serves every request; a handler runs
alone between two awaits and interleaves with everything at each await. Requests
share nothing in memory but `app.state.model_pipeline`, and meet in PostgreSQL,
where a transaction outlives the handler that opened it: it may be committed
after the handler has answered, or rolled back under it. Several instances, in
several containers, share the database at startup too: each runs the migration
and registers its model version, to which every row of `scoring_requests` refers
by foreign key.

The portal is a client of its own: its calls are answered in any order, and what
it shows is what the last answer, not the last call, brought.

**What is hard.** Two requests on one record; a COMMIT whose acknowledgement is
lost; a commit followed by a statement that fails; a process that dies in
between; a row lock held by a handler that is gone; the check of `is_active` that
is old when the write happens; two registrations of one address; a count and a
page of two snapshots; a pool whose connections are held across inference; two
instances that migrate or register at once; a registration that failed and that
nobody repeats; shutdown under load; and the rounding of a probability on the
edge of a threshold. `PROJECT.json` lists each hazard at its line with the
properties that cover it.

**What correct means.**
- Scoring records: an answered write is durable and true, a refused one leaves
  nothing, a deletion is final and its owner's, a record is its owner's alone.
- Sessions: none outlives its request; no request waits forever.
- Scoring history: a page is the caller's, current and in order; `total` and
  pages differ from one snapshot only by what was committed in between.
- Accounts: one account to an address; whoever was answered 201 can log in; a
  token names the account of its credentials.
- Serving: no connection is lost and nobody waits for a waiter; every answer and
  log line names its request.
- Risk decision: monotone in the probability, and consistent with what is stored
  except where the rounding makes that impossible.
- Inputs: what a duration, a date or a database URL means is what is used.
- Portal: the list is of the user and filter asked for, and loses what was deleted.
- Startup: whoever is served finds model and tables; races between instances
  leave nothing broken; what broke heals by itself when the outage is over.

## 2. Modules

| Module | Role |
|---|---|
| `RiskDecision` | `classify_risk` and `round(p, 4)` as operators on integers. A probability is a number of grains, `Grain` of them to one ten-thousandth. |
| `AuditTrail` | Abstract: what the table `scoring_requests` promises, without requests or transactions. |
| `Platform` | Abstract: what handlers assume of database, registration and process. |
| `Scoring` | The three record endpoints with authentication, sessions, transactions and failures. Implements `AuditTrail`; `Platform` is its environment. |
| `Lifespan` | Migration, startup, registration, probe and shutdown of several instances. Provides `Platform` to each of them. |
| `History` | GET `/v1/scores` as count and page over a table that changes between them. |
| `Directory` | Abstract: accounts, sessions and profiles as if each request took effect at once. |
| `Accounts` | Registration, login and the use of a token, with transactions and failures. Implements `Directory`. |
| `Serving` | The middleware stack, the exception handlers and the connection pool around an endpoint of which only its use of them is left. |
| `Portal` | `app.js`: the submissions list against answers in any order. |
| `FeatureParsing`, `DatabaseUrl` | The parsers of durations and dates, and `assemble_async_db_connection`, as functions beside a statement of what they mean. `Tokens` has the cut that both make. |
| `ScoringInv` | The inductive invariant of `Scoring`, part by part. |
| `RiskProofs`, `SweepProofs`, `ScoringProofs`, `LifespanProofs`, `HistoryProofs`, `AccountsProofs`, `ServingProofs`, `PortalProofs` | The proofs. |
| `MCRisk`, `MCInputs`, `MCScoring`, `MCLifespan`, `MCHistory`, `MCServing`, `MCPortal` | Instances for TLC: sweeps of functions, symmetry sets, constants that a `.cfg` cannot write. |

Definitions keep the source's names where they have one. Names of the form
`X_Y` before a definition `X` (as `Reply_LeavesSessionOpen`) are faulty variants of
`X`: no specification uses them, and substituted for `X` they must break the
property `PROJECT.json` pairs them with.

### Scoring: state and actions

The table is `records`, the table `users` is `users`; each request slot has a
program counter `pc`, its `caller`, `target`, model output `raw`, `status` (the
answer), `conn` (its session holds a live connection) and `tx` (its transaction as
the database sees it). `before` and `barred` are history variables for
properties about real time. A slot stands for one request, so a run has as many
requests as slots.

| Action | Code |
|---|---|
| `Begin` | a client sends a request |
| `RefuseRequest` | token and body checks before any statement: 401, 422 |
| `Authenticate` | `get_current_user`'s SELECT: 401, 403, 500 or on with an open transaction |
| `RefuseInput` | field or path validation fails: 422 |
| `PrepareInference` | `score_applicant` to its first await: 503, 500 or on |
| `Infer` | `predict_proba` in its thread, decision, `db.add` |
| `FlushInsert`, `FlushUpdate` | `db.commit()` sends the INSERT or UPDATE: foreign key, row lock |
| `SendCommit`, `DbCommit`, `AfterCommit` | COMMIT is sent, executed by the database, acknowledged or not |
| `Refresh` | `db.refresh` on a new checkout |
| `GetRecord`, `LookupForDelete` | the two reads with their 404 and 403 |
| `CloseSession` | the end of `get_db` after a success |
| `DbFail`, `DbRecover`, `DropConnection`, `Crash`, `Startup`, `Register`, `Deactivate` | environment |

FastAPI sends a successful response before it closes a dependency that yields, and
the response to an exception after: hence `Answer` followed by `CloseSession`, but
`Reply` in one step. The UPDATE of a DELETE has only the primary key in its WHERE
clause, so `DbCommit` overwrites whatever mark the row has. PostgreSQL runs at
READ COMMITTED (nothing in the code changes it): a read sees the rows committed
when it runs.

### Lifespan: state and actions

The database is `dbUp`, `schema` and `model_versions`; each instance has its
`phase`, `model_pipeline` (its `app.state`), `conn`, `sync` (how its registration
ended), `busy` and `probe`. `Restart`, `MigrateCheck`, `MigrateApply`,
`MigrateCommit`, `MigrateDone` are the container's command up to `&&`;
`LoadModel`, `SyncLookup`, `SyncInsert`, `SyncCommit`, `SyncDone` are `lifespan` up
to its `yield`; then `Arrive`, `Finish`, `readiness_check`, `Shutdown` and
`LifespanEnd`. The waits in `MigrateApply` and `SyncInsert` are PostgreSQL's: an
insert of a key waits for the transaction that has inserted the same key.
Database outages, broken connections and crashes can come at any step; a
statement outside a transaction, of which `conn` says nothing, fails under
`MayFail`.

### History: state and actions

`table` has the state of each row as the database holds it (`"uncommitted"`
between INSERT and COMMIT), `created_at` the clock's reading at the INSERT. A
listing has its `query`, `total_count`, `items` and `status`; `asked`, `counted`,
`changed` and `matched` are history variables. `Ask` is the request up to its
first statement, `CountMatching` and `SelectPage` the two statements,
`FailStatement` a failure of either (an offset-naive `start_date` included, which
the driver refuses), `Refuse` every answer before them. `FlushInsert`,
`CommitInsert`, `RollbackInsert` and `CommitDelete` are the writers: what
`FlushInsert`, `DbCommit` and the failures of `Scoring` do to the table. `Orders` is the
set of the row orders ORDER BY `created_at` DESC allows: rows of one instant come
in any order, and not the same one in both pages.

### Accounts: state and actions

`users` is the table, by the registration that inserted the row; each request has
`pc`, what it was sent with (`email`, `password` or `bearer`), `conn` and `tx` as in
`Scoring`, and what it was answered. `Register`, `LookupEmail`, `InsertUser`,
`SendCommit`, `DbCommit`, `AfterCommit` and `Refresh` are `register`; `RefuseLogin` (422,
a body without credentials), `SendLogin` and `login` are `login`, whose lookup, `verify_password` and token are one step because
none of them awaits after the lookup's result; `SendProfile`,
`decode_access_token` and `get_current_user` are GET `/v1/users/me`. `InsertUser` waits
for another transaction that holds the address in the unique index. The loser of
such a race is answered 500, since nothing handles its `IntegrityError`, although
`app/routers/auth.py:43` says "409 Conflict if duplicate"; the properties say what
holds all the same: it left nothing, and the winner's account is sound.

### Serving: state and actions

Outside in: `Arrive` is `CorrelationIdMiddleware`; `LogFinished` and
`RaiseUnhandled` the `finally` of `RequestLoggingMiddleware`; `RaiseHandled` the
handlers of `AppException`, `RequestValidationError` and `HTTPException` inside it;
`RespondUnhandled` the handler of `Exception`, which Starlette runs outside all
middleware. `ServeStatic` and `RaiseStatic` are the `/static` mount: for its paths
the `finally` returns, which discards an exception under way, and the server
answers for want of an answer. `Checkout`, `Connect`, `WaitOver`, `Commit`,
`CloseSession` and `ReturnConnection` are a session and the pool: `idle` connections
in the queue, `created` ones altogether.

### Portal: state and actions

`calls` is the sequence of calls sent, each with what it asked for and how far it
is; `Execute` is the API, `Deliver` the handler that goes on with an answer,
`NetworkError` its `catch`. `LoadPage` is a page load, signed in or not; the user's
actions have the handlers' names, and `ChangeFilter` is the `onchange` of the
filter. `token`, `profile`, `view`, `filter`, `shown`, `currentPage` and `totalPages`
are the state of the page.

### FeatureParsing and DatabaseUrl

A duration is a sequence of tokens (digits, units, blanks, signs, an underscore and
a foreign character), a date three numerals with a separator, a URL its scheme and
the pieces between `?` and `&`. `isdigit` and `int` are Python's, and differ: a
superscript (the token `"sup"`) is a digit to `str.isdigit` and not to `int`, which
takes signs, blanks around the numeral and single underscores in it, and no more
than `MaxDigits` decimals (4300 in CPython). So a plain text can raise after it has
passed validation, and `score_applicant` answers 500; `DurationMeansItsMonths` says
of which texts without a unit this is so. `MCInputs` gives each function every input of a small set
and compares the result with what the text means: its spelling (`Spellings`), its
calendar month, its parameters.

### Composition

`Scoring` and `Lifespan` meet in `Platform`. `ImplementsPlatform` says that each
instance of `Lifespan`, seen through a refinement mapping, is a behaviour of
`Platform`; the theorem `PlatformIsMet` that `Scoring` takes every step `Platform` can
take, at any moment, so that what holds of `Scoring` holds over whatever `Lifespan`
does. That the environment actions of `Scoring` are no others than those of
`Platform` is how they are written, and not a property. In particular the 503 of
`score_applicant` for a missing pipeline is reachable only from an initial state that
no startup produces, which `ImplementsPlatform` shows.

`Scoring` implements `AuditTrail`. `History` takes its writers from there: an insert
that becomes visible with its commit, and a mark, but for the mark that replaces a
mark, which no listing reads.

`Accounts` implements `Directory`, where an account that a session names is there,
open when the session began, and changes by being closed only. This is all
`Scoring` lets happen to the account of a caller (`Deactivate`); that it also lets
requests name accounts that are not there is more than the code needs.

`EveryRequestEnds` of `Scoring` is the fairness `Lifespan` assumes of `Finish`.

## 3. Runs

| Run | Instance | States | What it shows |
|---|---|---|---|
| `RiskSweep` | every probability at 4 grains; texts to 5 tokens, `int` of 2 digits, dates, URLs to 3 pieces | 254 346 | disagreement is confined to 0.2 and 0.4, score filters lose nothing; features and URL mean what was given |
| `ScoringContention` | 1 POST, 2 DELETEs, 1 user, 2 outputs | 639 544 | answers durable, refusals clean, deletions final, sessions closed, `AuditTrail` implemented, every request ends |
| `ScoringIsolation` | 1 POST, 1 GET, 1 DELETE, 2 users, symmetry | 4 734 258 | ownership, isolation, real-time visibility, deactivated callers, the inductive invariant |
| `Lifespan` | 3 instances, 2 model versions | 526 496 | startup invariant, requests find the model, races harmless, `Platform` provided, the system heals |
| `History` | 2 listings, 2 rows, 2 clock readings, 5 queries, symmetry | 888 047 | pages are current, `total` is near, pages adjoin |
| `Accounts` | 2 registrations of 1 address, 1 login, 1 profile, 2 passwords | 364 812 | one account to an address, 201 durable and usable, tokens true, `Directory` implemented, every request ends |
| `Serving` | 3 API requests, 1 static, pool 1 + 1, symmetry | 1 082 700 | no connection lost, no wedge, answers and log name their request |
| `Portal` | 2 users, 2 decisions, 2 rows, 4 calls, page of 1, symmetry | 1 919 411 | the list is of its request, deletions show, only the first page is ever shown |

Runs that end in a violation, each against a sentence of the repository:

| Run | Sentence | What the code does |
|---|---|---|
| `ScoreNotAtomic` | `README.md:90` "guarantee zero orphan records or partial writes if a query fails mid-request" | the row is committed before `db.refresh`, and COMMIT can succeed unacknowledged: 500 and a record |
| `DeleteTwice` | `app/routers/scoring.py:291` "404 Not Found if missing or already deleted" | two concurrent DELETEs both answer 200, the second replaces `deleted_at` |
| `RiskExplained` | `app/schemas/scoring.py:305` "APPROVE (< 0.20), REVIEW (0.20–0.40), DENY (> 0.40)" | the decision is of the raw probability, the one returned is rounded: 0.19996 is APPROVE with 0.2 |
| `ReadyUnregistered` | `app/routers/health.py:46` "ready to serve traffic" | a failed registration is never repeated and not probed: 200, and no score can be stored |

**Bounds.** The requests of a run are its slots; outages, crashes and restarts may
recur without limit. In the scoring runs one POST suffices because rows never
interact: each action reads and writes the row of one key. Two DELETEs are the
least that contend for a lock and for `deleted_at`; a third adds no new pair. Two
users are the least for isolation. The outputs 19 996 and 40 004 (at ten grains)
are those whose stored and raw values fall on different sides of a threshold.
Four grains are the coarsest scale with ties and values strictly on either side
of them. In `Lifespan`, two instances of one version race and a third registers
another. Two rows are the least whose order and paging matter, two listings the
least that make two pages, two clock readings (`MaxNow`) the least that let rows
be in order, out of order or at one time. In `Accounts` two registrations race
for the index and `MaxNow` with `Lifetime` 1 lets a token be valid and expire. A
pool of one and one overflow has a connection to return and one to close, and
three requests can hold both and wait. Four calls (`MaxCalls`) let a profile
request, a list, a deletion and the list it brings overlap; a page limit of one
and two rows give a second page. Five tokens hold every spelling with a unit and
a half; longer spellings are added by name. `MaxDigits` 2 makes texts of three digits
too long for `int`, within those five tokens and in the spellings. The theorems of section 4 hold
without these bounds.

**Symmetry.** `ScoringIsolation`, `History`, `Serving` and `Portal` permute slots of
a kind, users or decisions, and check invariants only. The runs with liveness use
no symmetry.

**Deadlock** is checked wherever the environment can always act. In `History`,
`Accounts`, `Serving` and `Portal` all slots or calls may be used up, after which
nothing need happen: they say `CHECK_DEADLOCK FALSE`. That nobody is stuck before
that is `EveryRequestEnds` in `Accounts` and `PoolNeverWedges` in `Serving`.

**Fairness.** `Scoring`: weak fairness of `Serve(r)`, the steps of a request's
handler and of the database on its behalf, since the event loop runs every ready
coroutine and the database answers or its connection breaks. Nothing is assumed
of clients, nor that the database ever comes back: without it, requests end with
500. A worker thread is taken to return; `asyncio.to_thread` has no timeout, so a
`predict_proba` that never returns is out of the model. `Lifespan`: weak fairness
of `DbRecover` and `ComeUp(i)` (`restart: unless-stopped` in
`docker-compose.yml`; whoever stops an instance starts it or its successor), of
`Finish` (`EveryRequestEnds` of `Scoring`) and of `LifespanEnd`. `HealsItself`
speaks of behaviours whose disturbances end: the flag `calm` marks that moment
and restricts nothing else. `Accounts`: weak fairness of `Serve(r)`, on the grounds
given for `Scoring`. `History`, `Serving` and `Portal` state no fairness and check
safety only.

## 4. Proofs

`Scoring` (any sets of requests and users, any set of model outputs, any grain).
From the assumptions of the module (request kinds disjoint, the null values are
none of the values they stand beside), `IInv` is inductive:
- `TypeOK`;
- `PhaseInv`: what a program counter says of the session, its transaction and the
  caller's account. Without it nothing forbids a second commit of one POST;
- `RowInv`: a row exists exactly when its POST committed, and says what that POST
  decided;
- `DeleteInv`: a mark is by a DELETE of that row, sent by its owner, that has
  committed, and a committed DELETE has its row marked;
- `AnswerInv`: what each status says of the transaction and the row;
- `HistoryInv`: what `before` and `barred` record is still so.

`ScoringProofs` proves each part preserved by every action, and then, from
`IInv` alone, `TypeCorrect`, `Durability`, `RefusalsAreClean`, `DeletionIsOwned`,
`Isolation`, `DeletionIsFinal`, `CreationIsVisible`, `BarredIsBarred` and
`NoSessionLeaks`. `ScoringImplementsAuditTrail` shows that under the mapping
`TrailRows` only `DbCommit` changes the abstract table, by `Insert` or `Mark`.
`PlatformIsMet` says without `ENABLED` that `Scoring` takes every step of `Platform`:
given a step of the world, it names what becomes of the requests (`Follow`) and
shows that the two together are a step of `Scoring`. `IInv` is also an invariant of
`ScoringIsolation`.

`Lifespan` (any number of instances and versions). `StartupInv` says what each
phase implies of schema, pipeline, connection and registration, and is inductive
because `schema` and `model_versions` only grow; `ModelIsThere`, `RacesAreHarmless`
and `LifespanImplementsPlatform` follow.

`RiskDecision` (any grain). `Division` gives quotient and remainder;
`RoundingIsTight`, `FilterKeeps`, `Monotone` and `DisagreementIsAtThresholds` follow
by cases on the rounding and on the thresholds. `SweepProofs` carries two of
them over to the invariants of the sweep.

`FeatureParsing` and `DatabaseUrl` (any text of tokens, any date, a URL of any
length). The library's induction theorems take a predicate, which no prover here
instantiates; `SweepProofs` goes by a set of numbers instead: `WFMin` gives the
least member of a nonempty set (`LeastMember`), so a set that has 0 and the
successor of each member is `Nat` (`Induction`). `FoldExists` shows from it that the
recursion of a fold has a solution, hence that `FoldLeft` is one (`Solves`); the
fold's steps are then known facts, and more inductions say what it computes.
- `EverySpellingHasItsMonths` cuts a spelling at its units (`SplitAt`), strips what
  surrounds the numerals (`StripsTo`) and reads them, or raises for the one that is
  too long, whatever `MaxDigits` is; `EveryDurationMeansItsMonths` adds what holds of
  every other text, the ones that raise without a unit among them.
- `EveryDateMeansItsMonth`: by the five formats and the order they are tried in.
- `EveryUrlKeepsItsParameters`: what `Only` keeps of a sequence, in which order
  (`OnlyKeeps`), and at which piece the first ampersand becomes a question mark.
  Its hypothesis `PasswordFirst` is the shape of a URL, whose password stands before
  its parameters; a sequence of pieces in another order is no URL, and
  well-formedness means nothing there.
- `FeaturesMean` and `UrlKeeps` state the two invariants of the sweep, as instances
  of these.

`History` (any ids, listings, contents and queries). `HistoryInv` is inductive:
`TableInv` (what was live or deleted when a listing was sent is so, or deleted,
now), `CountOf` (between the statements, count and table differ only in rows that
`changed`) and `PageOf` (an answered page is a page of some order of the rows it
matched, and these still fit the query). `PagesAreCurrent`, `TotalIsNear` and
`PagesDoAdjoin` are read off `PageOf`; the last rests on lemmas that count the rows
before a given one: in an order without ties a row's position is the number of
newer rows, so offsets of two pages can be compared.

`Accounts` (any number of requests and addresses). `AccountsInv` is inductive;
the part that makes it so is `UniqueInv`: of the registrations of one address at
most one is committed or holds the index. `RegisteredCanLogIn` needs the history
variable `before`, and that `AnswerOf` keeps a login's token and its row together.
`AccountsImplementDirectory` is a refinement with `users`, the 201s, the tokens and the
profiles for the abstract state: `DbCommit` is `Register` (its guard, that no account
has the address, is `UniqueInv` and `RowInv`), `Refresh` is `Welcome`, `login` is `LogIn`,
`get_current_user` is `Show`, and everything else stutters. It needs, besides
`AccountsInv`, that a profile is shown once (`ShownLast`).

`Serving` (any requests, any pool). `PoolInv` balances the connections: created are
those idle, held or being opened; `LogInv` says what is answered and logged when.
`NoWedge` follows: with the queue empty and the limit reached, some request holds
a connection or is opening one, and it is not among those who wait.

`Portal` (any users, decisions, page size, numbers of calls and records).
`PortalInv` is inductive: besides `FirstPageOnly`, `CallInv` says whose rows an
answer holds and for whom a list under way asks, `ShownInv` that the table holds
such an answer, and `GoneInv` that a record whose deletion was acknowledged is
only in answers under way then. `ListIsOfItsRequest` and `GoneAfterDelete` alone
say nothing of answers still on their way, which the table shows later. The
handlers are first reduced to what they do to calls, page, table and `gone`
(`PageStep`), so that the invariant is shown once for all of them and once for
`Execute`.

Only model-checked: liveness (`EveryRequestEnds` of `Scoring` and of `Accounts`,
`HealsItself`), which needs fairness and `ENABLED`, out of the proof system's reach.
Every invariant and every action property of the passing runs is a theorem.

## 5. Abstractions

- A token is its subject; that a token is missing, altered or expired is a choice
  of `RefuseRequest`. A client that sends no request is not modelled.
- In the endpoint models the applicant's features are left out: validation, frame
  construction and inference may each fail, and an output is any member of
  `Probabilities`. `FeatureParsing` has the features that are parsed; the others
  are the validated fields. A probability is an exact multiple of a grain: `round`
  of a binary float may go the other way only at a decimal tie that binary cannot
  represent.
- `uuid4` is a name per POST: keys never collide.
- A database error while the database is up is a broken connection or a refusal
  of the statement; either ends the request with 500.
- Shutdown drains: the grace period of the container's runtime, after which it
  kills the process, is `Crash`.
- In `Scoring` and `Accounts` a checkout that waits for the pool in vain is one of the
  500s that a session's first statement, and `Refresh`, may end in at any time; the
  waiting, and that it ends, is in `Serving`, where every endpoint can go the ways
  the pool allows.
- `History` reduces POST and DELETE to their effect on the table, and a listing to
  the time after authentication, which reads another table. A decision in lower
  case stands for every spelling that `upper` changes.
- In `Accounts` an address is as `EmailStr` normalises it, the same for both
  endpoints, and a hash stands for its password.
- In `Portal` a call that the page no longer waits for may still be executed if it
  writes; a list's does not matter then. Records of other tabs appear through
  the initial `rows` only.
- In `FeatureParsing` two decimals stand for ten, one token for the digits that are
  no decimals, and one foreign character for all others; dates are numerals with a width, as `strptime` reads them.

## 6. Plan and what is left out

Done in this order: `RiskDecision`, `AuditTrail`, `Scoring` with its proofs,
`Platform`, `Lifespan` with its proofs, `History`, `Accounts` and `Serving` with
theirs, `Portal` with its proofs, `FeatureParsing`, `DatabaseUrl`, the proofs
of these two, and last `Directory` with its refinement.

Still worth doing: an abstract service of records with the endpoints' answers, as
`Directory` has those of accounts, for `Scoring` to refine.

**Not modelled**, and why:
- GET `/v1/model/info` reads a row that is never updated, or answers constants;
  `/health` answers a constant.
- `setup_logging` configures a library once, before anything runs.
- Argon2, PyJWT, pydantic's field checks, scikit-learn: libraries; what the code
  relies on is in the models that use them.
- The portal's presets, JSON editor, details dialog and health panel: they copy a
  value to the screen. `handleLoginSubmit` and `handleRegisterSubmit` are called by
  nothing; `login.html` and `register.html` have their own, in `LoadPage`.
- `scripts/train.py`, `scripts/download_data.py`: offline and sequential, on files;
  `scripts/verify_resilience.py`: a client that exercises the API.
- Tests, documents and deployment files: not part of the program; what they claim
  is what the runs of section 3 quote.
