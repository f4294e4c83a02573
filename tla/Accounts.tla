------------------------------ MODULE Accounts ------------------------------
(***************************************************************************)
(* Accounts and the tokens they are used with:                             *)
(*   POST /auth/register   register                                        *)
(*   POST /auth/login      login, create_access_token                      *)
(*   GET  /v1/users/me     get_current_user, get_my_profile                *)
(*                                                                         *)
(* register looks the address up, hashes the password and inserts: the     *)
(* unique index on users.email decides between two that passed the lookup. *)
(* Hashing and verifying run on the event loop itself, so no other request *)
(* of the process runs between a lookup's result and what follows it.      *)
(* Requests may be on several instances of the API: each can lose its      *)
(* process by itself.  Addresses are as EmailStr normalises them, for      *)
(* registration and login alike.  The id a registration draws (uuid4) is   *)
(* its slot; a hash stands for the password it was made from.              *)
(***************************************************************************)
EXTENDS Naturals

CONSTANTS Registrations,   \* POST /auth/register
          Logins,          \* POST /auth/login
          Profiles,        \* GET /v1/users/me
          Emails,
          Passwords,
          Lifetime,        \* ACCESS_TOKEN_EXPIRE_MINUTES, in ticks
          MaxNow,          \* bound on the clock
          Null

Requests == Registrations \cup Logins \cup Profiles

ASSUME SlotsAssumption ==
    /\ Registrations \cap Logins = {}
    /\ Registrations \cap Profiles = {}
    /\ Logins \cap Profiles = {}

ASSUME LifetimeAssumption == Lifetime \in Nat /\ MaxNow \in Nat

ASSUME NullAssumption ==
    /\ Null \notin Registrations \cup Logins \cup Emails \cup Passwords
    /\ Null \notin [email : Emails, password : Passwords, is_active : BOOLEAN]
    /\ Null \notin [sub : Registrations, exp : Nat]
    /\ Null \notin [sub : Registrations, email : Emails, password : Passwords]

User == [email : Emails, password : Passwords, is_active : BOOLEAN]
Token == [sub : Registrations, exp : Nat]

VARIABLES
    users,      \* the table, by the registration that inserted the row
    now,        \* the clock
    pc,         \* where a request is
    email,      \* what it was sent with; of a profile, nothing
    password,
    bearer,     \* the login whose token a profile request carries
    status,     \* the HTTP status it was answered with, 0 when it was not
    token,      \* what a login was answered with
    profile,    \* whose profile a profile request was answered with
    conn,       \* a registration's connection is alive
    tx,         \* its transaction, as the database sees it
    before,     \* history: the requests answered when this one was sent
    barred      \* history: when it was sent its account was inactive, or its token expired

dbVars == <<users, conn, tx>>
sentVars == <<email, password, bearer, before, barred>>
gotVars == <<status, token, profile>>
vars == <<users, now, pc, email, password, bearer, status, token, profile,
          conn, tx, before, barred>>

PC == {"idle", "decode", "lookup", "insert", "commit", "refresh", "done", "lost"}
TxState == {"none", "open", "committing", "committed", "rolledBack"}

InFlight(r) == pc[r] \notin {"idle", "done", "lost"}

-----------------------------------------------------------------------------
(* The table and its unique index.                                         *)

Abandon(t) == IF t = "open" THEN "rolledBack" ELSE t

Holders(e) == {id \in Registrations : users[id] # Null /\ users[id].email = e}

\* verify_password against the hash of the address's row.
Known(e, p) == {id \in Holders(e) : users[id].password = p}

\* Another transaction has inserted the address and is not over.
Pending(r) ==
    \E q \in Registrations \ {r} :
        /\ email[q] = email[r]
        /\ tx[q] = "committing" \/ (pc[q] = "commit" /\ tx[q] = "open")

\* The session of a request ends with its answer.
Reply(r, code) ==
    /\ pc' = [pc EXCEPT ![r] = "done"]
    /\ status' = [status EXCEPT ![r] = code]
    /\ conn' = [conn EXCEPT ![r] = FALSE]
    /\ tx' = [tx EXCEPT ![r] = Abandon(tx[r])]

Goto(r, label, alive) ==
    /\ pc' = [pc EXCEPT ![r] = label]
    /\ conn' = [conn EXCEPT ![r] = alive]

-----------------------------------------------------------------------------
(* Faulty variants of the definitions below.                               *)

\* No unique index.
InsertUser_NoIndex(r) ==
    /\ pc[r] = "insert"
    /\ \/ Reply(r, 500)
       \/ /\ conn[r]
          /\ Goto(r, "commit", TRUE)
          /\ tx' = [tx EXCEPT ![r] = "open"]
          /\ UNCHANGED status
    /\ UNCHANGED <<users, now, sentVars, token, profile>>

\* The loser of a race is told that it has registered.
InsertUser_Upsert(r) ==
    /\ pc[r] = "insert"
    /\ \/ ~conn[r] /\ Reply(r, 500)
       \/ conn[r] /\ Holders(email[r]) # {} /\ Reply(r, 201)
       \/ /\ conn[r] /\ Holders(email[r]) = {} /\ ~Pending(r)
          /\ Goto(r, "commit", TRUE)
          /\ tx' = [tx EXCEPT ![r] = "open"]
          /\ UNCHANGED status
    /\ UNCHANGED <<users, now, sentVars, token, profile>>

\* A broken connection is not noticed.
AfterCommit_WaitsForever(r) ==
    /\ pc[r] = "commit"
    /\ conn[r] /\ tx[r] = "committed"
    /\ Goto(r, "refresh", FALSE)
    /\ UNCHANGED <<users, now, sentVars, gotVars, tx>>

\* The check of is_active is left to later requests.
login_IgnoresInactive(r) ==
    /\ pc[r] = "lookup"
    /\ r \in Logins
    /\ LET known == Known(email[r], password[r])
       IN  \/ Reply(r, 500) /\ UNCHANGED token
           \/ known = {} /\ Reply(r, 401) /\ UNCHANGED token
           \/ \E id \in known :
                 /\ Reply(r, 200)
                 /\ token' = [token EXCEPT ![r] = [sub |-> id, exp |-> now + Lifetime]]
    /\ UNCHANGED <<users, now, sentVars, profile>>

\* The token is trusted: the account's row is only looked up for its profile.
get_current_user_TrustsToken(r) ==
    /\ pc[r] = "lookup"
    /\ r \in Profiles
    /\ LET id == token[bearer[r]].sub
       IN  \/ Reply(r, 500) /\ UNCHANGED profile
           \/ users[id] = Null /\ Reply(r, 401) /\ UNCHANGED profile
           \/ /\ users[id] # Null
              /\ Reply(r, 200)
              /\ profile' = [profile EXCEPT ![r] = id]
    /\ UNCHANGED <<users, now, sentVars, token>>

\* The answer does not wait for the commit.
AfterCommit_Optimistic(r) ==
    /\ pc[r] = "commit"
    /\ tx[r] \in {"committing", "committed"}
    /\ Goto(r, "refresh", FALSE)
    /\ UNCHANGED <<users, now, sentVars, gotVars, tx>>

-----------------------------------------------------------------------------
(* Registration.                                                           *)

\* A client sends credentials; what UserRegister refuses (a password shorter
\* than 8 or longer than 128 characters, no address) is 422 at once.
Register(r) ==
    /\ pc[r] = "idle"
    /\ r \in Registrations
    /\ \E e \in Emails, p \in Passwords :
          /\ email' = [email EXCEPT ![r] = e]
          /\ password' = [password EXCEPT ![r] = p]
    /\ before' = [before EXCEPT ![r] = {q \in Requests : status[q] # 0}]
    /\ \/ Reply(r, 422)
       \/ Goto(r, "lookup", FALSE) /\ UNCHANGED <<status, tx>>
    /\ UNCHANGED <<users, now, bearer, token, profile, barred>>

\* SELECT ... WHERE email: 409, or hash and go on to db.commit().
LookupEmail(r) ==
    /\ pc[r] = "lookup"
    /\ r \in Registrations
    /\ \/ Reply(r, 500)
       \/ Holders(email[r]) # {} /\ Reply(r, 409)
       \/ Holders(email[r]) = {} /\ Goto(r, "insert", TRUE) /\ UNCHANGED <<status, tx>>
    /\ UNCHANGED <<users, now, sentVars, token, profile>>

\* The INSERT: it waits for another transaction's row with the address, and
\* raises IntegrityError, which nothing handles, when that has committed.
InsertUser(r) ==
    /\ pc[r] = "insert"
    /\ \/ ~conn[r] /\ Reply(r, 500)
       \/ conn[r] /\ Holders(email[r]) # {} /\ Reply(r, 500)
       \/ /\ conn[r] /\ Holders(email[r]) = {} /\ ~Pending(r)
          /\ Goto(r, "commit", TRUE)
          /\ tx' = [tx EXCEPT ![r] = "open"]
          /\ UNCHANGED status
    /\ UNCHANGED <<users, now, sentVars, token, profile>>

SendCommit(r) ==
    /\ pc[r] = "commit"
    /\ conn[r] /\ tx[r] = "open"
    /\ tx' = [tx EXCEPT ![r] = "committing"]
    /\ UNCHANGED <<users, now, pc, sentVars, gotVars, conn>>

\* The database executes the COMMIT, or rolls back as it goes down.
DbCommit(r) ==
    /\ r \in Registrations
    /\ tx[r] = "committing"
    /\ \/ /\ tx' = [tx EXCEPT ![r] = "committed"]
          /\ users' = [users EXCEPT ![r] =
                [email |-> email[r], password |-> password[r], is_active |-> TRUE]]
          /\ UNCHANGED conn
       \/ /\ tx' = [tx EXCEPT ![r] = "rolledBack"]
          /\ conn' = [conn EXCEPT ![r] = FALSE]
          /\ UNCHANGED users
    /\ UNCHANGED <<now, pc, sentVars, gotVars>>

AfterCommit(r) ==
    /\ pc[r] = "commit"
    /\ \/ ~conn[r] /\ Reply(r, 500)
       \/ /\ conn[r] /\ tx[r] = "committed"
          /\ Goto(r, "refresh", FALSE)
          /\ UNCHANGED <<status, tx>>
    /\ UNCHANGED <<users, now, sentVars, token, profile>>

\* db.refresh(new_user), on another checkout.
Refresh(r) ==
    /\ pc[r] = "refresh"
    /\ Reply(r, 201) \/ Reply(r, 500)
    /\ UNCHANGED <<users, now, sentVars, token, profile>>

-----------------------------------------------------------------------------
(* Login and the use of a token.                                           *)

\* A login whose body UserLogin does not accept, so that it has no credentials.
RefuseLogin(r) ==
    /\ pc[r] = "idle"
    /\ r \in Logins
    /\ before' = [before EXCEPT ![r] = {q \in Requests : status[q] # 0}]
    /\ Reply(r, 422)
    /\ UNCHANGED <<users, now, email, password, bearer, barred, token, profile>>

\* Credentials are sent.
SendLogin(r) ==
    /\ pc[r] = "idle"
    /\ r \in Logins
    /\ \E e \in Emails, p \in Passwords :
          /\ email' = [email EXCEPT ![r] = e]
          /\ password' = [password EXCEPT ![r] = p]
          /\ barred' = [barred EXCEPT ![r] = \E id \in Known(e, p) : ~users[id].is_active]
    /\ before' = [before EXCEPT ![r] = {q \in Requests : status[q] # 0}]
    /\ pc' = [pc EXCEPT ![r] = "lookup"]
    /\ UNCHANGED <<dbVars, now, bearer, gotVars>>

\* The lookup and all that follows it: the password, then is_active, then
\* the token, which names the account and expires.
login(r) ==
    /\ pc[r] = "lookup"
    /\ r \in Logins
    /\ LET known == Known(email[r], password[r])
       IN  \/ Reply(r, 500) /\ UNCHANGED token
           \/ known = {} /\ Reply(r, 401) /\ UNCHANGED token
           \/ \E id \in known :
                 \/ ~users[id].is_active /\ Reply(r, 403) /\ UNCHANGED token
                 \/ /\ users[id].is_active
                    /\ Reply(r, 200)
                    /\ token' = [token EXCEPT ![r] = [sub |-> id, exp |-> now + Lifetime]]
    /\ UNCHANGED <<users, now, sentVars, profile>>

\* A request with the token of an answered login.
SendProfile(r) ==
    /\ pc[r] = "idle"
    /\ r \in Profiles
    /\ \E l \in Logins :
          /\ token[l] # Null
          /\ bearer' = [bearer EXCEPT ![r] = l]
          /\ barred' = [barred EXCEPT ![r] =
                token[l].exp <= now \/ ~users[token[l].sub].is_active]
    /\ before' = [before EXCEPT ![r] = {q \in Requests : status[q] # 0}]
    /\ pc' = [pc EXCEPT ![r] = "decode"]
    /\ UNCHANGED <<dbVars, now, email, password, gotVars>>

\* Expired, or on to the lookup.
decode_access_token(r) ==
    /\ pc[r] = "decode"
    /\ \/ token[bearer[r]].exp <= now /\ Reply(r, 401)
       \/ token[bearer[r]].exp > now /\ Goto(r, "lookup", FALSE) /\ UNCHANGED <<status, tx>>
    /\ UNCHANGED <<users, now, sentVars, token, profile>>

\* get_current_user from its SELECT on, and get_my_profile.
get_current_user(r) ==
    /\ pc[r] = "lookup"
    /\ r \in Profiles
    /\ LET id == token[bearer[r]].sub
       IN  \/ Reply(r, 500) /\ UNCHANGED profile
           \/ users[id] = Null /\ Reply(r, 401) /\ UNCHANGED profile
           \/ users[id] # Null /\ ~users[id].is_active /\ Reply(r, 403) /\ UNCHANGED profile
           \/ /\ users[id] # Null /\ users[id].is_active
              /\ Reply(r, 200)
              /\ profile' = [profile EXCEPT ![r] = id]
    /\ UNCHANGED <<users, now, sentVars, token>>

-----------------------------------------------------------------------------
(* The environment.                                                        *)

Tick ==
    /\ now < MaxNow
    /\ now' = now + 1
    /\ UNCHANGED <<dbVars, pc, sentVars, gotVars>>

\* An administrator clears is_active; no endpoint does.
Deactivate(id) ==
    /\ users[id] # Null /\ users[id].is_active
    /\ users' = [users EXCEPT ![id].is_active = FALSE]
    /\ UNCHANGED <<now, pc, sentVars, gotVars, conn, tx>>

DropConnection(r) ==
    /\ conn[r]
    /\ conn' = [conn EXCEPT ![r] = FALSE]
    /\ tx' = [tx EXCEPT ![r] = Abandon(tx[r])]
    /\ UNCHANGED <<users, now, pc, sentVars, gotVars>>

\* The process that serves a request dies.
Die(r) ==
    /\ InFlight(r)
    /\ Goto(r, "lost", FALSE)
    /\ tx' = [tx EXCEPT ![r] = Abandon(tx[r])]
    /\ UNCHANGED <<users, now, sentVars, gotVars>>

-----------------------------------------------------------------------------
Init ==
    /\ users = [id \in Registrations |-> Null]
    /\ now = 0
    /\ pc = [r \in Requests |-> "idle"]
    /\ email = [r \in Requests |-> Null]
    /\ password = [r \in Requests |-> Null]
    /\ bearer = [r \in Requests |-> Null]
    /\ status = [r \in Requests |-> 0]
    /\ token = [r \in Requests |-> Null]
    /\ profile = [r \in Requests |-> Null]
    /\ conn = [r \in Requests |-> FALSE]
    /\ tx = [r \in Requests |-> "none"]
    /\ before = [r \in Requests |-> {}]
    /\ barred = [r \in Requests |-> FALSE]

Send(r) == Register(r) \/ RefuseLogin(r) \/ SendLogin(r) \/ SendProfile(r)

Serve(r) ==
    \/ LookupEmail(r) \/ InsertUser(r) \/ SendCommit(r) \/ DbCommit(r) \/ AfterCommit(r) \/ Refresh(r)
    \/ login(r)
    \/ decode_access_token(r) \/ get_current_user(r)

Environment ==
    \/ Tick
    \/ \E id \in Registrations : Deactivate(id)
    \/ \E r \in Requests : DropConnection(r) \/ Die(r)

Next ==
    \/ \E r \in Requests : Send(r) \/ Serve(r)
    \/ Environment

Spec == Init /\ [][Next]_vars

FairSpec == Spec /\ \A r \in Requests : WF_vars(Serve(r))

-----------------------------------------------------------------------------
(* Properties.                                                             *)

TypeOK ==
    /\ users \in [Registrations -> User \cup {Null}]
    /\ now \in Nat
    /\ pc \in [Requests -> PC]
    /\ email \in [Requests -> Emails \cup {Null}]
    /\ password \in [Requests -> Passwords \cup {Null}]
    /\ bearer \in [Requests -> Logins \cup {Null}]
    /\ status \in [Requests -> {0, 200, 201, 401, 403, 409, 422, 500}]
    /\ token \in [Requests -> Token \cup {Null}]
    /\ profile \in [Requests -> Registrations \cup {Null}]
    /\ conn \in [Requests -> BOOLEAN]
    /\ tx \in [Requests -> TxState]
    /\ before \in [Requests -> SUBSET Requests]
    /\ barred \in [Requests -> BOOLEAN]

\* The transaction holds the address in the unique index.
HoldsIndex(r) == tx[r] = "committing" \/ (pc[r] = "commit" /\ tx[r] = "open")

\* What a program counter says of the transaction, and who sends what.
PhaseOf(r) ==
    /\ pc[r] = "idle" => ~barred[r]
    /\ tx[r] # "none" => r \in Registrations
    /\ pc[r] \in {"idle", "decode", "lookup", "insert"} => tx[r] = "none" /\ status[r] = 0
    /\ pc[r] \in {"insert", "commit", "refresh"} => r \in Registrations
    /\ pc[r] \in {"commit", "lost", "refresh"} => status[r] = 0
    /\ tx[r] = "open" => pc[r] = "commit"
    /\ pc[r] = "refresh" \/ status[r] = 201 => tx[r] = "committed"
    /\ status[r] \in {409, 422} => tx[r] = "none"
    /\ pc[r] = "decode" => r \in Profiles
    /\ r \in Registrations /\ pc[r] # "idle" => email[r] \in Emails /\ password[r] \in Passwords
    /\ r \in Logins /\ pc[r] # "idle" /\ status[r] # 422 =>
          email[r] \in Emails /\ password[r] \in Passwords
    /\ r \in Profiles /\ pc[r] # "idle" => bearer[r] \in Logins /\ token[bearer[r]] # Null

PhaseInv == \A r \in Requests : PhaseOf(r)

\* A row is what its registration sent, and there when it committed.
RowInv ==
    \A id \in Registrations :
        /\ users[id] # Null <=> tx[id] = "committed"
        /\ users[id] # Null => users[id].email = email[id] /\ users[id].password = password[id]

\* One account to an address: at most one transaction that has it in the
\* index or has committed it.
UniqueInv ==
    \A q, r \in Registrations :
        /\ HoldsIndex(q) \/ tx[q] = "committed"
        /\ HoldsIndex(r) \/ tx[r] = "committed"
        /\ email[q] = email[r]
        => q = r

\* What the answers say is still so.
AnswerOf(r) ==
    /\ status[r] = 201 => r \in Registrations
    /\ status[r] = 409 => r \in Registrations /\ Holders(email[r]) # {}
    /\ token[r] # Null <=> r \in Logins /\ status[r] = 200
    /\ token[r] # Null =>
          /\ token[r].sub \in Known(email[r], password[r])
          /\ ~barred[r]
    /\ r \in Profiles /\ status[r] = 200 => profile[r] = token[bearer[r]].sub /\ ~barred[r]
    /\ r \in Profiles /\ barred[r] =>
          token[bearer[r]].exp <= now \/ ~users[token[bearer[r]].sub].is_active
    /\ r \in Logins /\ barred[r] =>
          \E id \in Known(email[r], password[r]) : ~users[id].is_active
    /\ r \in Profiles /\ barred[r] /\ pc[r] = "lookup" =>
          ~users[token[bearer[r]].sub].is_active
    /\ \A q \in before[r] : status[q] # 0

AnswerInv == \A r \in Requests : AnswerOf(r)

AccountsInv == TypeOK /\ PhaseInv /\ RowInv /\ UniqueInv /\ AnswerInv

\* A 201 is durable: whatever happens later, the row is there with the
\* address and the password that were sent, and no other registration of the
\* address has been or will be answered 201.  A 409 or 422 left nothing, and
\* 409 was answered because another registration has the address.
RegistrationIsDurable ==
    \A r \in Registrations :
        /\ status[r] = 201 =>
              /\ users[r] # Null
              /\ users[r].email = email[r] /\ users[r].password = password[r]
              /\ \A q \in Registrations \ {r} : email[q] = email[r] => users[q] = Null
        /\ status[r] \in {409, 422} => users[r] = Null /\ tx[r] # "committing"
        /\ status[r] = 409 => \E q \in Registrations : users[q] # Null /\ users[q].email = email[r]

\* A token names the one account with the address and the password of its
\* login; a profile is that of the account whose credentials were used; and
\* neither an account that was inactive nor a token that had expired when
\* the request was sent gets a 200.
TokensNameTheirAccount ==
    /\ \A l \in Logins : status[l] = 200 =>
          /\ Known(email[l], password[l]) = {token[l].sub}
          /\ ~barred[l]
    /\ \A r \in Profiles : status[r] = 200 =>
          /\ users[profile[r]].email = email[bearer[r]]
          /\ users[profile[r]].password = password[bearer[r]]
          /\ ~barred[r]

\* Who was told 201 can log in from then on: the credentials are refused with
\* 401 never, and with 403 only once the account has been deactivated.
RegisteredCanLogIn ==
    \A l \in Logins, r \in Registrations :
        (r \in before[l] /\ status[r] = 201 /\ email[l] = email[r] /\ password[l] = password[r])
            => /\ status[l] # 401
               /\ status[l] = 403 => ~users[r].is_active

\* Register, login and profile are, for all their statements, waits and
\* failures, what Directory says of them in one step each.
Service == INSTANCE Directory WITH
    accounts <- users,
    welcomed <- {r \in Registrations : status[r] = 201},
    sessions <- [l \in Logins |->
                    IF token[l] = Null THEN Null
                    ELSE [sub |-> token[l].sub, email |-> email[l], password |-> password[l]]],
    shown <- [p \in Profiles |-> profile[p]]

ImplementsDirectory == Service!Spec

\* A registration that waits for the index entry of another transaction, or
\* for an acknowledgement, is answered all the same.
EveryRequestEnds ==
    \A r \in Requests : InFlight(r) ~> ~InFlight(r)
=============================================================================
