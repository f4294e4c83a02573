--------------------------- MODULE AccountsProofs ---------------------------
(***************************************************************************)
(* Accounts for any number of requests, addresses and passwords.           *)
(* AccountsInv is inductive, part by part: types, what a program counter   *)
(* says (PhaseInv), rows and transactions (RowInv), the unique index       *)
(* (UniqueInv) and what answers say (AnswerInv).                           *)
(***************************************************************************)
EXTENDS Accounts, TLAPS

\* Null is none of the values.
LEMMA Distinct ==
    /\ Null \notin Registrations /\ Null \notin Logins /\ Null \notin Emails
    /\ Null \notin Passwords /\ Null \notin User /\ Null \notin Token
BY NullAssumption DEF User, Token

\* The statuses the actions write.
Statuses == {0, 200, 201, 401, 403, 409, 422, 500}

\* The part of the type invariant that replies and moves are about.
FlowTypes ==
    /\ pc \in [Requests -> PC]
    /\ status \in [Requests -> Statuses]
    /\ conn \in [Requests -> BOOLEAN]
    /\ tx \in [Requests -> TxState]

\* The values are in range.
LEMMA Ranges ==
    /\ \A c \in {200, 201, 401, 403, 409, 422, 500} : c \in Statuses /\ c # 0
    /\ \A p \in {"decode", "lookup", "insert", "commit", "refresh", "done", "lost"} : p \in PC
    /\ \A t \in {"none", "open", "committing", "committed", "rolledBack"} : t \in TxState
    /\ \A t \in TxState : Abandon(t) \in TxState
BY DEF Statuses, PC, TxState, Abandon

LEMMA ReplyTypes ==
    ASSUME FlowTypes, NEW r \in Requests, NEW code \in Statuses, Reply(r, code)
    PROVE  FlowTypes'
<1>1. "done" \in PC /\ Abandon(tx[r]) \in TxState
  BY Ranges DEF FlowTypes
<1> QED
  BY <1>1 DEF FlowTypes, Reply

LEMMA GotoTypes ==
    ASSUME FlowTypes, NEW r \in Requests, NEW label \in PC, NEW alive \in BOOLEAN, NEW t \in TxState,
           Goto(r, label, alive), UNCHANGED status,
           UNCHANGED tx \/ tx' = [tx EXCEPT ![r] = t]
    PROVE  FlowTypes'
BY DEF FlowTypes, Goto

LEMMA FlowStep ==
    ASSUME TypeOK, NEW r \in Requests, Send(r) \/ Serve(r) \/ DropConnection(r) \/ Die(r)
    PROVE  FlowTypes'
<1>1. FlowTypes
  BY DEF TypeOK, FlowTypes, Statuses
<1>2. Abandon(tx[r]) \in TxState
  BY <1>1, Ranges DEF FlowTypes
<1> DEFINE Jump ==
      \/ \E code \in Statuses : Reply(r, code)
      \/ \E label \in PC, alive \in BOOLEAN, t \in TxState :
            /\ Goto(r, label, alive) /\ UNCHANGED status
            /\ UNCHANGED tx \/ tx' = [tx EXCEPT ![r] = t]
<1>3. Jump => FlowTypes'
  BY <1>1, ReplyTypes, GotoTypes
<1>4. ASSUME NEW code \in Statuses, Reply(r, code)
      PROVE  FlowTypes'
  BY <1>3, <1>4
<1>5. ASSUME NEW label \in PC, NEW alive \in BOOLEAN, NEW t \in TxState,
             Goto(r, label, alive), UNCHANGED status,
             UNCHANGED tx \/ tx' = [tx EXCEPT ![r] = t]
      PROVE  FlowTypes'
  BY <1>1, <1>5, GotoTypes
<1> HIDE DEF Jump
<1>6. CASE Register(r)
  BY <1>4, <1>5, <1>6, Ranges, ZenonT(60) DEF Register
<1>7. CASE LookupEmail(r)
  <2>1. CASE Goto(r, "insert", TRUE) /\ UNCHANGED <<status, tx>>
    BY <1>5, <2>1, Ranges, ZenonT(60)
  <2>2. CASE Reply(r, 500) \/ Reply(r, 409)
    BY <1>4, <2>2, Ranges
  <2> QED
    BY <1>7, <2>1, <2>2 DEF LookupEmail
<1>8. CASE InsertUser(r)
  BY <1>4, <1>5, <1>8, Ranges, ZenonT(60) DEF InsertUser
<1>9. CASE AfterCommit(r)
  BY <1>4, <1>5, <1>9, Ranges, ZenonT(60) DEF AfterCommit
<1>10. CASE Refresh(r)
  BY <1>4, <1>10, Ranges DEF Refresh
<1>11. CASE login(r)
  BY <1>4, <1>11, Ranges DEF login
<1>12. CASE decode_access_token(r)
  BY <1>4, <1>5, <1>12, Ranges, ZenonT(60) DEF decode_access_token
<1>13. CASE get_current_user(r)
  BY <1>4, <1>13, Ranges DEF get_current_user
<1>14. CASE Die(r)
  BY <1>2, <1>5, <1>14, Ranges, ZenonT(60) DEF Die, sentVars, gotVars
<1>15. CASE SendLogin(r) \/ SendProfile(r)
  BY <1>1, <1>15, Ranges DEF FlowTypes, SendLogin, SendProfile, dbVars, gotVars
<1>16. CASE SendCommit(r)
  BY <1>1, <1>16, Ranges DEF FlowTypes, SendCommit, sentVars, gotVars
<1>17. CASE DbCommit(r)
  <2>1. /\ \E t \in TxState : tx' = [tx EXCEPT ![r] = t]
        /\ UNCHANGED conn \/ conn' = [conn EXCEPT ![r] = FALSE]
    BY <1>17, Ranges DEF DbCommit
  <2> QED
    BY <1>1, <1>17, <2>1 DEF FlowTypes, DbCommit, sentVars, gotVars
<1>18. CASE DropConnection(r)
  BY <1>1, <1>2, <1>18 DEF FlowTypes, DropConnection, sentVars, gotVars
<1>19. CASE RefuseLogin(r)
  BY <1>4, <1>19, Ranges DEF RefuseLogin
<1> QED
  BY <1>6, <1>7, <1>8, <1>9, <1>10, <1>11, <1>12, <1>13, <1>14, <1>15, <1>16, <1>17, <1>18,
     <1>19 DEF Send, Serve

\* Only a request that is sent changes what it was sent with.
LEMMA SentOnce ==
    ASSUME NEW r \in Requests, Serve(r) \/ DropConnection(r) \/ Die(r)
    PROVE  UNCHANGED <<email, password, bearer, before, barred>>
BY DEF Serve, LookupEmail, InsertUser, SendCommit, DbCommit, AfterCommit, Refresh, login,
       decode_access_token, get_current_user, DropConnection, Die, sentVars

\* Types are kept by every step of a request.
LEMMA TypeStep ==
    ASSUME AccountsInv, NEW r \in Requests, Send(r) \/ Serve(r) \/ DropConnection(r) \/ Die(r)
    PROVE  TypeOK'
<1> USE DEF sentVars, gotVars, dbVars
<1>1. TypeOK
  BY DEF AccountsInv
<1>2. FlowTypes'
  BY <1>1, FlowStep
<1>3. users' \in [Registrations -> User \cup {Null}]
  <2>1. CASE DbCommit(r)
    <3>1. r \in Registrations /\ pc[r] # "idle"
      BY <2>1 DEF DbCommit, AccountsInv, PhaseInv, PhaseOf
    <3>2. email[r] \in Emails /\ password[r] \in Passwords
      BY <3>1 DEF AccountsInv, PhaseInv, PhaseOf
    <3>3. [email |-> email[r], password |-> password[r], is_active |-> TRUE] \in User
      BY <3>2 DEF User
    <3>4. \/ UNCHANGED users
          \/ users' = [users EXCEPT ![r] =
                [email |-> email[r], password |-> password[r], is_active |-> TRUE]]
      BY <2>1 DEF DbCommit
    <3>5. users \in [Registrations -> User \cup {Null}]
      BY <1>1 DEF TypeOK
    <3> HIDE DEF User
    <3> QED
      BY <3>1, <3>3, <3>4, <3>5
  <2>2. CASE ~DbCommit(r)
    <3>1. users' = users
      BY <2>2 DEF Send, Serve, Register, LookupEmail, InsertUser, SendCommit, AfterCommit, Refresh,
                  RefuseLogin, SendLogin, SendProfile, login, decode_access_token, get_current_user,
                  DropConnection, Die
    <3> QED
      BY <1>1, <3>1 DEF TypeOK
  <2> QED
    BY <2>1, <2>2
<1>4. now' \in Nat
  BY <1>1, ZenonT(60) DEF TypeOK, Send, Serve, Register, LookupEmail, InsertUser, SendCommit, DbCommit, AfterCommit,
              Refresh, RefuseLogin, SendLogin, SendProfile, login, decode_access_token, get_current_user,
              DropConnection, Die
<1>5. /\ email' \in [Requests -> Emails \cup {Null}] /\ password' \in [Requests -> Passwords \cup {Null}]
      /\ bearer' \in [Requests -> Logins \cup {Null}]
      /\ before' \in [Requests -> SUBSET Requests] /\ barred' \in [Requests -> BOOLEAN]
  <2>1. CASE Register(r)
    BY <1>1, <2>1 DEF TypeOK, Register
  <2>2. CASE SendLogin(r)
    <3>1. PICK e \in Emails, p \in Passwords :
             /\ email' = [email EXCEPT ![r] = e]
             /\ password' = [password EXCEPT ![r] = p]
             /\ barred' = [barred EXCEPT ![r] = \E id \in Known(e, p) : ~users[id].is_active]
      BY <2>2 DEF SendLogin
    <3>2. (\E id \in Known(e, p) : ~users[id].is_active) \in BOOLEAN
      OBVIOUS
    <3>3. barred' \in [Requests -> BOOLEAN]
      BY <1>1, <3>1, <3>2 DEF TypeOK
    <3> QED
      BY <1>1, <2>2, <3>1, <3>3 DEF TypeOK, SendLogin
  <2>3. CASE SendProfile(r)
    <3>1. PICK l \in Logins :
             /\ bearer' = [bearer EXCEPT ![r] = l]
             /\ barred' = [barred EXCEPT ![r] = token[l].exp <= now \/ ~users[token[l].sub].is_active]
      BY <2>3 DEF SendProfile
    <3> QED
      BY <1>1, <2>3, <3>1 DEF TypeOK, SendProfile
  <2>4. CASE RefuseLogin(r)
    BY <1>1, <2>4 DEF TypeOK, RefuseLogin
  <2>5. CASE ~Send(r)
    BY <1>1, <2>5, SentOnce DEF TypeOK
  <2> QED
    BY <2>1, <2>2, <2>3, <2>4, <2>5 DEF Send
<1>6. token' \in [Requests -> Token \cup {Null}]
  <2>1. CASE login(r)
    <3>1. UNCHANGED token \/ \E id \in Registrations :
             token' = [token EXCEPT ![r] = [sub |-> id, exp |-> now + Lifetime]]
      BY <2>1 DEF login, Known, Holders
    <3>2. now + Lifetime \in Nat
      BY <1>1, LifetimeAssumption DEF TypeOK
    <3> QED
      BY <1>1, <3>1, <3>2 DEF TypeOK, Token
  <2>2. CASE ~login(r)
    BY <1>1, <2>2 DEF TypeOK, Send, Serve, Register, LookupEmail, InsertUser, SendCommit, DbCommit,
              AfterCommit, Refresh, RefuseLogin, SendLogin, SendProfile, decode_access_token, get_current_user,
              DropConnection, Die
  <2> QED
    BY <2>1, <2>2
<1>7. profile' \in [Requests -> Registrations \cup {Null}]
  <2>1. CASE get_current_user(r)
    <3>1. token[bearer[r]] \in Token
      BY <1>1, <2>1 DEF get_current_user, AccountsInv, PhaseInv, PhaseOf, TypeOK, Requests
    <3>2. token[bearer[r]].sub \in Registrations
      BY <3>1 DEF Token
    <3> QED
      BY <1>1, <2>1, <3>2 DEF TypeOK, get_current_user
  <2>2. CASE ~get_current_user(r)
    BY <1>1, <2>2 DEF TypeOK, Send, Serve, Register, LookupEmail, InsertUser, SendCommit, DbCommit,
              AfterCommit, Refresh, RefuseLogin, SendLogin, SendProfile, decode_access_token, login,
              DropConnection, Die
  <2> QED
    BY <2>1, <2>2
<1> QED
  BY <1>2, <1>3, <1>4, <1>5, <1>6, <1>7 DEF FlowTypes, TypeOK, Statuses

-----------------------------------------------------------------------------
(* What a step of one request leaves alone.                                *)

\* Another request.
Same(q) ==
    /\ pc'[q] = pc[q] /\ status'[q] = status[q] /\ conn'[q] = conn[q] /\ tx'[q] = tx[q]
    /\ email'[q] = email[q] /\ password'[q] = password[q] /\ bearer'[q] = bearer[q]
    /\ token'[q] = token[q] /\ profile'[q] = profile[q]
    /\ before'[q] = before[q] /\ barred'[q] = barred[q]

LEMMA Frame ==
    ASSUME TypeOK, NEW r \in Requests, Send(r) \/ Serve(r) \/ DropConnection(r) \/ Die(r),
           NEW q \in Requests, q # r
    PROVE  Same(q)
<1> USE DEF Same, sentVars, gotVars, dbVars
<1>1. ASSUME NEW code, Reply(r, code)
      PROVE  pc'[q] = pc[q] /\ status'[q] = status[q] /\ conn'[q] = conn[q] /\ tx'[q] = tx[q]
  BY <1>1 DEF Reply, TypeOK
<1>2. ASSUME NEW label, NEW alive, Goto(r, label, alive)
      PROVE  pc'[q] = pc[q] /\ conn'[q] = conn[q]
  BY <1>2 DEF Goto, TypeOK
<1>3. CASE Register(r)
  <2>1. pc'[q] = pc[q] /\ status'[q] = status[q] /\ conn'[q] = conn[q] /\ tx'[q] = tx[q]
    <3>1. CASE Reply(r, 422)
      BY <1>1, <3>1
    <3>2. CASE Goto(r, "lookup", FALSE) /\ UNCHANGED <<status, tx>>
      BY <3>2 DEF Goto, TypeOK
    <3> QED
      BY <1>3, <3>1, <3>2 DEF Register
  <2>2. PICK e \in Emails, p \in Passwords, b \in SUBSET Requests :
           /\ email' = [email EXCEPT ![r] = e] /\ password' = [password EXCEPT ![r] = p]
           /\ before' = [before EXCEPT ![r] = b]
    BY <1>3 DEF Register
  <2> QED
    BY <1>3, <2>1, <2>2 DEF Register, TypeOK
<1>4. CASE LookupEmail(r)
  <2>1. CASE Reply(r, 500) \/ Reply(r, 409)
    BY <1>1, <1>4, <2>1 DEF LookupEmail
  <2>2. CASE Goto(r, "insert", TRUE) /\ UNCHANGED <<status, tx>>
    BY <1>2, <1>4, <2>2 DEF LookupEmail
  <2> QED
    BY <1>4, <2>1, <2>2 DEF LookupEmail
<1>5. CASE InsertUser(r)
  <2>1. CASE Reply(r, 500)
    BY <1>1, <1>5, <2>1 DEF InsertUser
  <2>2. CASE Goto(r, "commit", TRUE) /\ tx' = [tx EXCEPT ![r] = "open"] /\ UNCHANGED status
    BY <1>5, <2>2 DEF InsertUser, Goto, TypeOK
  <2> QED
    BY <1>5, <2>1, <2>2 DEF InsertUser
<1>6. CASE SendCommit(r) \/ DropConnection(r)
  BY <1>6 DEF SendCommit, DropConnection, TypeOK
<1>7. CASE DbCommit(r)
  <2>1. /\ \E t \in TxState : tx' = [tx EXCEPT ![r] = t]
        /\ UNCHANGED conn \/ conn' = [conn EXCEPT ![r] = FALSE]
    BY <1>7, Ranges DEF DbCommit
  <2> QED
    BY <1>7, <2>1 DEF DbCommit, TypeOK
<1>8. CASE AfterCommit(r) \/ Refresh(r)
  BY <1>1, <1>2, <1>8, ZenonT(60) DEF AfterCommit, Refresh, TypeOK
<1>9. CASE login(r)
  <2>1. UNCHANGED token \/ \E t : token' = [token EXCEPT ![r] = t]
    BY <1>9 DEF login
  <2>2. token'[q] = token[q]
    BY <2>1 DEF TypeOK
  <2>3. \E code : Reply(r, code)
    BY <1>9 DEF login
  <2> QED
    BY <1>1, <1>9, <2>2, <2>3 DEF login
<1>10. CASE decode_access_token(r)
  BY <1>1, <1>2, <1>10, ZenonT(60) DEF decode_access_token, TypeOK
<1>11. CASE get_current_user(r)
  <2>1. (UNCHANGED profile \/ \E t : profile' = [profile EXCEPT ![r] = t]) /\ \E code : Reply(r, code)
    BY <1>11 DEF get_current_user
  <2> QED
    BY <1>1, <1>11, <2>1 DEF get_current_user, TypeOK
<1>12. CASE Die(r)
  BY <1>2, <1>12, ZenonT(60) DEF Die, TypeOK
<1>13. CASE SendLogin(r)
  <2>1. PICK e \in Emails, p \in Passwords :
             /\ email' = [email EXCEPT ![r] = e] /\ password' = [password EXCEPT ![r] = p]
             /\ barred' = [barred EXCEPT ![r] = \E id \in Known(e, p) : ~users[id].is_active]
    BY <1>13 DEF SendLogin
  <2> QED
    BY <1>13, <2>1 DEF SendLogin, TypeOK
<1>14. CASE SendProfile(r)
  <2>1. PICK l, b : bearer' = [bearer EXCEPT ![r] = l] /\ barred' = [barred EXCEPT ![r] = b]
    BY <1>14 DEF SendProfile
  <2> QED
    BY <1>14, <2>1 DEF SendProfile, TypeOK
<1>15. CASE RefuseLogin(r)
  BY <1>1, <1>15 DEF RefuseLogin, TypeOK
<1> QED
  BY <1>3, <1>4, <1>5, <1>6, <1>7, <1>8, <1>9, <1>10, <1>11, <1>12, <1>13, <1>14, <1>15 DEF Send, Serve

\* Only a commit adds a row.
LEMMA RowsStay ==
    ASSUME NEW r \in Requests, Send(r) \/ Serve(r) \/ DropConnection(r) \/ Die(r), ~DbCommit(r)
    PROVE  users' = users /\ now' = now
BY DEF Send, Serve, Register, LookupEmail, InsertUser, SendCommit, AfterCommit, Refresh,
       RefuseLogin, SendLogin, SendProfile, login, decode_access_token, get_current_user, DropConnection, Die,
       dbVars

\* What a commit does.
LEMMA CommitStep ==
    ASSUME AccountsInv, NEW r \in Requests, DbCommit(r)
    PROVE  /\ r \in Registrations /\ tx[r] = "committing" /\ users[r] = Null
           /\ UNCHANGED <<now, pc, email, password, bearer, status, token, profile, before, barred>>
           /\ \/ tx'[r] = "rolledBack" /\ users' = users
              \/ /\ tx'[r] = "committed"
                 /\ users' = [users EXCEPT ![r] =
                       [email |-> email[r], password |-> password[r], is_active |-> TRUE]]
<1>1. r \in Registrations /\ tx[r] = "committing" /\ tx \in [Requests -> TxState]
  BY DEF DbCommit, AccountsInv, TypeOK
<1>2. users[r] = Null
  BY <1>1 DEF AccountsInv, RowInv
<1> QED
  BY <1>1, <1>2 DEF DbCommit, sentVars, gotVars

-----------------------------------------------------------------------------
(* What no step takes back.                                                *)

Stays ==
    /\ \A id \in Registrations : users[id] # Null =>
          /\ users'[id] # Null
          /\ users'[id].email = users[id].email /\ users'[id].password = users[id].password
          /\ ~users[id].is_active => ~users'[id].is_active
    /\ \A q \in Requests : status[q] # 0 => status'[q] = status[q] /\ profile'[q] = profile[q]
    /\ \A q \in Requests : pc[q] # "idle" =>
          /\ email'[q] = email[q] /\ password'[q] = password[q] /\ bearer'[q] = bearer[q]
          /\ before'[q] = before[q] /\ barred'[q] = barred[q]
    /\ \A q \in Requests : token[q] # Null => token'[q] = token[q]
    /\ now' \in Nat /\ now <= now'

\* An answered request is done.
LEMMA AnsweredIsDone ==
    ASSUME AccountsInv, NEW r \in Requests, status[r] # 0
    PROVE  pc[r] = "done"
<1>1. pc[r] \in PC /\ PhaseOf(r)
  BY DEF AccountsInv, TypeOK, PhaseInv
<1> QED
  BY <1>1 DEF PhaseOf, PC

\* Only a request that is being served is answered, and only an idle one is sent.
LEMMA StepOfLive ==
    ASSUME NEW r \in Requests, Send(r) \/ Serve(r) \/ DropConnection(r) \/ Die(r)
    PROVE  /\ pc[r] # "done" \/ UNCHANGED <<status, token, profile>>
           /\ pc[r] = "idle" \/ UNCHANGED <<email, password, bearer, before, barred>>
<1>1. CASE Send(r)
  BY <1>1 DEF Send, Register, RefuseLogin, SendLogin, SendProfile
<1>2. CASE Serve(r) \/ DropConnection(r) \/ Die(r)
  <2>1. UNCHANGED <<email, password, bearer, before, barred>>
    BY <1>2, SentOnce
  <2> QED
    BY <1>2, <2>1 DEF Serve, LookupEmail, InsertUser, SendCommit, DbCommit, AfterCommit, Refresh, login,
           decode_access_token, get_current_user, DropConnection, Die, gotVars
<1> QED
  BY <1>1, <1>2

LEMMA StaysStep ==
    ASSUME AccountsInv, NEW r \in Requests, Send(r) \/ Serve(r) \/ DropConnection(r) \/ Die(r)
    PROVE  Stays
<1>1. TypeOK
  BY DEF AccountsInv
<1>2. \A id \in Registrations : users[id] # Null => users'[id] = users[id]
  <2>1. CASE DbCommit(r)
    BY <1>1, <2>1, CommitStep DEF TypeOK
  <2> QED
    BY <2>1, RowsStay
<1>3. now' = now /\ now \in Nat
  BY <1>1, CommitStep, RowsStay DEF TypeOK
<1>4. ASSUME NEW q \in Requests
      PROVE  /\ status[q] # 0 => status'[q] = status[q] /\ profile'[q] = profile[q]
             /\ pc[q] # "idle" =>
                  /\ email'[q] = email[q] /\ password'[q] = password[q] /\ bearer'[q] = bearer[q]
                  /\ before'[q] = before[q] /\ barred'[q] = barred[q]
             /\ token[q] # Null => token'[q] = token[q]
  <2>1. CASE q # r
    BY <1>1, <2>1, Frame DEF Same
  <2>2. CASE q = r
    <3>1. token[q] # Null => status[q] # 0
      BY DEF AccountsInv, AnswerInv, AnswerOf
    <3>2. status[q] # 0 => pc[q] = "done"
      BY AnsweredIsDone
    <3> QED
      BY <2>2, <3>1, <3>2, StepOfLive
  <2> QED
    BY <2>1, <2>2
<1> QED
  BY <1>2, <1>3, <1>4 DEF Stays

\* The environment's steps on nobody's behalf.
LEMMA EnvironmentStays ==
    ASSUME AccountsInv, Tick \/ (\E id \in Registrations : Deactivate(id))
    PROVE  /\ Stays
           /\ UNCHANGED <<pc, email, password, bearer, status, token, profile, conn, tx, before, barred>>
           /\ \A id \in Registrations : users'[id] # Null <=> users[id] # Null
           /\ TypeOK'
<1>1. TypeOK
  BY DEF AccountsInv
<1>2. CASE Tick
  BY <1>1, <1>2 DEF Tick, Stays, TypeOK, dbVars, sentVars, gotVars
<1>3. ASSUME NEW id \in Registrations, Deactivate(id)
      PROVE  /\ \A jd \in Registrations : users[jd] # Null =>
                  /\ users'[jd] # Null
                  /\ users'[jd].email = users[jd].email /\ users'[jd].password = users[jd].password
                  /\ ~users[jd].is_active => ~users'[jd].is_active
             /\ \A jd \in Registrations : users'[jd] # Null => users[jd] # Null
             /\ users' \in [Registrations -> User \cup {Null}]
  <2>1. users[id] \in User /\ users \in [Registrations -> User \cup {Null}]
    BY <1>1, <1>3 DEF Deactivate, TypeOK
  <2>2. PICK row : /\ row = [users[id] EXCEPT !.is_active = FALSE]
                   /\ users' = [users EXCEPT ![id] = row]
    BY <1>3 DEF Deactivate
  <2>3. row \in User /\ row.email = users[id].email /\ row.password = users[id].password /\ ~row.is_active
    BY <2>1, <2>2 DEF User
  <2> HIDE DEF User
  <2> QED
    BY <2>1, <2>2, <2>3, Distinct
<1>4. CASE \E id \in Registrations : Deactivate(id)
  <2>1. UNCHANGED <<now, pc, email, password, bearer, status, token, profile, conn, tx, before, barred>>
    BY <1>4 DEF Deactivate, sentVars, gotVars
  <2>2. now \in Nat
    BY <1>1 DEF TypeOK
  <2> QED
    BY <1>1, <1>3, <1>4, <2>1, <2>2 DEF Stays, TypeOK
<1> QED
  BY <1>2, <1>4

-----------------------------------------------------------------------------
(* The parts of the invariant, kept by the steps of a request.             *)

\* The transaction of the request that moves.
LEMMA TxStep ==
    ASSUME AccountsInv, NEW r \in Requests, Send(r) \/ Serve(r) \/ DropConnection(r) \/ Die(r)
    PROVE  /\ ~DbCommit(r) => (tx'[r] = "committed" <=> tx[r] = "committed")
           /\ tx'[r] \in {"open", "committing", "committed"} =>
                \/ tx[r] \in {"open", "committing", "committed"}
                \/ InsertUser(r) /\ Holders(email[r]) = {} /\ ~Pending(r)
<1> USE DEF sentVars, gotVars, dbVars, Abandon, Reply, Goto
<1>1. TypeOK /\ PhaseOf(r)
  BY DEF AccountsInv, PhaseInv
<1>2. CASE Send(r)
  BY <1>1, <1>2 DEF Send, Register, RefuseLogin, SendLogin, SendProfile, TypeOK, PhaseOf
<1>3. CASE LookupEmail(r)
  BY <1>1, <1>3 DEF LookupEmail, TypeOK, PhaseOf
<1>4. CASE InsertUser(r)
  <2>1. CASE Reply(r, 500)
    BY <1>1, <1>4, <2>1 DEF TypeOK
  <2>2. CASE ~Reply(r, 500)
    BY <1>1, <1>4, <2>2 DEF InsertUser, TypeOK, PhaseOf
  <2> QED
    BY <2>1, <2>2
<1>5. CASE SendCommit(r) \/ DropConnection(r) \/ Die(r)
  BY <1>1, <1>5 DEF SendCommit, DropConnection, Die, TypeOK
<1>6. CASE DbCommit(r)
  BY <1>6, CommitStep
<1>7. CASE AfterCommit(r) \/ Refresh(r)
  BY <1>1, <1>7 DEF AfterCommit, Refresh, TypeOK
<1>8. CASE login(r)
  <2>1. \E code : Reply(r, code)
    BY <1>8 DEF login
  <2> QED
    BY <1>1, <1>8, <2>1 DEF login, TypeOK, PhaseOf
<1>9. CASE decode_access_token(r)
  BY <1>1, <1>9 DEF decode_access_token, TypeOK, PhaseOf
<1>10. CASE get_current_user(r)
  <2>1. \E code : Reply(r, code)
    BY <1>10 DEF get_current_user
  <2> QED
    BY <1>1, <1>10, <2>1 DEF get_current_user, TypeOK, PhaseOf
<1> QED
  BY <1>2, <1>3, <1>4, <1>5, <1>6, <1>7, <1>8, <1>9, <1>10 DEF Serve

LEMMA RowStep ==
    ASSUME AccountsInv, NEW r \in Requests, Send(r) \/ Serve(r) \/ DropConnection(r) \/ Die(r)
    PROVE  RowInv'
<1>1. SUFFICES ASSUME NEW id \in Registrations
               PROVE  /\ users'[id] # Null <=> tx'[id] = "committed"
                      /\ users'[id] # Null => users'[id].email = email'[id] /\ users'[id].password = password'[id]
  BY DEF RowInv
<1>2. /\ users[id] # Null <=> tx[id] = "committed"
      /\ users[id] # Null => users[id].email = email[id] /\ users[id].password = password[id]
      /\ TypeOK /\ id \in Requests
  BY DEF AccountsInv, RowInv, Requests
<1>3. CASE id # r
  <2>1. Same(id)
    BY <1>2, <1>3, Frame
  <2>2. users'[id] = users[id]
    <3>1. CASE DbCommit(r)
      BY <1>2, <1>3, <3>1, CommitStep DEF TypeOK
    <3> QED
      BY <3>1, RowsStay
  <2> QED
    BY <1>2, <2>1, <2>2 DEF Same
<1>4. CASE id = r /\ DbCommit(r)
  <2>1. [email |-> email[r], password |-> password[r], is_active |-> TRUE] # Null
    <3>1. PhaseOf(r) /\ r \in Registrations /\ tx[r] = "committing"
      BY <1>4, CommitStep DEF AccountsInv, PhaseInv
    <3>2. pc[r] # "idle"
      BY <3>1 DEF PhaseOf
    <3>3. email[r] \in Emails /\ password[r] \in Passwords
      BY <3>1, <3>2 DEF PhaseOf
    <3>4. [email |-> email[r], password |-> password[r], is_active |-> TRUE] \in User
      BY <3>3 DEF User
    <3> QED
      BY <3>4, Distinct
  <2> QED
    BY <1>2, <1>4, <2>1, CommitStep DEF TypeOK
<1>5. CASE id = r /\ ~DbCommit(r)
  <2>1. users'[id] = users[id] /\ (tx'[id] = "committed" <=> tx[id] = "committed")
    BY <1>5, RowsStay, TxStep
  <2>2. users[id] # Null => pc[id] # "idle"
    BY <1>2 DEF AccountsInv, PhaseInv, PhaseOf
  <2> QED
    BY <1>2, <2>1, <2>2, StaysStep DEF Stays
<1> QED
  BY <1>3, <1>4, <1>5

\* Only a transaction that is open, committing or committed claims an address,
\* and it goes on claiming it until it is rolled back.
Claims(r) == HoldsIndex(r) \/ tx[r] = "committed"

LEMMA UniqueStep ==
    ASSUME AccountsInv, NEW r \in Requests, Send(r) \/ Serve(r) \/ DropConnection(r) \/ Die(r), TypeOK'
    PROVE  UniqueInv'
<1>1. TypeOK /\ TypeOK'
  BY DEF AccountsInv
<1>2. ASSUME NEW q \in Registrations, Claims(q)'
      PROVE  /\ email'[q] = email[q]
             /\ Claims(q) \/ (q = r /\ InsertUser(r) /\ Holders(email[r]) = {} /\ ~Pending(r))
  <2>1. q \in Requests /\ PhaseOf(q)
    BY DEF Requests, AccountsInv, PhaseInv
  <2>2. CASE q # r
    BY <1>1, <1>2, <2>1, <2>2, Frame DEF Same, Claims, HoldsIndex
  <2>3. CASE q = r
    <3>1. tx'[r] \in {"open", "committing", "committed"}
      BY <1>2, <2>3 DEF Claims, HoldsIndex
    <3>2. \/ tx[r] \in {"open", "committing", "committed"}
          \/ InsertUser(r) /\ Holders(email[r]) = {} /\ ~Pending(r)
      BY <3>1, TxStep
    <3>3. pc[r] # "idle"
      BY <2>1, <2>3, <3>2 DEF PhaseOf, InsertUser
    <3>4. tx[r] = "open" => pc[r] = "commit"
      BY <2>1, <2>3 DEF PhaseOf
    <3> QED
      BY <2>3, <3>2, <3>3, <3>4, StaysStep DEF Stays, Claims, HoldsIndex
  <2> QED
    BY <2>2, <2>3
<1>3. ASSUME NEW q \in Registrations, q # r, Claims(q), r \in Registrations, email[q] = email[r],
             Holders(email[r]) = {}, ~Pending(r)
      PROVE  FALSE
  <2>1. CASE HoldsIndex(q)
    BY <1>3, <2>1 DEF HoldsIndex, Pending
  <2>2. CASE tx[q] = "committed"
    <3>1. users[q] # Null /\ users[q].email = email[q]
      BY <2>2 DEF AccountsInv, RowInv
    <3> QED
      BY <1>3, <3>1 DEF Holders
  <2> QED
    BY <1>3, <2>1, <2>2 DEF Claims
<1>4. \A q, s \in Registrations : Claims(q) /\ Claims(s) /\ email[q] = email[s] => q = s
  BY DEF AccountsInv, UniqueInv, Claims
<1>5. \A q, s \in Registrations : Claims(q)' /\ Claims(s)' /\ email'[q] = email'[s] => q = s
  BY <1>2, <1>3, <1>4
<1> QED
  BY <1>5 DEF UniqueInv, Claims, HoldsIndex

\* A reply or a move, to the request that makes it.
LEMMA ReplySelf ==
    ASSUME TypeOK, NEW r \in Requests, NEW code, Reply(r, code)
    PROVE  pc'[r] = "done" /\ status'[r] = code /\ tx'[r] = Abandon(tx[r])
BY DEF TypeOK, Reply

\* The statuses a request of each kind is answered with, and what the answer
\* says of its transaction.
LEMMA PhaseSelf ==
    ASSUME AccountsInv, NEW r \in Requests, Send(r) \/ Serve(r) \/ DropConnection(r) \/ Die(r), TypeOK'
    PROVE  PhaseOf(r)'
<1> USE DEF sentVars, gotVars, dbVars
<1>1. /\ TypeOK /\ PhaseOf(r) /\ Stays
      /\ ~(r \in Registrations /\ r \in Logins) /\ ~(r \in Registrations /\ r \in Profiles)
      /\ ~(r \in Logins /\ r \in Profiles)
      /\ r \in Registrations \/ r \in Logins \/ r \in Profiles
      /\ tx[r] \in TxState /\ pc[r] \in PC /\ barred'[r] \in BOOLEAN
  BY StaysStep, SlotsAssumption DEF AccountsInv, PhaseInv, Requests, TypeOK
<1>2. pc[r] # "idle" =>
        /\ email'[r] = email[r] /\ password'[r] = password[r] /\ bearer'[r] = bearer[r]
        /\ status[r] # 0 => status'[r] = status[r]
        /\ r \in Profiles => bearer[r] \in Logins /\ token'[bearer[r]] # Null
  <2>1. SUFFICES ASSUME pc[r] # "idle", r \in Profiles
                 PROVE  bearer[r] \in Logins /\ token'[bearer[r]] # Null
    BY <1>1 DEF Stays
  <2>2. bearer[r] \in Requests /\ bearer[r] \in Logins /\ token[bearer[r]] # Null
    BY <1>1, <2>1 DEF PhaseOf, Requests
  <2> QED
    BY <1>1, <2>2 DEF Stays
<1>3. ASSUME pc[r] # "idle",
             pc'[r] # "idle",
             tx'[r] # "none" => r \in Registrations,
             pc'[r] \in {"decode", "lookup", "insert"} => tx'[r] = "none" /\ status'[r] = 0,
             pc'[r] \in {"insert", "commit", "refresh"} => r \in Registrations,
             pc'[r] \in {"commit", "lost", "refresh"} => status'[r] = 0,
             tx'[r] = "open" => pc'[r] = "commit",
             pc'[r] = "refresh" \/ status'[r] = 201 => tx'[r] = "committed",
             status'[r] \in {409, 422} => tx'[r] = "none",
             pc'[r] = "decode" => r \in Profiles
      PROVE  PhaseOf(r)'
  BY <1>1, <1>2, <1>3 DEF PhaseOf
<1>4. CASE Register(r)
  <2>1. pc[r] = "idle" /\ r \in Registrations /\ tx[r] = "none" /\ status[r] = 0 /\ ~barred[r]
    BY <1>1, <1>4 DEF Register, PhaseOf
  <2>2. \/ pc'[r] = "done" /\ status'[r] = 422 /\ tx'[r] = "none"
        \/ pc'[r] = "lookup" /\ status'[r] = 0 /\ tx'[r] = "none"
    <3>1. CASE Reply(r, 422)
      BY <1>1, <2>1, <3>1, ReplySelf DEF Abandon
    <3>2. CASE Goto(r, "lookup", FALSE) /\ UNCHANGED <<status, tx>>
      BY <1>1, <2>1, <3>2 DEF Goto, TypeOK
    <3> QED
      BY <1>4, <3>1, <3>2 DEF Register
  <2>3. email'[r] \in Emails /\ password'[r] \in Passwords
    BY <1>1, <1>4 DEF Register, TypeOK
  <2> QED
    BY <1>1, <2>1, <2>2, <2>3 DEF PhaseOf
<1>5. CASE SendLogin(r)
  <2>1. PICK e \in Emails, p \in Passwords :
           email' = [email EXCEPT ![r] = e] /\ password' = [password EXCEPT ![r] = p]
    BY <1>5 DEF SendLogin
  <2>2. email'[r] \in Emails /\ password'[r] \in Passwords
    BY <1>1, <2>1 DEF TypeOK
  <2>3. pc'[r] = "lookup" /\ tx'[r] = "none" /\ status'[r] = 0 /\ r \in Logins
    BY <1>1, <1>5 DEF SendLogin, TypeOK, PhaseOf
  <2> QED
    BY <1>1, <2>2, <2>3 DEF PhaseOf
<1>6. CASE SendProfile(r)
  <2>1. PICK l \in Logins : token[l] # Null /\ bearer' = [bearer EXCEPT ![r] = l]
    BY <1>6 DEF SendProfile
  <2>2. bearer'[r] \in Logins /\ token'[bearer'[r]] # Null
    BY <1>1, <1>6, <2>1 DEF TypeOK, SendProfile
  <2>3. pc'[r] = "decode" /\ tx'[r] = "none" /\ status'[r] = 0 /\ r \in Profiles
    BY <1>1, <1>6 DEF SendProfile, TypeOK, PhaseOf
  <2> QED
    BY <1>1, <2>2, <2>3 DEF PhaseOf
<1>7. CASE LookupEmail(r)
  <2>1. pc[r] = "lookup" /\ r \in Registrations /\ tx[r] = "none" /\ status[r] = 0
    BY <1>1, <1>7 DEF LookupEmail, PhaseOf
  <2>2. CASE Reply(r, 500) \/ Reply(r, 409)
    BY <1>1, <1>3, <2>1, <2>2, ReplySelf DEF Abandon
  <2>3. CASE Goto(r, "insert", TRUE) /\ UNCHANGED <<status, tx>>
    <3>1. pc'[r] = "insert"
      BY <1>1, <2>3 DEF Goto, TypeOK
    <3> QED
      BY <1>1, <1>3, <2>1, <2>3, <3>1
  <2> QED
    BY <1>7, <2>2, <2>3 DEF LookupEmail
<1>8. CASE InsertUser(r)
  <2>1. pc[r] = "insert" /\ r \in Registrations /\ tx[r] = "none" /\ status[r] = 0
    BY <1>1, <1>8 DEF InsertUser, PhaseOf
  <2>2. CASE Reply(r, 500)
    BY <1>1, <1>3, <2>1, <2>2, ReplySelf DEF Abandon
  <2>3. CASE Goto(r, "commit", TRUE) /\ tx' = [tx EXCEPT ![r] = "open"] /\ UNCHANGED status
    <3>1. tx'[r] = "open" /\ pc'[r] = "commit"
      BY <1>1, <2>3 DEF Goto, TypeOK
    <3> QED
      BY <1>1, <1>3, <2>1, <2>3, <3>1
  <2> QED
    BY <1>8, <2>2, <2>3 DEF InsertUser
<1>9. CASE SendCommit(r)
  <2>1. pc[r] = "commit" /\ r \in Registrations /\ tx'[r] = "committing" /\ status[r] = 0
    BY <1>1, <1>9 DEF SendCommit, PhaseOf, TypeOK
  <2> QED
    BY <1>1, <1>3, <1>9, <2>1 DEF SendCommit
<1>10. CASE DbCommit(r)
  <2>1. r \in Registrations /\ tx[r] = "committing" /\ tx'[r] \in {"committed", "rolledBack"}
        /\ pc' = pc /\ status' = status
    BY <1>10, CommitStep
  <2> QED
    BY <1>1, <1>3, <2>1 DEF PhaseOf
<1>11. CASE AfterCommit(r)
  <2>1. pc[r] = "commit" /\ r \in Registrations /\ status[r] = 0
    BY <1>1, <1>11 DEF AfterCommit, PhaseOf
  <2>2. CASE Reply(r, 500)
    BY <1>1, <1>3, <2>1, <2>2, ReplySelf DEF Abandon
  <2>3. CASE tx[r] = "committed" /\ Goto(r, "refresh", FALSE) /\ UNCHANGED <<status, tx>>
    <3>1. pc'[r] = "refresh"
      BY <1>1, <2>3 DEF Goto, TypeOK
    <3> QED
      BY <1>1, <1>3, <2>1, <2>3, <3>1
  <2> QED
    BY <1>11, <2>2, <2>3 DEF AfterCommit
<1>12. CASE Refresh(r)
  <2>1. pc[r] = "refresh" /\ r \in Registrations /\ status[r] = 0 /\ tx[r] = "committed"
    BY <1>1, <1>12 DEF Refresh, PhaseOf
  <2> QED
    BY <1>1, <1>3, <1>12, <2>1, ReplySelf DEF Refresh, Abandon
<1>13. CASE login(r) \/ get_current_user(r)
  <2>1. pc[r] = "lookup" /\ r \notin Registrations /\ tx[r] = "none" /\ status[r] = 0
    BY <1>1, <1>13 DEF login, get_current_user, PhaseOf
  <2>2. \E code \in {200, 401, 403, 500} : Reply(r, code)
    BY <1>13 DEF login, get_current_user
  <2>3. pc'[r] = "done" /\ status'[r] \in {200, 401, 403, 500} /\ tx'[r] = "none"
    BY <1>1, <2>1, <2>2, ReplySelf DEF Abandon
  <2> QED
    BY <1>1, <1>3, <2>1, <2>3
<1>14. CASE decode_access_token(r)
  <2>1. pc[r] = "decode" /\ r \in Profiles /\ tx[r] = "none" /\ status[r] = 0
    BY <1>1, <1>14 DEF decode_access_token, PhaseOf
  <2>2. CASE Reply(r, 401)
    BY <1>1, <1>3, <2>1, <2>2, ReplySelf DEF Abandon
  <2>3. CASE Goto(r, "lookup", FALSE) /\ UNCHANGED <<status, tx>>
    <3>1. pc'[r] = "lookup"
      BY <1>1, <2>3 DEF Goto, TypeOK
    <3> QED
      BY <1>1, <1>3, <2>1, <2>3, <3>1
  <2> QED
    BY <1>14, <2>2, <2>3 DEF decode_access_token
<1>15. CASE DropConnection(r)
  <2>1. tx'[r] = Abandon(tx[r]) /\ pc' = pc /\ status' = status
    BY <1>1, <1>15 DEF DropConnection, TypeOK
  <2>2. pc[r] # "idle" => PhaseOf(r)'
    BY <1>1, <1>3, <2>1 DEF PhaseOf, Abandon
  <2>3. pc[r] = "idle" => PhaseOf(r)'
    <3>1. barred' = barred
      BY <1>15 DEF DropConnection
    <3> QED
      BY <1>1, <2>1, <3>1 DEF PhaseOf, Abandon
  <2> QED
    BY <2>2, <2>3
<1>16. CASE Die(r)
  <2>1. pc[r] \notin {"idle", "done", "lost"} /\ pc'[r] = "lost" /\ tx'[r] = Abandon(tx[r]) /\ status' = status
    BY <1>1, <1>16 DEF Die, InFlight, Goto, TypeOK
  <2>2. status[r] = 0
    BY <1>1, <2>1 DEF PhaseOf, PC
  <2> QED
    BY <1>1, <1>3, <2>1, <2>2 DEF PhaseOf, Abandon
<1>17. CASE RefuseLogin(r)
  <2>1. pc[r] = "idle" /\ r \in Logins /\ tx[r] = "none"
    BY <1>1, <1>17 DEF RefuseLogin, PhaseOf
  <2>2. pc'[r] = "done" /\ status'[r] = 422 /\ tx'[r] = "none"
    BY <1>1, <1>17, <2>1, ReplySelf DEF RefuseLogin, Abandon
  <2> QED
    BY <1>1, <2>1, <2>2 DEF PhaseOf
<1> QED
  BY <1>4, <1>5, <1>6, <1>7, <1>8, <1>9, <1>10, <1>11, <1>12, <1>13, <1>14, <1>15, <1>16, <1>17
  DEF Send, Serve

LEMMA PhaseStep ==
    ASSUME AccountsInv, NEW r \in Requests, Send(r) \/ Serve(r) \/ DropConnection(r) \/ Die(r), TypeOK'
    PROVE  PhaseInv'
<1>1. SUFFICES ASSUME NEW q \in Requests, q # r
               PROVE  PhaseOf(q)'
  BY PhaseSelf DEF PhaseInv
<1>2. PhaseOf(q) /\ Same(q) /\ Stays
  BY <1>1, Frame, StaysStep DEF AccountsInv, PhaseInv
<1>3. bearer[q] \in Logins /\ token[bearer[q]] # Null => token'[bearer[q]] # Null
  BY <1>2 DEF Stays, Requests
<1> QED
  BY <1>2, <1>3 DEF Same, PhaseOf

-----------------------------------------------------------------------------
(* What the answers say.                                                   *)

\* The index makes the account of an address unique.
LEMMA KnownUnique ==
    ASSUME AccountsInv, NEW e, NEW p, NEW id \in Known(e, p), NEW jd \in Known(e, p)
    PROVE  id = jd
<1>1. ASSUME NEW kd \in Known(e, p)
      PROVE  kd \in Registrations /\ users[kd] # Null /\ users[kd].email = e
  BY DEF Known, Holders
<1>2. ASSUME NEW kd \in Known(e, p)
      PROVE  kd \in Registrations /\ tx[kd] = "committed" /\ email[kd] = e
  BY <1>1 DEF AccountsInv, RowInv
<1> QED
  BY <1>2 DEF AccountsInv, UniqueInv

\* An account stays known by what it was registered with.
LEMMA KnownStays ==
    ASSUME Stays, NEW e, NEW p
    PROVE  /\ Holders(e) \subseteq Holders(e)' /\ Known(e, p) \subseteq Known(e, p)'
           /\ \A id \in Known(e, p) : ~users[id].is_active => ~users'[id].is_active
<1>1. Holders(e) \subseteq Holders(e)'
  BY DEF Stays, Holders
<1>2. \A id \in Known(e, p) : id \in Holders(e) /\ users[id].password = p
  BY DEF Known
<1>3. \A id \in Holders(e) : id \in Registrations /\ users[id] # Null
  BY DEF Holders
<1>4. \A id \in Known(e, p) : users'[id].password = p /\ (~users[id].is_active => ~users'[id].is_active)
  BY <1>2, <1>3 DEF Stays
<1> QED
  BY <1>1, <1>2, <1>4 DEF Known

\* The token that a profile request carries.
LEMMA BearerStays ==
    ASSUME AccountsInv, Stays, NEW q \in Requests, q \in Profiles, pc[q] # "idle"
    PROVE  /\ bearer'[q] = bearer[q] /\ token'[bearer[q]] = token[bearer[q]]
           /\ token[bearer[q]] \in Token
           /\ ~users[token[bearer[q]].sub].is_active => ~users'[token[bearer[q]].sub].is_active
<1>1. bearer[q] \in Requests /\ token[bearer[q]] # Null
  BY DEF AccountsInv, PhaseInv, PhaseOf, Requests
<1>2. token[bearer[q]] \in Token /\ AnswerOf(bearer[q])
  BY <1>1 DEF AccountsInv, TypeOK, AnswerInv
<1>3. token[bearer[q]].sub \in Known(email[bearer[q]], password[bearer[q]])
  BY <1>1, <1>2 DEF AnswerOf
<1> QED
  BY <1>1, <1>2, <1>3, KnownStays DEF Stays

\* A request that has been sent: what has to hold of its answer.
LEMMA AnswerCore ==
    ASSUME AccountsInv, Stays, NEW q \in Requests, pc[q] # "idle",
           status'[q] = 201 => q \in Registrations,
           status'[q] = 409 => q \in Registrations /\ Holders(email[q]) # {},
           token'[q] # Null <=> q \in Logins /\ status'[q] = 200,
           token'[q] # Null => token'[q].sub \in Known(email[q], password[q]) /\ ~barred[q],
           q \in Profiles /\ status'[q] = 200 => profile'[q] = token[bearer[q]].sub /\ ~barred[q],
           q \in Profiles /\ barred[q] /\ pc'[q] = "lookup" => ~users[token[bearer[q]].sub].is_active
    PROVE  AnswerOf(q)'
<1>1. /\ email'[q] = email[q] /\ password'[q] = password[q] /\ bearer'[q] = bearer[q]
      /\ before'[q] = before[q] /\ barred'[q] = barred[q]
      /\ AnswerOf(q)
  BY DEF Stays, AccountsInv, AnswerInv, TypeOK
<1>2. before[q] \subseteq Requests
  BY DEF AccountsInv, TypeOK
<1>3. \A p \in before'[q] : status'[p] # 0
  BY <1>1, <1>2 DEF AnswerOf, Stays
<1>4. status'[q] = 409 => q \in Registrations /\ Holders(email[q])' # {}
  BY <1>1, KnownStays
<1>5. token'[q] # Null => token'[q].sub \in Known(email[q], password[q])' /\ ~barred'[q]
  BY <1>1, KnownStays
<1>6. q \in Logins /\ barred[q] => \E id \in Known(email[q], password[q])' : ~users'[id].is_active
  BY <1>1, KnownStays DEF AnswerOf
<1>7. q \in Profiles /\ barred[q] =>
          token'[bearer'[q]].exp <= now' \/ ~users'[token'[bearer'[q]].sub].is_active
  <2>1. SUFFICES ASSUME q \in Profiles, barred[q], token[bearer[q]].exp <= now
                 PROVE  token[bearer[q]].exp <= now'
    BY <1>1, BearerStays DEF AnswerOf
  <2>2. token[bearer[q]].exp \in Nat /\ now \in Nat
    BY <2>1, BearerStays DEF Token, AccountsInv, TypeOK
  <2> QED
    BY <2>1, <2>2 DEF Stays
<1>8. q \in Profiles /\ status'[q] = 200 => profile'[q] = token'[bearer'[q]].sub /\ ~barred'[q]
  BY <1>1, BearerStays
<1>9. q \in Profiles /\ barred'[q] /\ pc'[q] = "lookup" => ~users'[token'[bearer'[q]].sub].is_active
  BY <1>1, BearerStays
<1> QED
  BY <1>1, <1>3, <1>4, <1>5, <1>6, <1>7, <1>8, <1>9 DEF AnswerOf

\* A request whose answer does not change.
LEMMA AnswerKept ==
    ASSUME AccountsInv, Stays, NEW q \in Requests,
           status'[q] = status[q], token'[q] = token[q], profile'[q] = profile[q],
           email'[q] = email[q], password'[q] = password[q], bearer'[q] = bearer[q],
           before'[q] = before[q], barred'[q] = barred[q],
           pc'[q] = "lookup" /\ q \in Profiles => pc[q] = "lookup"
    PROVE  AnswerOf(q)'
<1>1. AnswerOf(q) /\ PhaseOf(q)
  BY DEF AccountsInv, AnswerInv, PhaseInv
<1>2. CASE pc[q] # "idle"
  BY <1>1, <1>2, AnswerCore, SMTT(30) DEF AnswerOf
<1>3. CASE pc[q] = "idle"
  <2>1. status[q] = 0 /\ ~barred[q]
    BY <1>1, <1>3 DEF PhaseOf
  <2>2. \A p \in before[q] : status'[p] # 0
    BY <1>1 DEF AnswerOf, Stays, AccountsInv, TypeOK
  <2> QED
    BY <1>1, <2>1, <2>2 DEF AnswerOf
<1> QED
  BY <1>2, <1>3

LEMMA AnswerSelf ==
    ASSUME AccountsInv, NEW r \in Requests, Send(r) \/ Serve(r) \/ DropConnection(r) \/ Die(r), TypeOK'
    PROVE  AnswerOf(r)'
<1> USE DEF sentVars, gotVars, dbVars
<1>1. /\ TypeOK /\ PhaseOf(r) /\ AnswerOf(r) /\ Stays
      /\ ~(r \in Registrations /\ r \in Logins) /\ ~(r \in Registrations /\ r \in Profiles)
      /\ ~(r \in Logins /\ r \in Profiles)
  BY StaysStep, SlotsAssumption DEF AccountsInv, PhaseInv, AnswerInv
<1>2. {q \in Requests : status[q] # 0} \subseteq {q \in Requests : status'[q] # 0}
  BY <1>1 DEF Stays
<1>3. CASE Register(r)
  <2>1. /\ r \in Registrations /\ ~barred[r] /\ barred'[r] = barred[r] /\ token[r] = Null /\ token'[r] = token[r]
        /\ status[r] = 0
    BY <1>1, <1>3 DEF Register, PhaseOf, AnswerOf
  <2>2. status'[r] \in {0, 422}
    <3>1. CASE Reply(r, 422)
      BY <1>1, <3>1, ReplySelf
    <3>2. CASE UNCHANGED status
      BY <2>1, <3>2
    <3> QED
      BY <1>3, <3>1, <3>2 DEF Register
  <2>3. before'[r] = {q \in Requests : status[q] # 0}
    BY <1>1, <1>3 DEF Register, TypeOK
  <2> QED
    BY <1>1, <1>2, <2>1, <2>2, <2>3 DEF AnswerOf
<1>4. CASE SendLogin(r)
  <2>1. r \in Logins /\ status[r] = 0 /\ status'[r] = 0 /\ token[r] = Null /\ token'[r] = Null /\ users' = users
    BY <1>1, <1>4 DEF SendLogin, PhaseOf, AnswerOf
  <2>2. PICK e \in Emails, p \in Passwords :
           /\ email' = [email EXCEPT ![r] = e] /\ password' = [password EXCEPT ![r] = p]
           /\ barred' = [barred EXCEPT ![r] = \E id \in Known(e, p) : ~users[id].is_active]
    BY <1>4 DEF SendLogin
  <2>3. email'[r] = e /\ password'[r] = p /\ (barred'[r] <=> \E id \in Known(e, p) : ~users[id].is_active)
    <3>1. email'[r] = e /\ password'[r] = p
      BY <1>1, <2>2 DEF TypeOK
    <3>2. barred \in [Requests -> BOOLEAN]
      BY <1>1 DEF TypeOK
    <3>3. barred'[r] = (\E id \in Known(e, p) : ~users[id].is_active)
      BY <2>2, <3>2, Zenon
    <3> QED
      BY <3>1, <3>3
  <2>4. barred'[r] => \E id \in Known(email[r], password[r])' : ~users'[id].is_active
    BY <1>1, <2>3, KnownStays
  <2>5. before'[r] = {q \in Requests : status[q] # 0}
    BY <1>1, <1>4 DEF SendLogin, TypeOK
  <2> QED
    BY <1>1, <1>2, <2>1, <2>4, <2>5 DEF AnswerOf
<1>5. CASE SendProfile(r)
  <2>1. /\ r \in Profiles /\ status[r] = 0 /\ status'[r] = 0 /\ token[r] = Null /\ token' = token
        /\ users' = users /\ now' = now /\ pc'[r] = "decode"
    BY <1>1, <1>5 DEF SendProfile, PhaseOf, AnswerOf, TypeOK
  <2>2. PICK l \in Logins :
           /\ bearer' = [bearer EXCEPT ![r] = l]
           /\ barred' = [barred EXCEPT ![r] = token[l].exp <= now \/ ~users[token[l].sub].is_active]
    BY <1>5 DEF SendProfile
  <2>3. bearer'[r] = l /\ (barred'[r] <=> token[l].exp <= now \/ ~users[token[l].sub].is_active)
    <3>1. bearer'[r] = l
      BY <1>1, <2>2 DEF TypeOK
    <3>2. barred \in [Requests -> BOOLEAN]
      BY <1>1 DEF TypeOK
    <3>3. barred'[r] = (token[l].exp <= now \/ ~users[token[l].sub].is_active)
      BY <2>2, <3>2, Zenon
    <3> QED
      BY <3>1, <3>3
  <2>4. before'[r] = {q \in Requests : status[q] # 0}
    BY <1>1, <1>5 DEF SendProfile, TypeOK
  <2> QED
    BY <1>1, <1>2, <2>1, <2>3, <2>4 DEF AnswerOf
<1>6. ASSUME Serve(r) \/ DropConnection(r) \/ Die(r)
      PROVE  UNCHANGED <<email, password, bearer, before, barred>>
  BY <1>6, SentOnce
<1>7. CASE SendCommit(r) \/ DbCommit(r) \/ DropConnection(r) \/ Die(r)
  <2>1. UNCHANGED <<status, token, profile>> /\ (pc'[r] = "lookup" => pc[r] = "lookup")
    BY <1>1, <1>7 DEF SendCommit, DbCommit, DropConnection, Die, Goto, TypeOK
  <2> QED
    BY <1>1, <1>6, <1>7, <2>1, AnswerKept DEF Serve
<1>8. CASE LookupEmail(r) \/ InsertUser(r) \/ AfterCommit(r) \/ Refresh(r)
  <2>1. r \in Registrations /\ status[r] = 0 /\ token[r] = Null /\ UNCHANGED <<token, profile>> /\ pc[r] # "idle"
    BY <1>1, <1>8, ZenonT(60) DEF LookupEmail, InsertUser, AfterCommit, Refresh, PhaseOf, AnswerOf
  <2>2. CASE \E code \in {201, 500} : Reply(r, code)
    <3>1. status'[r] \in {201, 500}
      BY <1>1, <2>2, ReplySelf
    <3> QED
      BY <1>1, <2>1, <3>1, AnswerCore
  <2>3. CASE Holders(email[r]) # {} /\ Reply(r, 409)
    <3>1. status'[r] = 409
      BY <1>1, <2>3, ReplySelf
    <3> QED
      BY <1>1, <2>1, <2>3, <3>1, AnswerCore
  <2>4. CASE UNCHANGED status
    BY <1>1, <2>1, <2>4, AnswerCore
  <2>5. CASE LookupEmail(r)
    BY <2>2, <2>3, <2>4, <2>5 DEF LookupEmail
  <2>6. CASE InsertUser(r)
    BY <2>2, <2>4, <2>6 DEF InsertUser
  <2>7. CASE AfterCommit(r) \/ Refresh(r)
    BY <2>2, <2>4, <2>7 DEF AfterCommit, Refresh
  <2> QED
    BY <1>8, <2>5, <2>6, <2>7
<1>9. CASE login(r)
  <2>1. r \in Logins /\ pc[r] # "idle" /\ status[r] = 0 /\ token[r] = Null /\ UNCHANGED profile
    BY <1>1, <1>9 DEF login, PhaseOf, AnswerOf
  <2>2. CASE \E code \in {401, 403, 500} : Reply(r, code) /\ UNCHANGED token
    <3>1. status'[r] \in {401, 403, 500} /\ token'[r] = Null
      BY <1>1, <2>1, <2>2, ReplySelf
    <3> QED
      BY <1>1, <2>1, <3>1, AnswerCore
  <2>3. CASE \E id \in Known(email[r], password[r]) :
                /\ users[id].is_active /\ Reply(r, 200)
                /\ token' = [token EXCEPT ![r] = [sub |-> id, exp |-> now + Lifetime]]
    <3>1. PICK id \in Known(email[r], password[r]) :
                /\ users[id].is_active /\ Reply(r, 200)
                /\ token' = [token EXCEPT ![r] = [sub |-> id, exp |-> now + Lifetime]]
      BY <2>3
    <3>2. status'[r] = 200 /\ token'[r] = [sub |-> id, exp |-> now + Lifetime]
      BY <1>1, <3>1, ReplySelf DEF TypeOK
    <3>3. token'[r].sub = id /\ id \in Registrations /\ now + Lifetime \in Nat
      BY <1>1, <3>2, LifetimeAssumption DEF Known, Holders, TypeOK
    <3>4. token'[r] # Null
      <4>1. token'[r] \in Token
        BY <3>2, <3>3 DEF Token
      <4> QED
        BY <4>1, Distinct
    <3>5. ~barred[r]
      BY <1>1, <2>1, <3>1, KnownUnique DEF AnswerOf
    <3> QED
      BY <1>1, <2>1, <3>2, <3>3, <3>4, <3>5, AnswerCore
  <2>4. \/ \E code \in {401, 403, 500} : Reply(r, code) /\ UNCHANGED token
        \/ \E id \in Known(email[r], password[r]) :
                /\ users[id].is_active /\ Reply(r, 200)
                /\ token' = [token EXCEPT ![r] = [sub |-> id, exp |-> now + Lifetime]]
    BY <1>9 DEF login
  <2> QED
    BY <2>2, <2>3, <2>4
<1>10. CASE decode_access_token(r)
  <2>1. r \in Profiles /\ pc[r] # "idle" /\ status[r] = 0 /\ token[r] = Null /\ UNCHANGED <<token, profile>>
    BY <1>1, <1>10 DEF decode_access_token, PhaseOf, AnswerOf
  <2>2. CASE Reply(r, 401)
    <3>1. status'[r] = 401 /\ pc'[r] = "done"
      BY <1>1, <2>2, ReplySelf
    <3> QED
      BY <1>1, <2>1, <3>1, AnswerCore
  <2>3. CASE token[bearer[r]].exp > now /\ UNCHANGED <<status, tx>>
    <3>1. token[bearer[r]].exp \in Nat /\ now \in Nat
      BY <1>1, <2>1, BearerStays DEF Token, TypeOK
    <3>2. barred[r] => ~users[token[bearer[r]].sub].is_active
      BY <1>1, <2>1, <2>3, <3>1 DEF AnswerOf
    <3> QED
      BY <1>1, <2>1, <2>3, <3>2, AnswerCore
  <2> QED
    BY <1>10, <2>2, <2>3 DEF decode_access_token
<1>11. CASE get_current_user(r)
  <2>1. /\ r \in Profiles /\ pc[r] = "lookup" /\ status[r] = 0 /\ token[r] = Null /\ UNCHANGED token
    BY <1>1, <1>11 DEF get_current_user, PhaseOf, AnswerOf
  <2>2. CASE \E code \in {401, 403, 500} : Reply(r, code)
    <3>1. status'[r] \in {401, 403, 500} /\ pc'[r] = "done"
      BY <1>1, <2>2, ReplySelf
    <3> QED
      BY <1>1, <2>1, <3>1, AnswerCore
  <2>3. CASE /\ users[token[bearer[r]].sub].is_active /\ Reply(r, 200)
             /\ profile' = [profile EXCEPT ![r] = token[bearer[r]].sub]
    <3>1. status'[r] = 200 /\ pc'[r] = "done" /\ profile'[r] = token[bearer[r]].sub
      BY <1>1, <2>3, ReplySelf DEF TypeOK
    <3>2. ~barred[r]
      BY <1>1, <2>1, <2>3 DEF AnswerOf
    <3> QED
      BY <1>1, <2>1, <3>1, <3>2, AnswerCore
  <2> QED
    BY <1>11, <2>2, <2>3 DEF get_current_user
<1>12. CASE RefuseLogin(r)
  <2>1. r \in Logins /\ ~barred[r] /\ barred'[r] = barred[r] /\ token[r] = Null /\ token'[r] = token[r]
    BY <1>1, <1>12 DEF RefuseLogin, PhaseOf, AnswerOf
  <2>2. status'[r] = 422
    BY <1>1, <1>12, ReplySelf DEF RefuseLogin
  <2>3. before'[r] = {q \in Requests : status[q] # 0}
    BY <1>1, <1>12 DEF RefuseLogin, TypeOK
  <2> QED
    BY <1>1, <1>2, <2>1, <2>2, <2>3 DEF AnswerOf
<1> QED
  BY <1>3, <1>4, <1>5, <1>7, <1>8, <1>9, <1>10, <1>11, <1>12 DEF Send, Serve

-----------------------------------------------------------------------------
(* The invariants.                                                         *)

LEMMA AccountsInit ==
    ASSUME Init
    PROVE  AccountsInv /\ RegisteredCanLogIn
<1>1. TypeOK
  BY DEF Init, TypeOK, PC, TxState
<1>2. PhaseInv /\ RowInv /\ UniqueInv
  BY DEF Init, PhaseInv, PhaseOf, RowInv, UniqueInv, HoldsIndex, Requests
<1>3. AnswerInv
  BY DEF Init, AnswerInv, AnswerOf
<1>4. RegisteredCanLogIn
  BY DEF Init, RegisteredCanLogIn, Requests
<1> QED
  BY <1>1, <1>2, <1>3, <1>4 DEF AccountsInv

\* A request moves, or the environment does.
LEMMA AccountsStep ==
    ASSUME AccountsInv, [Next]_vars
    PROVE  AccountsInv' /\ Stays
<1>1. ASSUME NEW r \in Requests, Send(r) \/ Serve(r) \/ DropConnection(r) \/ Die(r)
      PROVE  AccountsInv' /\ Stays
  <2>1. TypeOK'
    BY <1>1, TypeStep
  <2>2. PhaseInv' /\ RowInv' /\ UniqueInv' /\ Stays
    BY <1>1, <2>1, PhaseStep, RowStep, UniqueStep, StaysStep
  <2>3. ASSUME NEW q \in Requests, q # r
        PROVE  AnswerOf(q)'
    <3>1. Same(q)
      BY <1>1, <2>3, Frame DEF AccountsInv
    <3> QED
      BY <2>2, <3>1, AnswerKept DEF Same
  <2>4. AnswerInv'
    BY <1>1, <2>1, <2>3, AnswerSelf DEF AnswerInv
  <2> QED
    BY <2>1, <2>2, <2>4 DEF AccountsInv
<1>2. CASE Tick \/ (\E id \in Registrations : Deactivate(id)) \/ UNCHANGED vars
  <2>1. /\ Stays /\ TypeOK'
        /\ UNCHANGED <<pc, email, password, bearer, status, token, profile, conn, tx, before, barred>>
        /\ \A id \in Registrations : users'[id] # Null <=> users[id] # Null
    <3>1. CASE UNCHANGED vars
      BY <3>1 DEF vars, Stays, AccountsInv, TypeOK
    <3> QED
      BY <1>2, <3>1, EnvironmentStays
  <2>2. PhaseInv' /\ UniqueInv'
    BY <2>1 DEF AccountsInv, PhaseInv, PhaseOf, UniqueInv, HoldsIndex
  <2>3. RowInv'
    BY <2>1 DEF AccountsInv, RowInv, Stays
  <2>4. AnswerInv'
    BY <2>1, AnswerKept DEF AnswerInv
  <2> QED
    BY <2>1, <2>2, <2>3, <2>4 DEF AccountsInv
<1> QED
  BY <1>1, <1>2 DEF Next, Environment

\* Only login answers a login that has credentials.
LEMMA LoginAnswers ==
    ASSUME AccountsInv, NEW l \in Logins, status[l] = 0, status'[l] \notin {0, 422}, [Next]_vars
    PROVE  login(l)
<1>1. l \in Requests /\ TypeOK /\ PhaseOf(l) /\ l \notin Registrations /\ l \notin Profiles
  BY SlotsAssumption DEF Requests, AccountsInv, PhaseInv
<1>2. ASSUME NEW r \in Requests, Send(r) \/ Serve(r) \/ DropConnection(r) \/ Die(r)
      PROVE  login(l)
  <2>1. r = l
    BY <1>1, <1>2, Frame DEF Same
  <2>2. CASE (Send(l) /\ ~RefuseLogin(l)) \/ SendCommit(l) \/ DbCommit(l) \/ DropConnection(l) \/ Die(l)
    BY <1>1, <2>2 DEF Send, Register, SendLogin, SendProfile, SendCommit, DbCommit, DropConnection, Die,
                      gotVars
  <2>3. CASE LookupEmail(l) \/ InsertUser(l) \/ AfterCommit(l) \/ Refresh(l)
    BY <1>1, <2>3 DEF LookupEmail, InsertUser, AfterCommit, Refresh, PhaseOf
  <2>4. CASE decode_access_token(l) \/ get_current_user(l)
    BY <1>1, <2>4 DEF decode_access_token, get_current_user, PhaseOf
  <2>5. CASE RefuseLogin(l)
    BY <1>1, <2>5, ReplySelf DEF RefuseLogin
  <2> QED
    BY <1>2, <2>1, <2>2, <2>3, <2>4, <2>5 DEF Serve
<1>3. CASE Tick \/ (\E id \in Registrations : Deactivate(id)) \/ UNCHANGED vars
  BY <1>3 DEF Tick, Deactivate, vars, gotVars
<1> QED
  BY <1>2, <1>3 DEF Next, Environment

LEMMA LoginStep ==
    ASSUME AccountsInv, RegisteredCanLogIn, [Next]_vars
    PROVE  RegisteredCanLogIn'
<1>1. AccountsInv' /\ Stays
  BY AccountsStep
<1>2. SUFFICES ASSUME NEW l \in Logins, NEW r \in Registrations,
                      r \in before'[l], status'[r] = 201, email'[l] = email'[r], password'[l] = password'[r],
                      status'[l] \in {401, 403}
               PROVE  status'[l] # 401 /\ (status'[l] = 403 => ~users'[r].is_active)
  BY DEF RegisteredCanLogIn
<1>3. l \in Requests /\ r \in Requests /\ PhaseOf(l) /\ PhaseOf(r) /\ TypeOK
  BY DEF Requests, AccountsInv, PhaseInv
<1>4. pc[l] # "idle" /\ before'[l] = before[l] /\ email'[l] = email[l] /\ password'[l] = password[l]
  <2>1. pc[l] # "idle"
    <3>1. CASE status[l] # 0
      BY <1>3, <3>1 DEF PhaseOf
    <3>2. CASE status[l] = 0
      BY <1>2, <3>2, LoginAnswers DEF login
    <3> QED
      BY <3>1, <3>2
  <2> QED
    BY <1>1, <1>3, <2>1 DEF Stays
<1>5. status[r] # 0
  BY <1>2, <1>3, <1>4 DEF AccountsInv, AnswerInv, AnswerOf
<1>6. pc[r] # "idle" /\ status[r] = 201
  BY <1>1, <1>2, <1>3, <1>5 DEF Stays, PhaseOf
<1>7. email[r] = email[l] /\ password[r] = password[l]
  BY <1>1, <1>2, <1>3, <1>4, <1>6 DEF Stays
<1>8. users[r] # Null /\ users[r].email = email[r] /\ users[r].password = password[r]
  BY <1>3, <1>6 DEF PhaseOf, AccountsInv, RowInv
<1>9. r \in Known(email[l], password[l])
  BY <1>7, <1>8 DEF Known, Holders
<1>10. ~users[r].is_active => ~users'[r].is_active
  BY <1>1, <1>8 DEF Stays
<1>11. CASE status[l] # 0
  <2>1. status'[l] = status[l]
    BY <1>1, <1>3, <1>11 DEF Stays
  <2> QED
    BY <1>2, <1>4, <1>6, <1>7, <1>10, <2>1 DEF RegisteredCanLogIn
<1>12. CASE status[l] = 0
  <2>1. login(l)
    BY <1>2, <1>12, LoginAnswers
  <2>2. CASE \E code \in {200, 500} : Reply(l, code)
    BY <1>3, <2>2, ReplySelf
  <2>3. CASE \E id \in Known(email[l], password[l]) : ~users[id].is_active /\ Reply(l, 403)
    <3>1. PICK id \in Known(email[l], password[l]) : ~users[id].is_active /\ Reply(l, 403)
      BY <2>3
    <3>2. id = r
      BY <1>9, KnownUnique
    <3>3. status'[l] = 403
      BY <1>3, <3>1, ReplySelf
    <3> QED
      BY <1>10, <3>1, <3>2, <3>3
  <2> QED
    BY <1>9, <2>1, <2>2, <2>3 DEF login
<1> QED
  BY <1>11, <1>12

\* Types, the index, and what every answer says, whatever the requests do.
THEOREM AccountsAreSound == Spec => []AccountsInv
<1>1. Init => AccountsInv
  BY AccountsInit
<1>2. AccountsInv /\ [Next]_vars => AccountsInv'
  BY AccountsStep
<1> QED
  BY <1>1, <1>2, PTL DEF Spec

\* Who was told 201 is never told 401 for the same credentials.
THEOREM LoginAfterRegistration == Spec => []RegisteredCanLogIn
<1>1. Init => RegisteredCanLogIn
  BY AccountsInit
<1>2. AccountsInv /\ RegisteredCanLogIn /\ [Next]_vars => RegisteredCanLogIn'
  BY LoginStep
<1> QED
  BY <1>1, <1>2, AccountsAreSound, PTL DEF Spec

\* A 201 is durable and the only one for its address.
THEOREM Durable == Spec => []RegistrationIsDurable
<1>1. AccountsInv => RegistrationIsDurable
  <2>1. SUFFICES ASSUME AccountsInv, NEW r \in Registrations
                 PROVE  /\ status[r] = 201 =>
                              /\ users[r] # Null
                              /\ users[r].email = email[r] /\ users[r].password = password[r]
                              /\ \A q \in Registrations \ {r} : email[q] = email[r] => users[q] = Null
                        /\ status[r] \in {409, 422} => users[r] = Null /\ tx[r] # "committing"
                        /\ status[r] = 409 =>
                              \E q \in Registrations : users[q] # Null /\ users[q].email = email[r]
    BY DEF RegistrationIsDurable
  <2>2. r \in Requests /\ PhaseOf(r) /\ AnswerOf(r)
    BY <2>1 DEF Requests, AccountsInv, PhaseInv, AnswerInv
  <2>3. status[r] = 201 => tx[r] = "committed"
    BY <2>2 DEF PhaseOf
  <2>4. status[r] \in {409, 422} => tx[r] = "none"
    BY <2>2 DEF PhaseOf
  <2>5. /\ users[r] # Null <=> tx[r] = "committed"
        /\ users[r] # Null => users[r].email = email[r] /\ users[r].password = password[r]
        /\ \A q \in Registrations \ {r} : users[q] # Null => tx[q] = "committed"
    BY <2>1 DEF AccountsInv, RowInv
  <2>6. tx[r] = "committed" =>
          \A q \in Registrations \ {r} : email[q] = email[r] => tx[q] # "committed"
    BY <2>1 DEF AccountsInv, UniqueInv
  <2>7. status[r] = 409 => \E q \in Registrations : users[q] # Null /\ users[q].email = email[r]
    BY <2>2 DEF AnswerOf, Holders
  <2> QED
    BY <2>3, <2>4, <2>5, <2>6, <2>7
<1> QED
  BY <1>1, AccountsAreSound, PTL

\* Tokens and profiles are those of the account whose credentials were sent.
THEOREM TokensAreTheirs == Spec => []TokensNameTheirAccount
<1>1. ASSUME AccountsInv, NEW l \in Logins, token[l] # Null
      PROVE  /\ Known(email[l], password[l]) = {token[l].sub}
             /\ users[token[l].sub].email = email[l] /\ users[token[l].sub].password = password[l]
             /\ ~barred[l]
  <2>1. token[l].sub \in Known(email[l], password[l]) /\ ~barred[l]
    BY <1>1 DEF AccountsInv, AnswerInv, AnswerOf, Requests
  <2>2. \A id \in Known(email[l], password[l]) : id = token[l].sub
    BY <1>1, <2>1, KnownUnique
  <2> QED
    BY <2>1, <2>2 DEF Known, Holders
<1>2. ASSUME AccountsInv, NEW l \in Logins, status[l] = 200
      PROVE  token[l] # Null
  BY <1>2 DEF AccountsInv, AnswerInv, AnswerOf, Requests
<1>3. ASSUME AccountsInv, NEW r \in Profiles, status[r] = 200
      PROVE  /\ users[profile[r]].email = email[bearer[r]]
             /\ users[profile[r]].password = password[bearer[r]]
             /\ ~barred[r]
  <2>1. r \in Requests /\ PhaseOf(r) /\ AnswerOf(r)
    BY <1>3 DEF AccountsInv, PhaseInv, AnswerInv, Requests
  <2>2. bearer[r] \in Logins /\ token[bearer[r]] # Null
    BY <1>3, <2>1 DEF PhaseOf
  <2>3. profile[r] = token[bearer[r]].sub /\ ~barred[r]
    BY <1>3, <2>1 DEF AnswerOf
  <2> QED
    BY <1>1, <1>3, <2>2, <2>3
<1>4. AccountsInv => TokensNameTheirAccount
  BY <1>1, <1>2, <1>3 DEF TokensNameTheirAccount
<1> QED
  BY <1>4, AccountsAreSound, PTL

-----------------------------------------------------------------------------
(* Accounts implements Directory.                                          *)

Welcomed == {r \in Registrations : status[r] = 201}

Sessions ==
    [l \in Logins |->
        IF token[l] = Null THEN Null
        ELSE [sub |-> token[l].sub, email |-> email[l], password |-> password[l]]]

Shown == [p \in Profiles |-> profile[p]]

\* A profile is shown at the end only.
ShownLast == \A q \in Requests : profile[q] # Null => pc[q] = "done"

LEMMA ShownLastStep ==
    ASSUME AccountsInv, ShownLast, [Next]_vars
    PROVE  ShownLast'
<1>1. TypeOK
  BY DEF AccountsInv
<1>2. ASSUME NEW r \in Requests, Send(r) \/ Serve(r) \/ DropConnection(r) \/ Die(r)
      PROVE  ShownLast'
  <2>1. ASSUME NEW q \in Requests, q # r, profile'[q] # Null
        PROVE  pc'[q] = "done"
    BY <1>1, <1>2, <2>1, Frame DEF Same, ShownLast
  <2>2. CASE get_current_user(r)
    <3>1. pc'[r] = "done"
      BY <1>1, <2>2 DEF get_current_user, Reply, TypeOK
    <3> QED
      BY <2>1, <3>1 DEF ShownLast
  <2>3. CASE ~get_current_user(r)
    <3>1. profile' = profile
      BY <1>2, <2>3 DEF Send, Serve, Register, LookupEmail, InsertUser, SendCommit, DbCommit, AfterCommit,
           Refresh, RefuseLogin, SendLogin, SendProfile, login, decode_access_token, DropConnection, Die, gotVars
    <3>2. pc[r] = "done" => pc'[r] = "done"
      BY <1>1, <1>2 DEF Send, Serve, Register, LookupEmail, InsertUser, SendCommit, DbCommit, AfterCommit,
           Refresh, RefuseLogin, SendLogin, SendProfile, login, decode_access_token, get_current_user,
           DropConnection, Die, InFlight, gotVars, sentVars
    <3> QED
      BY <2>1, <3>1, <3>2 DEF ShownLast
  <2> QED
    BY <2>2, <2>3
<1>3. CASE Tick \/ \E id \in Registrations : Deactivate(id)
  BY <1>3, EnvironmentStays DEF ShownLast
<1>4. CASE UNCHANGED vars
  BY <1>4 DEF vars, ShownLast
<1> QED
  BY <1>2, <1>3, <1>4 DEF Next, Environment

\* An answered login keeps its session.
LEMMA SessionsStay ==
    ASSUME AccountsInv, Stays, NEW l \in Logins, token'[l] = token[l]
    PROVE  Sessions'[l] = Sessions[l]
<1>1. CASE token[l] = Null
  BY <1>1 DEF Sessions
<1>2. CASE token[l] # Null
  <2>1. l \in Requests /\ status[l] # 0
    BY <1>2 DEF Requests, AccountsInv, AnswerInv, AnswerOf
  <2>2. pc[l] # "idle"
    BY <2>1, AnsweredIsDone
  <2> QED
    BY <1>2, <2>1, <2>2 DEF Sessions, Stays
<1> QED
  BY <1>1, <1>2

\* What does not touch tokens and profiles, and answers nothing with 201.
LEMMA QuietStep ==
    ASSUME AccountsInv, Stays, token' = token, profile' = profile,
           \A q \in Registrations : status'[q] = 201 <=> status[q] = 201
    PROVE  Welcomed' = Welcomed /\ Sessions' = Sessions /\ Shown' = Shown
<1>1. \A l \in Logins : Sessions'[l] = Sessions[l]
  BY SessionsStay
<1>2. Sessions' = Sessions
  BY <1>1 DEF Sessions
<1> QED
  BY <1>2 DEF Welcomed, Shown

\* Only Refresh answers 201.
LEMMA OnlyRefreshWelcomes ==
    ASSUME AccountsInv, NEW r \in Requests, Send(r) \/ Serve(r) \/ DropConnection(r) \/ Die(r),
           ~Refresh(r), NEW q \in Requests
    PROVE  status'[q] = 201 <=> status[q] = 201
<1>1. TypeOK
  BY DEF AccountsInv
<1>2. CASE q # r
  BY <1>1, <1>2, Frame DEF Same
<1>3. CASE q = r
  <2>1. CASE status' = status
    BY <2>1
  <2>2. CASE status' # status
    <3> DEFINE Answered == \E code \in {200, 401, 403, 409, 422, 500} : Reply(r, code)
    <3>1. Answered
      <4>0. /\ Reply(r, 200) \/ Reply(r, 401) \/ Reply(r, 403) => Answered
            /\ Reply(r, 409) \/ Reply(r, 422) \/ Reply(r, 500) => Answered
            /\ ~UNCHANGED <<status, tx>> /\ ~UNCHANGED status
        BY <2>2
      <4> HIDE DEF Answered
      <4>1. CASE login(r)
        BY <4>0, <4>1, Zenon DEF login
      <4>2. CASE decode_access_token(r) \/ get_current_user(r)
        BY <4>0, <4>2, Zenon DEF decode_access_token, get_current_user
      <4>3. CASE Register(r) \/ LookupEmail(r) \/ InsertUser(r) \/ AfterCommit(r)
        BY <4>0, <4>3, Zenon DEF Register, LookupEmail, InsertUser, AfterCommit
      <4>5. CASE RefuseLogin(r)
        BY <4>0, <4>5 DEF RefuseLogin
      <4>4. CASE SendLogin(r) \/ SendProfile(r) \/ SendCommit(r) \/ DbCommit(r) \/ DropConnection(r) \/ Die(r)
        BY <2>2, <4>4 DEF SendLogin, SendProfile, SendCommit, DbCommit, DropConnection, Die, gotVars
      <4> QED
        BY <4>1, <4>2, <4>3, <4>4, <4>5 DEF Send, Serve
    <3>2. status'[r] # 201
      BY <1>1, <3>1 DEF Reply, TypeOK
    <3>3. pc[r] # "done"
      BY <2>2, StepOfLive
    <3> QED
      BY <1>3, <3>2, <3>3, AnsweredIsDone
  <2> QED
    BY <2>1, <2>2
<1> QED
  BY <1>2, <1>3

\* The commit of a registration opens an account that no other has the
\* address of, or does nothing.
LEMMA CommitOpens ==
    ASSUME AccountsInv, Stays, NEW r \in Requests, DbCommit(r)
    PROVE  \/ Service!Register(r)
           \/ UNCHANGED Service!directory
<1>1. /\ r \in Registrations /\ tx[r] = "committing" /\ users[r] = Null
      /\ UNCHANGED <<status, token, profile, email, password>>
  BY CommitStep
<1>2. Welcomed' = Welcomed /\ Sessions' = Sessions /\ Shown' = Shown
  BY <1>1, QuietStep
<1>3. CASE users' = users
  BY <1>2, <1>3 DEF Service!directory, Welcomed, Sessions, Shown
<1>4. CASE users' = [users EXCEPT ![r] =
              [email |-> email[r], password |-> password[r], is_active |-> TRUE]]
  <2>1. email[r] \in Emails /\ password[r] \in Passwords
    BY <1>1 DEF AccountsInv, PhaseInv, PhaseOf
  <2>2. ASSUME NEW other \in Registrations, users[other] # Null
        PROVE  users[other].email # email[r]
    <3>1. tx[other] = "committed" /\ users[other].email = email[other] /\ other # r
      BY <1>1, <2>2 DEF AccountsInv, RowInv
    <3> QED
      BY <1>1, <3>1 DEF AccountsInv, UniqueInv, HoldsIndex
  <2> QED
    BY <1>1, <1>2, <1>4, <2>1, <2>2 DEF Service!Register, Service!Opened, Welcomed, Sessions, Shown
<1> QED
  BY <1>3, <1>4, CommitStep

\* A 201 comes after the account.
LEMMA RefreshWelcomes ==
    ASSUME AccountsInv, Stays, NEW r \in Requests, Refresh(r)
    PROVE  \/ Service!Welcome(r)
           \/ UNCHANGED Service!directory
<1>1. TypeOK /\ PhaseOf(r) /\ pc[r] = "refresh"
  BY DEF AccountsInv, PhaseInv, Refresh
<1>2. r \in Registrations /\ users[r] # Null /\ status[r] = 0
  BY <1>1 DEF PhaseOf, AccountsInv, RowInv
<1>3. UNCHANGED <<users, token, profile>>
  BY DEF Refresh
<1>4. \A l \in Logins : Sessions'[l] = Sessions[l]
  BY <1>3, SessionsStay
<1>5. Sessions' = Sessions /\ Shown' = Shown
  BY <1>3, <1>4 DEF Sessions, Shown
<1>6. CASE Reply(r, 201)
  <2>1. Welcomed' = Welcomed \cup {r}
    BY <1>1, <1>2, <1>6 DEF Reply, TypeOK, Welcomed, Requests
  <2> QED
    BY <1>2, <1>3, <1>5, <2>1 DEF Service!Welcome, Service!Opened, Welcomed, Sessions, Shown
<1>7. CASE Reply(r, 500)
  <2>1. Welcomed' = Welcomed
    BY <1>1, <1>2, <1>7 DEF Reply, TypeOK, Welcomed, Requests
  <2> QED
    BY <1>3, <1>5, <2>1 DEF Service!directory, Welcomed, Sessions, Shown
<1> QED
  BY <1>6, <1>7 DEF Refresh

\* A login opens a session on an open account with its credentials.
LEMMA LoginOpens ==
    ASSUME AccountsInv, Stays, NEW r \in Requests, login(r)
    PROVE  \/ Service!LogIn(r)
           \/ UNCHANGED Service!directory
<1>1. TypeOK /\ PhaseOf(r) /\ AnswerOf(r) /\ pc[r] = "lookup" /\ r \in Logins
  BY DEF AccountsInv, PhaseInv, AnswerInv, login
<1>2. token[r] = Null /\ UNCHANGED <<users, email, password, profile>>
  BY <1>1 DEF PhaseOf, AnswerOf, login, sentVars
<1>3. Welcomed' = Welcomed
  <2>1. \A q \in Registrations : status'[q] = 201 <=> status[q] = 201
    <3>1. ~Refresh(r)
      BY <1>1 DEF Refresh
    <3> QED
      BY <3>1, OnlyRefreshWelcomes DEF Serve, Requests
  <2> QED
    BY <2>1 DEF Welcomed
<1>4. Shown' = Shown
  BY <1>2 DEF Shown
<1>5. CASE token' = token
  <2>1. \A l \in Logins : Sessions'[l] = Sessions[l]
    BY <1>5, SessionsStay
  <2>2. Sessions' = Sessions
    BY <2>1 DEF Sessions
  <2> QED
    BY <1>2, <1>3, <1>4, <2>2 DEF Service!directory, Welcomed, Sessions, Shown
<1>6. ASSUME NEW id \in Known(email[r], password[r]), users[id].is_active,
             token' = [token EXCEPT ![r] = [sub |-> id, exp |-> now + Lifetime]]
      PROVE  Service!LogIn(r)
  <2>1. /\ id \in Registrations /\ users[id] # Null
        /\ users[id].email = email[r] /\ users[id].password = password[r]
    BY DEF Known, Holders
  <2>2. token'[r] = [sub |-> id, exp |-> now + Lifetime]
    BY <1>1, <1>6 DEF TypeOK
  <2>3. token'[r].sub = id /\ token'[r] # Null
    <3>1. Lifetime \in Nat /\ now \in Nat
      BY <1>1, LifetimeAssumption DEF TypeOK
    <3>2. token'[r] \in Token
      BY <2>1, <2>2, <3>1 DEF Token
    <3> QED
      BY <2>2, <3>2, Distinct
  <2>4. Sessions'[r] = [sub |-> id, email |-> users[id].email, password |-> users[id].password]
    BY <1>1, <1>2, <2>1, <2>3 DEF Sessions
  <2>5. \A l \in Logins : l # r => Sessions'[l] = Sessions[l]
    <3>1. \A l \in Logins : l # r => token'[l] = token[l]
      BY <1>1, <1>6 DEF TypeOK, Requests
    <3> QED
      BY <3>1, SessionsStay
  <2>6. Sessions' = [Sessions EXCEPT ![r] =
            [sub |-> id, email |-> users[id].email, password |-> users[id].password]]
    BY <1>1, <2>4, <2>5 DEF Sessions
  <2>7. Sessions[r] = Null
    BY <1>1, <1>2 DEF Sessions
  <2> QED
    BY <1>2, <1>3, <1>4, <1>6, <2>1, <2>6, <2>7
    DEF Service!LogIn, Service!Open, Service!Opened, Welcomed, Sessions, Shown
<1> QED
  BY <1>5, <1>6 DEF login

\* A profile is shown of an open account that a session names.
LEMMA ProfileShows ==
    ASSUME AccountsInv, ShownLast, Stays, NEW r \in Requests, get_current_user(r)
    PROVE  \/ Service!Show(r)
           \/ UNCHANGED Service!directory
<1>1. TypeOK /\ PhaseOf(r) /\ pc[r] = "lookup" /\ r \in Profiles
  BY DEF AccountsInv, PhaseInv, get_current_user
<1>2. UNCHANGED <<users, token>> /\ profile[r] = Null
  BY <1>1 DEF get_current_user, ShownLast
<1>3. Welcomed' = Welcomed
  <2>1. \A q \in Registrations : status'[q] = 201 <=> status[q] = 201
    <3>1. ~Refresh(r)
      BY <1>1 DEF Refresh
    <3> QED
      BY <3>1, OnlyRefreshWelcomes DEF Serve, Requests
  <2> QED
    BY <2>1 DEF Welcomed
<1>4. Sessions' = Sessions
  <2>1. \A l \in Logins : Sessions'[l] = Sessions[l]
    BY <1>2, SessionsStay
  <2> QED
    BY <2>1 DEF Sessions
<1>5. CASE profile' = profile
  BY <1>2, <1>3, <1>4, <1>5 DEF Service!directory, Welcomed, Sessions, Shown
<1>6. ASSUME users[token[bearer[r]].sub] # Null, users[token[bearer[r]].sub].is_active,
             profile' = [profile EXCEPT ![r] = token[bearer[r]].sub]
      PROVE  Service!Show(r)
  <2>1. bearer[r] \in Logins /\ token[bearer[r]] # Null
    BY <1>1 DEF PhaseOf
  <2>2. Sessions[bearer[r]] # Null /\ Sessions[bearer[r]].sub = token[bearer[r]].sub
    <3> DEFINE l == bearer[r]
               rec == [sub |-> token[l].sub, email |-> email[l], password |-> password[l]]
    <3>1. l \in Logins /\ l \in Requests
      BY <2>1 DEF Requests
    <3>2. token[l].sub \in Known(email[l], password[l])
      BY <2>1, <3>1 DEF AccountsInv, AnswerInv, AnswerOf
    <3>3. Sessions[l] = rec
      BY <2>1 DEF Sessions
    <3>4. rec # Null
      <4>1. token[l].sub \in Registrations /\ pc[l] # "idle" /\ status[l] = 200
        BY <2>1, <3>1, <3>2, AnsweredIsDone DEF Known, Holders, AccountsInv, AnswerInv, AnswerOf
      <4>2. email[l] \in Emails /\ password[l] \in Passwords
        BY <2>1, <3>1, <4>1 DEF AccountsInv, PhaseInv, PhaseOf
      <4>3. rec \in [sub : Registrations, email : Emails, password : Passwords]
        BY <4>1, <4>2
      <4> QED
        BY <4>3, NullAssumption
    <3> QED
      BY <3>3, <3>4
  <2>3. Shown' = [Shown EXCEPT ![r] = token[bearer[r]].sub] /\ Shown[r] = Null
    BY <1>1, <1>2, <1>6, ZenonT(60) DEF TypeOK, Shown, Requests
  <2> QED
    BY <1>2, <1>3, <1>4, <1>6, <2>1, <2>2, <2>3, ZenonT(60)
    DEF Service!Show, Service!Open, Service!Opened, Welcomed, Sessions, Shown
<1> QED
  BY <1>5, <1>6 DEF get_current_user

\* Every other step of a request is a stutter.
LEMMA OtherStutters ==
    ASSUME AccountsInv, Stays, NEW r \in Requests, Send(r) \/ Serve(r) \/ DropConnection(r) \/ Die(r),
           ~DbCommit(r), ~Refresh(r), ~login(r), ~get_current_user(r)
    PROVE  UNCHANGED Service!directory
<1>1. users' = users
  BY RowsStay
<1>2. token' = token /\ profile' = profile
  BY DEF Send, Serve, Register, LookupEmail, InsertUser, SendCommit, AfterCommit, RefuseLogin, SendLogin, SendProfile,
         decode_access_token, DropConnection, Die, gotVars
<1>3. \A q \in Registrations : status'[q] = 201 <=> status[q] = 201
  BY OnlyRefreshWelcomes DEF Requests
<1>4. Welcomed' = Welcomed /\ Sessions' = Sessions /\ Shown' = Shown
  BY <1>2, <1>3, QuietStep
<1> QED
  BY <1>1, <1>4 DEF Service!directory, Welcomed, Sessions, Shown

LEMMA DirectoryStep ==
    ASSUME AccountsInv, ShownLast, [Next]_vars
    PROVE  [Service!Next]_(Service!directory)
<1>1. ASSUME NEW r \in Requests, Send(r) \/ Serve(r) \/ DropConnection(r) \/ Die(r)
      PROVE  Service!Next \/ UNCHANGED Service!directory
  <2>1. Stays
    BY <1>1, StaysStep
  <2>2. CASE DbCommit(r)
    BY <2>1, <2>2, CommitOpens DEF DbCommit, Service!Next
  <2>3. CASE Refresh(r)
    <3>1. r \in Registrations
      BY <2>3 DEF Refresh, AccountsInv, PhaseInv, PhaseOf
    <3> QED
      BY <2>1, <2>3, <3>1, RefreshWelcomes DEF Service!Next
  <2>4. CASE login(r)
    BY <2>1, <2>4, LoginOpens DEF login, Service!Next
  <2>5. CASE get_current_user(r)
    BY <2>1, <2>5, ProfileShows DEF get_current_user, Service!Next
  <2> QED
    BY <1>1, <2>1, <2>2, <2>3, <2>4, <2>5, OtherStutters
<1>2. ASSUME NEW id \in Registrations, Deactivate(id)
      PROVE  Service!Deactivate(id)
  <2>1. Stays /\ UNCHANGED <<status, token, profile>>
    BY <1>2, EnvironmentStays
  <2>2. Welcomed' = Welcomed /\ Sessions' = Sessions /\ Shown' = Shown
    BY <2>1, QuietStep
  <2> QED
    BY <1>2, <2>2
    DEF Deactivate, Service!Deactivate, Service!Open, Service!Opened, Welcomed, Sessions, Shown
<1>3. CASE Tick
  <2>1. Stays /\ UNCHANGED <<status, token, profile>>
    BY <1>3, EnvironmentStays
  <2>2. Welcomed' = Welcomed /\ Sessions' = Sessions /\ Shown' = Shown
    BY <2>1, QuietStep
  <2> QED
    BY <1>3, <2>2 DEF Tick, dbVars, Service!directory, Welcomed, Sessions, Shown
<1>4. CASE UNCHANGED vars
  BY <1>4 DEF vars, Service!directory
<1> QED
  BY <1>1, <1>2, <1>3, <1>4 DEF Next, Environment, Service!Next

\* Registration, login and profile are atomic: for all their statements, waits
\* and failures, their accounts, answers and tokens are those of Directory.
THEOREM AccountsImplementDirectory == Spec => ImplementsDirectory
<1>1. Init => Service!Init /\ ShownLast
  <2>1. ASSUME Init PROVE Service!Init
    BY <2>1 DEF Init, Service!Init, Requests
  <2>2. Init => ShownLast
    BY DEF Init, ShownLast
  <2> QED
    BY <2>1, <2>2
<1>2. AccountsInv /\ ShownLast /\ [Next]_vars => ShownLast'
  BY ShownLastStep
<1>3. AccountsInv /\ ShownLast /\ [Next]_vars => [Service!Next]_(Service!directory)
  BY DirectoryStep
<1> QED
  BY <1>1, <1>2, <1>3, AccountsAreSound, PTL DEF Spec, ImplementsDirectory, Service!Spec
=============================================================================
