----------------------------- MODULE Directory ------------------------------
(***************************************************************************)
(* What accounts promise those who use them, each request in one step:     *)
(* an account is opened whole, by one registration, with an address that   *)
(* no other account has; from then on it changes only by being closed.  A  *)
(* registration is welcomed (201) after its account is there.  A session   *)
(* names an account that was open, with the credentials of its login, and  *)
(* a profile is shown of the account of a session while that is open.      *)
(***************************************************************************)
CONSTANTS Registrations, Logins, Profiles, Emails, Passwords, Null

VARIABLES accounts,   \* by the registration that opened them
          welcomed,   \* the registrations that were answered 201
          sessions,   \* what a login was answered with
          shown       \* whose profile a request was answered with

directory == <<accounts, welcomed, sessions, shown>>

Opened(id) == accounts[id] # Null

Open(id) == Opened(id) /\ accounts[id].is_active

Init ==
    /\ accounts = [id \in Registrations |-> Null]
    /\ welcomed = {}
    /\ sessions = [l \in Logins |-> Null]
    /\ shown = [p \in Profiles |-> Null]

Register(id) ==
    /\ ~Opened(id)
    /\ \E e \in Emails, p \in Passwords :
          /\ \A other \in Registrations : Opened(other) => accounts[other].email # e
          /\ accounts' = [accounts EXCEPT ![id] =
                             [email |-> e, password |-> p, is_active |-> TRUE]]
    /\ UNCHANGED <<welcomed, sessions, shown>>

Welcome(id) ==
    /\ Opened(id)
    /\ welcomed' = welcomed \cup {id}
    /\ UNCHANGED <<accounts, sessions, shown>>

LogIn(l) ==
    /\ sessions[l] = Null
    /\ \E id \in Registrations :
          /\ Open(id)
          /\ sessions' = [sessions EXCEPT ![l] =
                             [sub |-> id, email |-> accounts[id].email,
                              password |-> accounts[id].password]]
    /\ UNCHANGED <<accounts, welcomed, shown>>

Show(p) ==
    /\ shown[p] = Null
    /\ \E l \in Logins :
          /\ sessions[l] # Null
          /\ Open(sessions[l].sub)
          /\ shown' = [shown EXCEPT ![p] = sessions[l].sub]
    /\ UNCHANGED <<accounts, welcomed, sessions>>

Deactivate(id) ==
    /\ Open(id)
    /\ accounts' = [accounts EXCEPT ![id].is_active = FALSE]
    /\ UNCHANGED <<welcomed, sessions, shown>>

Next ==
    \/ \E id \in Registrations : Register(id) \/ Welcome(id) \/ Deactivate(id)
    \/ \E l \in Logins : LogIn(l)
    \/ \E p \in Profiles : Show(p)

Spec == Init /\ [][Next]_directory
=============================================================================
