\* Two registrations, a login and a request with its token; one address.
CONSTANTS
    Registrations = {r1, r2}
    Logins = {l1}
    Profiles = {p1}
    Emails = {e1}
    Passwords = {w1, w2}
    Lifetime = 1
    MaxNow = 1
    Null = Null
SPECIFICATION FairSpec
INVARIANTS
    AccountsInv
    RegistrationIsDurable
    TokensNameTheirAccount
    RegisteredCanLogIn
PROPERTIES
    ImplementsDirectory
    EveryRequestEnds
\* Every slot may be used up.
CHECK_DEADLOCK FALSE
