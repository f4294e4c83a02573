\* Two users and two decisions, up to two records, of which a page shows one,
\* and four calls of the API.
CONSTANTS
    Users = {u1, u2}
    Decisions = {APPROVE, DENY}
    Limit = 1
    MaxRows = 2
    MaxCalls = 4
    Null = Null
SPECIFICATION Spec
INVARIANTS
    PortalInv
    ListIsOfItsRequest
    GoneAfterDelete
SYMMETRY Symmetry
\* The calls may be used up.
CHECK_DEADLOCK FALSE
