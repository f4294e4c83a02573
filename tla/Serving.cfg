\* Three requests over a pool of two connections, one of them overflow, and a
\* request for a file.
CONSTANTS
    ApiRequests = {r1, r2, r3}
    StaticRequests = {f1}
    GivenIds = {x1}
    HandledErrors = {401, 500}
    PoolSize = 1
    MaxOverflow = 1
    Null = Null
SYMMETRY Symmetry
SPECIFICATION Spec
INVARIANTS
    ServingInv
    PoolNeverWedges
    AnswerNamesItsRequest
    LogTellsTheAnswer
\* Every slot may be used up.
CHECK_DEADLOCK FALSE
