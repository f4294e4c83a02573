CONSTANTS
    Grain = 10
    ScoreRequests = {s1}
    GetRequests = {g1}
    DeleteRequests = {d1}
    Users = {u1, u2}
    Probabilities = {40004}
    NoRow = NoRow
    NotDeleted = NotDeleted
    NoUser = NoUser
    NoTarget = NoTarget
SYMMETRY Symmetry
SPECIFICATION Spec
INVARIANTS
    IInv
    OnlyTheOwnerDeletes
    ReadIsolation
    DeletedStaysHidden
    CreatedStaysVisible
    BarredCallerHasNoEffect
