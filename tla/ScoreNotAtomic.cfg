CONSTANTS
    Grain = 10
    ScoreRequests = {s1}
    GetRequests = {}
    DeleteRequests = {}
    Users = {u1}
    Probabilities = {40004}
    NoRow = NoRow
    NotDeleted = NotDeleted
    NoUser = NoUser
    NoTarget = NoTarget
SPECIFICATION Spec
INVARIANT FailedScoreLeavesNoRecord
