\* Two rows, two listings, two readings of the clock.
CONSTANTS
    a1 = a1
    a2 = a2
    alice = alice
    bob = bob
    Null = Null
    Ids = {a1, a2}
    Listings = {r1, r2}
    Users = {alice, bob}
    Content <- Rows
    Queries <- Asked
    MaxNow = 1
SPECIFICATION Spec
INVARIANTS
    HistoryInv
    PageIsCurrent
    TotalBoundsPage
    PagesAdjoin
SYMMETRY Symmetry
\* Every slot may be used up.
CHECK_DEADLOCK FALSE
