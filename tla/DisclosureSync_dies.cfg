\* A run may die while it stores what it fetched.
SPECIFICATION Spec
CONSTANTS
    r1 = r1
    r2 = r2
    Runs = {r1, r2}
    a = a
    Ids = {a}
    LastDay = 5
    WindowDays = 3
    Refetch = 1
    MaxLag = 1
    MayDie = TRUE
    MayGoBack = FALSE
    MayOverlap = FALSE
SYMMETRY Symmetry
INVARIANTS WindowComplete
