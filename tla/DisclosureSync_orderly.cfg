\* Runs one at a time, in the order of their days, that store what they fetch.
SPECIFICATION Spec
CONSTANTS
    r1 = r1
    r2 = r2
    Runs = {r1, r2}
    a = a
    Ids = {a}
    LastDay = 5
    WindowDays = 3
    Refetch = 1
    MaxLag = 1
    MayDie = FALSE
    MayGoBack = FALSE
    MayOverlap = FALSE
SYMMETRY Symmetry
INVARIANTS TypeOK WindowComplete
