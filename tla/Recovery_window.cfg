\* The morning job runs between any two sessions, and fails at will.
SPECIFICATION FairSpec
CONSTANTS
    Window = 3
    LastDay = 5
    Punctual = TRUE
INVARIANTS TypeOK WindowChances RecoveryInv
PROPERTIES ExitTellsTruth WindowEventuallyPublished
