\* The same run archived twice, its parts pruned in between.
SPECIFICATION ArchiveSpec
CONSTANTS
    r1 = r1
    r2 = r2
    d1 = d1
    None = None
    Runs = {r1}
    Days = {d1}
    WritePlan <- TwoChunks
    Overlap = FALSE
INVARIANTS PrunedIsRestorable
