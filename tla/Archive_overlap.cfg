\* A recovery run is at work on a day the archive job prunes.
SPECIFICATION ArchiveSpec
CONSTANTS
    r1 = r1
    r2 = r2
    d1 = d1
    None = None
    Runs = {r1}
    Days = {d1}
    WritePlan <- TwoChunks
    Overlap = TRUE
INVARIANTS PublishedWhole
