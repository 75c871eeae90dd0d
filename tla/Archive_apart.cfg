\* Two runs of one day, and archive jobs that do not overlap them, again and again.
SPECIFICATION FairArchiveSpec
CONSTANTS
    r1 = r1
    r2 = r2
    d1 = d1
    None = None
    Runs = {r1, r2}
    Days = {d1}
    WritePlan <- TwoChunks
    Overlap = FALSE
INVARIANTS ArchiveTypeOK PublishedWhole ArchiveInv
PROPERTIES DeletedAreOnDisk ImplementsPublication OnlyPublishedRemain
