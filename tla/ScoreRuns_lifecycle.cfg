\* Two runs over two days, started every way: the four tables, kills, timeouts.
SPECIFICATION FairSpec
CONSTANTS
    r1 = r1
    r2 = r2
    d1 = d1
    d2 = d2
    Latest = Latest
    Shell = Shell
    None = None
    Runs = {r1, r2}
    Days = {d1, d2}
    Groups = {d1, d2, Latest, Shell}
    WritePlan <- FourChunks
INVARIANTS TypeOK PublishedComplete StatusTellsTruth HistoryChain IndInv
PROPERTIES OnlyOwnHandlerUnpublishes ScheduledRunsStayClosed ImplementsPublication ImplementsRunLife EventuallyClosed
