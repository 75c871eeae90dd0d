\* A job with a date and a job without one: both work on the day.
SPECIFICATION Spec
CONSTANTS
    r1 = r1
    r2 = r2
    d1 = d1
    Latest = Latest
    Shell = Shell
    None = None
    Runs = {r1, r2}
    Days = {d1}
    Groups = {d1, Latest}
    WritePlan <- TwoChunks
INVARIANTS OneRunPerDay
