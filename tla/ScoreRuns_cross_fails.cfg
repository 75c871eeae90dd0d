\* An exception after publication: the handler marks the published run failed.
SPECIFICATION Spec
CONSTANTS
    r1 = r1
    r2 = r2
    d1 = d1
    Latest = Latest
    Shell = Shell
    None = None
    Runs = {r1, r2}
    Days = {d1}
    Groups = {d1, Latest, Shell}
    WritePlan <- TwoChunks
PROPERTIES PublishedNeverFailed
