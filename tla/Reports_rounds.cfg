\* Two companies, asked one by one.  A quarter has one day, a year four: two
\* interim reports of the third year and the annual report of the second come late, are
\* corrected or never come, while runs for an earlier day and for today ask for them.
SPECIFICATION Spec
CONSTANTS
    c1 = c1
    c2 = c2
    Corps = {c1, c2}
    Filed = {8, 9, 10}
    Quarter = 1
    Years = 2
    FilingLag = 1
    Sessions = {10, 12}
    FirstDay = 11
    LastDay = 12
    CHUNK = 1
SYMMETRY Symmetry
INVARIANTS TypeOK NewestBeforeT AnnualNotNewer
