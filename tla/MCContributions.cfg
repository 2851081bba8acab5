\* Three rows for two officers who pay in and approve each other, the index of
\* the SQL migration, two requests in flight with failures, one other caller
\* that pays out.
SPECIFICATION ContributionSpec
CONSTANTS
    Caller = {c1, c2, d1}
    ContributionCaller = {c1, c2}
    Amount = {1}
    Contribution = {i1, i2, i3}
    Period = {jan}
    Ref = {i1, i2, i3, r1}
    User = {o1, o2}
    Officer = {o1, o2}
    Chair = {o1}
    Key = {k1}
    UniqueOver = {"APPROVED"}
    None = None
    Faults = TRUE
    MaxEntries = 3
INVARIANTS
    ContributionTypeOK
    OneApprovedPerPeriod
    CreditedIsDecided
SYMMETRY ContributionSymmetry
CHECK_DEADLOCK FALSE
