\* One contribution is approved by two requests at once; nothing fails.
SPECIFICATION ContributionSpec
CONSTANTS
    Caller = {c1, c2}
    ContributionCaller = {c1, c2}
    Amount = {1}
    Contribution = {i1}
    Period = {jan}
    Ref = {i1, r1}
    User = {o1, o2}
    Officer = {o1, o2}
    Chair = {o1}
    Key = {}
    UniqueOver = {"PENDING", "APPROVED", "REJECTED", "CANCELLED"}
    None = None
    Faults = FALSE
    MaxEntries = 3
INVARIANTS
    CreditedOnce
CHECK_DEADLOCK FALSE
