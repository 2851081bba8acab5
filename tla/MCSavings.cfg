\* One request at a time and no failures: two payouts and two contributions
\* of two officers, rules that ask for one approval or for two.
SPECIFICATION SavingsFairSpec
CONSTANTS
    Caller = {c1, d1}
    PayoutCaller = {d1}
    ContributionCaller = {c1}
    MaxInFlight = 1
    Amount = {1}
    Payout = {p1, p2}
    Contribution = {i1, i2}
    Period = {jan}
    Ref = {p1, p2, i1, i2}
    User = {o1, o2}
    Officer = {o1, o2}
    Chair = {o1}
    Key = {}
    MinApprovals = {1, 2}
    UniqueOver = {"PENDING", "APPROVED", "REJECTED", "CANCELLED"}
    None = None
    Faults = FALSE
    MaxEntries = 1
INVARIANTS
    PotReconciles
PROPERTIES
    DecisionsFinal
    QuorumSettles
    ApprovedReachesPot
CHECK_DEADLOCK FALSE
