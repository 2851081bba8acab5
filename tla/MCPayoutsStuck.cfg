\* Two officers approve one payout at the same time; nothing fails.
SPECIFICATION PayoutFairSpec
CONSTANTS
    Caller = {c1, c2, d1}
    PayoutCaller = {c1, c2}
    Amount = {1}
    Payout = {p1}
    Ref = {p1, r1}
    User = {o1, o2}
    Officer = {o1, o2}
    Chair = {o1}
    Key = {}
    MinApprovals = {2}
    None = None
    Faults = FALSE
    MaxEntries = 2
PROPERTIES
    QuorumSettles
CHECK_DEADLOCK FALSE
