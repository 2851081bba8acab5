\* One payout, three officers of whom one is the chair, two requests in flight
\* with failures, one other caller that pays in once.
SPECIFICATION PayoutSpec
CONSTANTS
    Caller = {c1, c2, d1}
    PayoutCaller = {c1, c2}
    Amount = {1, 2}
    Payout = {p1}
    Ref = {p1, r1}
    User = {o1, o2, o3}
    Officer = {o1, o2, o3}
    Chair = {o1}
    Key = {}
    MinApprovals = {2, 3}
    None = None
    Faults = TRUE
    MaxEntries = 3
INVARIANTS
    PayoutTypeOK
    QuorumBehindDebit
    DebitsBackedByVotes
    ApprovedIsDebited
SYMMETRY PayoutSymmetry
CHECK_DEADLOCK FALSE
