\* Three officers approve one payout, two at the same time; nothing fails.
SPECIFICATION PayoutSpec
CONSTANTS
    Caller = {c1, c2, d1}
    PayoutCaller = {c1, c2}
    Amount = {1}
    Payout = {p1}
    Ref = {p1, r1}
    User = {o1, o2, o3}
    Officer = {o1, o2, o3}
    Chair = {o1}
    Key = {}
    MinApprovals = {2}
    None = None
    Faults = FALSE
    MaxEntries = 3
INVARIANTS
    DebitedOnce
CHECK_DEADLOCK FALSE
