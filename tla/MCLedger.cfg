\* Three transactions in flight over amounts 1 and 2, a bound of three.
SPECIFICATION LedgerSpec
CONSTANTS
    Caller = {c1, c2, c3}
    Amount = {1, 2}
    Ref = {r1}
    User = {u1}
    None = None
    Faults = TRUE
    MaxEntries = 3
INVARIANTS
    LedgerTypeOK
    RunningBalance
    NeverNegative
    SummaryAgrees
PROPERTIES
    ImplementsPot
\* The bound MaxEntries stops the callers.
CHECK_DEADLOCK FALSE
SYMMETRY CallerSymmetry
