\* One product or two, one purchase, one distribution, two members of whom one
\* is an officer; one or two requests at once, with and without crashes.
SPECIFICATION GrocerySpec
CONSTANTS
    Caller = {c1, c2}
    GroceryCaller = {c1, c2}
    Amount = {1, 2, 3, 4}
    Ref = {b1}
    Purchase = {b1}
    Price = {1}
    Threshold = 1
    AutoBelow = 0
    User = {o1, m1, m2}
    Officer = {o1}
    Chair = {o1}
    Recipient = {m1, m2}
    Product = {p1, p2}
    Shelf = {p1}
    MixedQuantity = {2}
    Word = {rice}
    Quantity = {1, 2}
    Distribution = {d1}
    Key = {k1}
    None = None
    Faults = TRUE
    MaxEntries = 3
    MaxMovements = 2
    InitialPot = 2
    InitialStock = 2
    MaxOverrides = 1
    MixedOverrides = 0
INVARIANTS
    GroceryTypeOK
    NeverOversold
    GoodsBeforeMoney
    PurchaseBookedOnce
    DeletedOnlyBought
    NamesUnambiguous
    CompletesWhenConfirmed
    MemberTakesOnce
    AllocationWithinTotal
PROPERTIES
    ConfirmedIsFinal
SYMMETRY GrocerySymmetry
CHECK_DEADLOCK FALSE
