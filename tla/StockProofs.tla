----------------------------- MODULE StockProofs -----------------------------
(***************************************************************************)
(* The rows of a grocery group and what their counts promise: the types of *)
(* everything stored, and the properties that add up movements: the stock, *)
(* the goods of a purchase against the money, what a member has taken.     *)
(***************************************************************************)
EXTENDS GroceryProofs, LedgerProofs

-----------------------------------------------------------------------------
(* What every row and every request looks like. *)

\* An item with something in it, and a distribution of such items.
StoredItem ==
    [status : ItemStatus, allocated : Nat \ {0},
     override : Quantity \cup {None}, key : Key \cup {None}]

StoredRow ==
    [status : DistributionStatus,
     items : UNION {[s -> StoredItem] : s \in SUBSET Item}]

\* The movements are a bag of rows, and only finitely many.
MovementRow(m) ==
    /\ m.product \in Product
    /\ m.type \in {"IN", "OUT", "ADJUSTMENT"}
    /\ m.quantity \in Nat \ {0}
    /\ m.loss \in BOOLEAN

MovementsOK ==
    /\ movement \in [DOMAIN movement -> Nat \ {0}]
    /\ IsFiniteSet(DOMAIN movement)
    /\ \A m \in DOMAIN movement : MovementRow(m)

\* A request to create a distribution, with its quantities and overrides.
ShareRow ==
    [pc : {"available", "share"}, id : Distribution,
     wanted : UNION {[s -> Quantity] : s \in SUBSET Product},
     overrides : UNION {[s -> Quantity] : s \in SUBSET (User \X Product)},
     left : SUBSET Product]

ItemPc == {"set", "confirm", "take", "out", "answer", "count", "complete"}
OrderPc == {"approve", "reject", "stock", "debit", "ledger"}

CallType(call) ==
    \/ call \in CatalogueCall \cup PurchaseCall \cup DistributionCall
    \/ call \in ShareRow /\ ShareCall(call)

\* The row a request has read is still there: rows are never removed.
CallRow(call) ==
    /\ call.pc \in {"rename", "deactivate", "delete"} => product[call.id] # None
    /\ call.pc \in OrderPc => purchase[call.id] # None
    /\ call.pc = "status" => distribution[call.id] # None
    /\ call.pc \in ItemPc => HasItem(call.id, call.item)

RowsOK ==
    /\ product \in [Product -> ProductRow \cup {None}]
    /\ purchase \in [Purchase -> PurchaseRow \cup {None}]
    /\ distribution \in [Distribution -> StoredRow \cup {None}]
    /\ answered \subseteq Key
    /\ MovementsOK

CallsOK ==
    /\ DOMAIN groceryCall = GroceryCaller
    /\ \A c \in GroceryCaller : groceryCall[c] # None =>
          CallType(groceryCall[c]) /\ CallRow(groceryCall[c])

StoreInv == scene \in Scene /\ RowsOK /\ CallsOK

\* A request to create a distribution has an id of its own.
Sharing(c) ==
    groceryCall[c] # None /\ groceryCall[c].pc \in {"available", "share"}

SharesInv ==
    \A c \in GroceryCaller : Sharing(c) =>
        /\ distribution[groceryCall[c].id] = None
        /\ \A b \in GroceryCaller \ {c} :
              Sharing(b) => groceryCall[b].id # groceryCall[c].id

-----------------------------------------------------------------------------
(* The inductive invariants of the properties. *)

OnlyOne == Alone => OneRequest

\* Stock that a handler has found sufficient is still there when it takes it.
StockInv ==
    Alone =>
        /\ \A p \in Product : Stock(p) >= 0
        /\ \A c \in GroceryCaller : GroceryAt(c, "out") =>
              Stock(groceryCall[c].item[2]) >= TakenQuantity(TheItem(groceryCall[c]))

\* A handler that will take an item has found it not taken.
TakesInv ==
    scene.desk = "collect" /\ Alone =>
        /\ \A d \in Distribution, i \in Item : TimesTaken(d, i) <= 1
        /\ \A c \in GroceryCaller :
              groceryCall[c] # None /\ groceryCall[c].pc \in {"confirm", "take", "out"} =>
                 ~ WasTaken(groceryCall[c].id, groceryCall[c].item)

\* An officer at work on an item has found it not confirmed.
FinalInv ==
    Alone => \A c \in GroceryCaller : GroceryAt(c, "set") =>
        distribution[groceryCall[c].id].items[groceryCall[c].item].status
           # "CONFIRMED"

\* The goods that came in for a purchase.
Arrivals(b) == {m \in DOMAIN movement : m.type = "IN" /\ m.ref = b}
Arrived(b) == SumFunctionOnSet(movement, Arrivals(b))

\* The handlers that have brought in the goods of a purchase and not yet been
\* to the ledger.
Owing(b) ==
    {c \in GroceryCaller : /\ groceryCall[c] # None
                           /\ groceryCall[c].pc \in {"debit", "ledger"}
                           /\ groceryCall[c].id = b}

\* Every debit, done or still to be asked for, has a delivery of its own.
DeliveriesCover(b) ==
    \E k \in Nat :
        /\ Arrived(b) = k * Cardinality(DOMAIN purchase[b].lines)
        /\ Cardinality(Debits(b)) + Cardinality(Owing(b)) <= k

GoodsRow(b) ==
    /\ purchase[b] = None => Arrivals(b) = {} /\ Debits(b) = {}
    /\ purchase[b] # None => DeliveriesCover(b)
    /\ Arrivals(b) # {} => purchase[b].approvedBy # None

\* A handler brings in and pays for what someone has approved, and enters a
\* purchase under an id nobody else has.
GoodsCall(c) ==
    /\ \A pc \in {"stock", "debit", "ledger"} : GroceryAt(c, pc) =>
          purchase[groceryCall[c].id].approvedBy # None
    /\ GroceryAt(c, "ledger") => tx[c] # None /\ tx[c].ref = groceryCall[c].id
    /\ GroceryAt(c, "buy") =>
          /\ purchase[groceryCall[c].id] = None
          /\ \A d \in GroceryCaller \ {c} : GroceryAt(d, "buy") =>
                groceryCall[d].id # groceryCall[c].id

GoodsInv ==
    /\ \A b \in Purchase : GoodsRow(b)
    /\ \A c \in GroceryCaller : GoodsCall(c)

\* Only an approved purchase has come in, and only once.
BookedInv ==
    Alone =>
        /\ \A b \in Purchase : Arrivals(b) # {} =>
              /\ purchase[b] # None
              /\ purchase[b].status = "APPROVED"
              /\ Arrived(b) = Cardinality(DOMAIN purchase[b].lines)
        /\ \A c \in GroceryCaller : groceryCall[c] # None =>
              /\ groceryCall[c].pc \in {"approve", "reject"} =>
                    purchase[groceryCall[c].id].status = "PENDING_APPROVAL"
              /\ groceryCall[c].pc = "stock" =>
                    /\ purchase[groceryCall[c].id].status = "APPROVED"
                    /\ Arrivals(groceryCall[c].id) = {}
              /\ groceryCall[c].pc = "buy" => purchase[groceryCall[c].id] = None

\* A handler that will adjust a product has found it live, one that will delete
\* it has found nothing moved.
DeletedCall(c) ==
    groceryCall[c] # None =>
        /\ groceryCall[c].pc \in {"weigh", "adjust"} => Live(groceryCall[c].id)
        /\ groceryCall[c].pc = "delete" => ~ HasMoved(groceryCall[c].id)

\* What was adjusted has a product that is there.
DeletedInv ==
    Alone =>
        /\ \A m \in DOMAIN movement : m.type = "ADJUSTMENT" => Live(m.product)
        /\ \A c \in GroceryCaller : DeletedCall(c)

-----------------------------------------------------------------------------
(* The types of the rows and requests. *)

\* The handlers of DistributionService at work on an item.
ItemRec ==
    [pc : ItemPc, op : {"set", "confirm", "answer"}, id : Distribution,
     item : Item, status : ItemStatus, key : Key \cup {None},
     collected : BOOLEAN]

OrderRec == [pc : OrderPc, id : Purchase, by : Officer]

\* A request of the catalogue, by what it is about to do.
ProductRec(call) ==
    /\ call.id \in Product
    /\ call.pc \in {"weigh", "adjust"} => call.change \in Change
    /\ call.pc = "create" => call.name \in ProductName
    /\ call.pc = "rename" =>
          call.name \in ProductName \cup {None} /\ call.active \in BOOLEAN \cup {None}

\* What the handler of a caller has in its hands, by where it is.
LEMMA CallIs ==
    ASSUME NEW call, CallType(call)
    PROVE  /\ call.pc \in {"weigh", "adjust", "create", "rename", "deactivate",
                           "delete"} => call \in CatalogueCall /\ ProductRec(call)
           /\ call.pc = "buy" =>
                 call \in [pc : {"buy"}, id : Purchase, lines : Basket, by : Officer]
           /\ call.pc \in OrderPc => call \in OrderRec
           /\ call.pc \in ItemPc => call \in ItemRec
           /\ call.pc = "status" =>
                 call \in [pc : {"status"}, id : Distribution, status : DistributionStatus]
           /\ call.pc \in {"available", "share"} => call \in ShareRow /\ ShareCall(call)
<1>1. CASE call \in CatalogueCall
    BY <1>1 DEF CatalogueCall, ProductRec, OrderPc, ItemPc
<1>2. CASE call \in PurchaseCall
    BY <1>2 DEF PurchaseCall, OrderRec, OrderPc, ItemPc
<1>3. CASE call \in DistributionCall
    BY <1>3 DEF DistributionCall, ItemRec, OrderPc, ItemPc
<1>4. CASE call \in ShareRow /\ ShareCall(call)
    BY <1>4 DEF ShareRow, OrderPc, ItemPc
<1>5. QED
    BY <1>1, <1>2, <1>3, <1>4 DEF CallType

\* The handler of a caller moves on inside its own part of the service.
LEMMA CallGoes ==
    ASSUME NEW call, CallType(call), NEW pc,
           \/ call.pc = "weigh" /\ pc = "adjust"
           \/ call.pc \in OrderPc /\ pc \in OrderPc
           \/ call.pc \in ItemPc /\ pc \in ItemPc
    PROVE  /\ CallType([call EXCEPT !.pc = pc])
           /\ [call EXCEPT !.pc = pc].pc = pc
           /\ [call EXCEPT !.pc = pc].id = call.id
           /\ call.pc \in ItemPc => [call EXCEPT !.pc = pc].item = call.item
<1>1. PICK x : x = [call EXCEPT !.pc = pc]
    OBVIOUS
<1>2. CASE call.pc = "weigh" /\ pc = "adjust"
    <2>1. call \in [pc : {"weigh", "adjust"}, id : Product, change : Change]
        BY <1>2, CallIs DEF CatalogueCall
    <2>2. x \in [pc : {"weigh", "adjust"}, id : Product, change : Change]
          /\ x.pc = pc /\ x.id = call.id
        BY <1>1, <1>2, <2>1
    <2>3. QED
        BY <1>1, <1>2, <2>2 DEF CallType, CatalogueCall, ItemPc
<1>3. CASE call.pc \in OrderPc /\ pc \in OrderPc
    <2>1. call \in OrderRec
        BY <1>3, CallIs
    <2>2. x \in OrderRec /\ x.pc = pc /\ x.id = call.id
        BY <1>1, <1>3, <2>1 DEF OrderRec
    <2>3. x \in PurchaseCall
        BY <2>2 DEF OrderRec, PurchaseCall, OrderPc
    <2>4. QED
        BY <1>1, <1>3, <2>2, <2>3 DEF CallType, OrderPc, ItemPc
<1>4. CASE call.pc \in ItemPc /\ pc \in ItemPc
    <2>1. call \in ItemRec
        BY <1>4, CallIs
    <2>2. x \in ItemRec /\ x.pc = pc /\ x.id = call.id /\ x.item = call.item
        BY <1>1, <1>4, <2>1 DEF ItemRec
    <2>3. x \in DistributionCall
        BY <2>2 DEF ItemRec, DistributionCall, ItemPc
    <2>4. QED
        BY <1>1, <2>2, <2>3 DEF CallType
<1>5. QED
    BY <1>2, <1>3, <1>4

-----------------------------------------------------------------------------
(* Every step keeps the types. *)

rows == <<scene, product, movement, purchase, distribution, answered>>

RowsStay ==
    /\ \A p \in Product : product[p] # None => product'[p] # None
    /\ \A b \in Purchase : purchase[b] # None => purchase'[b] # None
    /\ \A d \in Distribution : distribution[d] # None => distribution'[d] # None
    /\ \A d \in Distribution, i \in Item : HasItem(d, i) => HasItem(d, i)'

\* The step leaves rows of their types and removes none.
RowsKept == UNCHANGED scene /\ RowsOK' /\ RowsStay

LEMMA RowsUnchanged ==
    ASSUME StoreInv, UNCHANGED rows
    PROVE  RowsKept
BY DEF StoreInv, RowsOK, MovementsOK, RowsKept, RowsStay, HasItem, rows

LEMMA CallMoves ==
    ASSUME StoreInv, NEW c \in GroceryCaller, NEW x, RowsKept,
           groceryCall' = [groceryCall EXCEPT ![c] = x],
           x # None => CallType(x) /\ CallRow(x)'
    PROVE  StoreInv'
<1>1. ASSUME NEW b \in GroceryCaller, groceryCall'[b] # None
      PROVE  CallType(groceryCall'[b]) /\ CallRow(groceryCall[b])'
    <2>1. CASE b = c
        BY <1>1, <2>1 DEF StoreInv, CallsOK, CallRow
    <2>2. CASE b # c
        <3>1. groceryCall'[b] = groceryCall[b]
            BY <2>2 DEF StoreInv, CallsOK
        <3>2. CallType(groceryCall[b]) /\ CallRow(groceryCall[b])
            BY <1>1, <3>1 DEF StoreInv, CallsOK
        <3>3. CallRow(groceryCall[b])'
            BY <3>1, <3>2, CallIs DEF CallRow, RowsKept, RowsStay, ProductRec,
               OrderRec, ItemRec, HasItem
        <3>4. QED
            BY <3>1, <3>2, <3>3
    <2>3. QED
        BY <2>1, <2>2
<1>2. DOMAIN groceryCall' = GroceryCaller
    BY DEF StoreInv, CallsOK
<1>3. QED
    BY <1>1, <1>2 DEF StoreInv, CallsOK, RowsKept, CallType, ShareCall

\* The handler returns, throws, or dies.
LEMMA ReturnKeeps ==
    ASSUME StoreInv, NEW c \in GroceryCaller, RowsKept, GroceryReturn(c)
    PROVE  StoreInv'
<1>1. PICK x : x = None
    OBVIOUS
<1>2. groceryCall' = [groceryCall EXCEPT ![c] = x]
    BY <1>1 DEF GroceryReturn
<1>3. QED
    BY <1>1, <1>2, CallMoves

\* A request starts with a row it has just read.
LEMMA StartKeeps ==
    ASSUME StoreInv, NEW c \in GroceryCaller, NEW x, UNCHANGED rows,
           GroceryStart(c, x), CallType(x), CallRow(x)
    PROVE  StoreInv'
<1>1. RowsKept
    BY RowsUnchanged
<1>2. CallRow(x)'
    BY DEF CallRow, HasItem, rows
<1>3. QED
    BY <1>1, <1>2, CallMoves DEF GroceryStart

\* The handler goes on to its next step.
LEMMA GotoKeeps ==
    ASSUME StoreInv, NEW c \in GroceryCaller, RowsKept, NEW from, NEW pc,
           GroceryAt(c, from),
           \/ from = "weigh" /\ pc = "adjust"
           \/ from \in OrderPc /\ pc \in OrderPc
           \/ from \in ItemPc /\ pc \in ItemPc,
           GroceryGoto(c, pc)
    PROVE  StoreInv'
<1>1. PICK x : x = [groceryCall[c] EXCEPT !.pc = pc]
    OBVIOUS
<1>2. groceryCall' = [groceryCall EXCEPT ![c] = x]
    BY <1>1 DEF GroceryGoto
<1>3. /\ CallType(groceryCall[c]) /\ CallRow(groceryCall[c])
      /\ groceryCall[c].pc = from
    BY DEF StoreInv, CallsOK, GroceryAt
<1>4. /\ CallType(x)
      /\ x.pc = pc /\ x.id = groceryCall[c].id
      /\ from \in ItemPc => x.item = groceryCall[c].item
    BY <1>1, <1>3, CallGoes
<1>5. CallRow(x)'
    <2>1. CASE from \in OrderPc /\ pc \in OrderPc
        <3>1. x.id \in Purchase /\ purchase[x.id] # None
            BY <1>3, <1>4, <2>1, CallIs DEF CallRow, OrderRec
        <3>2. QED
            BY <1>4, <2>1, <3>1 DEF CallRow, RowsKept, RowsStay, OrderPc, ItemPc
    <2>2. CASE from \in ItemPc /\ pc \in ItemPc
        <3>1. x.id \in Distribution /\ x.item \in Item /\ HasItem(x.id, x.item)
            BY <1>3, <1>4, <2>2, CallIs DEF CallRow, ItemRec
        <3>2. HasItem(x.id, x.item)'
            BY <3>1 DEF RowsKept, RowsStay
        <3>3. QED
            BY <1>4, <2>2, <3>2 DEF CallRow, OrderPc, ItemPc, HasItem
    <2>3. CASE pc = "adjust"
        BY <1>4, <2>3 DEF CallRow, OrderPc, ItemPc
    <2>4. QED
        BY <2>1, <2>2, <2>3
<1>6. QED
    BY <1>2, <1>4, <1>5, CallMoves

\* The handler at some point of its work.
LEMMA AtIs ==
    ASSUME StoreInv, NEW c \in GroceryCaller, NEW pc, GroceryAt(c, pc)
    PROVE  /\ groceryCall[c] # None /\ groceryCall[c].pc = pc
           /\ CallType(groceryCall[c]) /\ CallRow(groceryCall[c])
BY DEF StoreInv, CallsOK, GroceryAt

\* Inserted rows join the others.
LEMMA InsertKeeps ==
    ASSUME MovementsOK, NEW R, IsFiniteSet(R), \A m \in R : MovementRow(m),
           Insert(R)
    PROVE  /\ MovementsOK'
           /\ DOMAIN movement' = DOMAIN movement \cup R
           /\ \A m \in DOMAIN movement' :
                 movement'[m] = (IF m \in DOMAIN movement THEN movement[m] ELSE 0)
                                   + (IF m \in R THEN 1 ELSE 0)
<1>1. /\ DOMAIN movement' = DOMAIN movement \cup R
      /\ \A m \in DOMAIN movement' :
            movement'[m] = (IF m \in DOMAIN movement THEN movement[m] ELSE 0)
                              + (IF m \in R THEN 1 ELSE 0)
    BY DEF Insert, (+), SetToBag
<1>2. IsFiniteSet(DOMAIN movement')
    <2>1. IsFiniteSet(DOMAIN movement)
        BY DEF MovementsOK
    <2>2. IsFiniteSet(DOMAIN movement \cup R)
        BY <2>1, FS_Union
    <2>3. QED
        BY <1>1, <2>2
<1>3. movement' \in [DOMAIN movement' -> Nat \ {0}]
    <2>1. movement' = [m \in DOMAIN movement' |-> movement'[m]]
        BY DEF Insert, (+), SetToBag
    <2>2. \A m \in DOMAIN movement' : movement'[m] \in Nat \ {0}
        BY <1>1 DEF MovementsOK
    <2>3. QED
        BY <2>1, <2>2
<1>4. \A m \in DOMAIN movement' : MovementRow(m)
    BY <1>1 DEF MovementsOK
<1>5. QED
    BY <1>1, <1>2, <1>3, <1>4 DEF MovementsOK, MovementRow

\* A step that only inserts movements keeps the rows.
LEMMA InsertKeepsRows ==
    ASSUME StoreInv, NEW R, IsFiniteSet(R), \A m \in R : MovementRow(m),
           Insert(R), UNCHANGED <<scene, product, purchase, distribution, answered>>
    PROVE  RowsKept
<1>1. MovementsOK'
    BY InsertKeeps DEF StoreInv, RowsOK
<1>2. QED
    BY <1>1 DEF StoreInv, RowsOK, RowsKept, RowsStay, HasItem

-----------------------------------------------------------------------------
(* Products and stock. *)

LEMMA MovementIsRow ==
    ASSUME NEW p \in Product, NEW type \in {"IN", "OUT", "ADJUSTMENT"},
           NEW quantity \in Int \ {0}, NEW ref
    PROVE  /\ MovementRow(Movement(p, type, quantity, ref))
           /\ Movement(p, type, quantity, ref).product = p
           /\ Movement(p, type, quantity, ref).type = type
           /\ Movement(p, type, quantity, ref).ref = ref
           /\ quantity > 0 => Movement(p, type, quantity, ref).quantity = quantity
BY DEF MovementRow, Movement

LEMMA ChangeIsInt ==
    ASSUME NEW change \in Change
    PROVE  change \in Int \ {0}
<1>1. CASE change \in Quantity
    BY <1>1, CatalogueAssumption
<1>2. ASSUME NEW q \in Quantity, change = -q
      PROVE  change \in Int \ {0}
    <2>1. q \in Nat \ {0}
        BY CatalogueAssumption
    <2>2. QED
        BY <1>2, <2>1
<1>3. QED
    BY <1>1, <1>2 DEF Change

\* A scene asks for quantities, and for the changes they come to.
LEMMA DealtIs ==
    /\ Dealt \subseteq Quantity
    /\ Dealt \cup {-q : q \in Dealt} \subseteq Change
BY GroceryAssumption DEF Dealt, Change

LEMMA StockKeepsTypes ==
    ASSUME StoreInv, NEW c \in GroceryCaller, UNCHANGED scene, StockStep(c)
    PROVE  StoreInv'
<1>1. ASSUME NEW p \in Product, NEW change \in Change, ReadForAdjust(c, p, change)
      PROVE  StoreInv'
    <2>1. PICK x : x = [pc |-> IF change < 0 THEN "weigh" ELSE "adjust",
                        id |-> p, change |-> change]
        OBVIOUS
    <2>2. x \in CatalogueCall /\ x.pc \in {"weigh", "adjust"}
        BY <2>1 DEF CatalogueCall
    <2>3. CallType(x) /\ CallRow(x)
        BY <2>2 DEF CallType, CallRow, OrderPc, ItemPc
    <2>4. GroceryStart(c, x)
        BY <1>1, <2>1 DEF ReadForAdjust
    <2>5. UNCHANGED rows
        BY <1>1 DEF StockStep, ReadForAdjust, rows
    <2>6. QED
        BY <2>3, <2>4, <2>5, StartKeeps
<1>2. ASSUME WeighAdjust(c)
      PROVE  StoreInv'
    <2>1. RowsKept
        BY <1>2, RowsUnchanged DEF StockStep, WeighAdjust, rows
    <2>2. QED
        BY <1>2, <2>1, ReturnKeeps, GotoKeeps DEF WeighAdjust
<1>3. ASSUME InsertAdjust(c)
      PROVE  StoreInv'
    <2>1. /\ groceryCall[c].id \in Product
          /\ groceryCall[c].change \in Change
        BY <1>3, AtIs, CallIs DEF InsertAdjust, ProductRec
    <2>2. groceryCall[c].change \in Int \ {0}
        BY <2>1, ChangeIsInt
    <2>3. PICK m : m = Movement(groceryCall[c].id, "ADJUSTMENT",
                                groceryCall[c].change, None)
        OBVIOUS
    <2>4. MovementRow(m)
        BY <2>1, <2>2, <2>3, MovementIsRow
    <2>5. IsFiniteSet({m})
        BY FS_Singleton
    <2>6. RowsKept
        BY <1>3, <2>3, <2>4, <2>5, InsertKeepsRows DEF InsertAdjust, StockStep
    <2>7. QED
        BY <1>3, <2>6, ReturnKeeps DEF InsertAdjust
<1>4. QED
    BY <1>1, <1>2, <1>3, DealtIs DEF StockStep

\* A product row is written.
LEMMA ProductWritten ==
    ASSUME StoreInv, NEW p \in Product, NEW row \in ProductRow,
           product' = [product EXCEPT ![p] = row] \/ UNCHANGED product,
           UNCHANGED <<scene, movement, purchase, distribution, answered>>
    PROVE  RowsKept
BY CatalogueAssumption
DEF StoreInv, RowsOK, MovementsOK, RowsKept, RowsStay, HasItem

LEMMA ProductKeepsTypes ==
    ASSUME StoreInv, NEW c \in GroceryCaller, UNCHANGED scene, ProductStep(c)
    PROVE  StoreInv'
<1>1. ASSUME NEW x, x \in CatalogueCall, CallRow(x), GroceryStart(c, x),
             UNCHANGED <<product, movement>>
      PROVE  StoreInv'
    <2>1. UNCHANGED rows
        BY <1>1 DEF ProductStep, rows
    <2>2. QED
        BY <1>1, <2>1, StartKeeps DEF CallType
<1>2. ASSUME NEW p \in Product, NEW name \in ProductName, ReadForCreate(c, p, name)
      PROVE  StoreInv'
    <2>1. PICK x : x = [pc |-> "create", id |-> p, name |-> name]
        OBVIOUS
    <2>2. x \in CatalogueCall /\ CallRow(x)
        BY <2>1 DEF CatalogueCall, CallRow, OrderPc, ItemPc
    <2>3. QED
        BY <1>1, <1>2, <2>1, <2>2 DEF ReadForCreate
<1>3. ASSUME NEW p \in Product, NEW name \in ProductName \cup {None},
             NEW active \in BOOLEAN \cup {None}, ReadForUpdate(c, p, name, active)
      PROVE  StoreInv'
    <2>1. PICK x : x = [pc |-> "rename", id |-> p, name |-> name, active |-> active]
        OBVIOUS
    <2>2. x \in [pc : {"rename"}, id : Product, name : ProductName \cup {None},
                 active : BOOLEAN \cup {None}]
        BY <2>1
    <2>3. x \in CatalogueCall /\ x.pc = "rename" /\ x.id = p
        BY <2>1, <2>2 DEF CatalogueCall
    <2>4. CallRow(x)
        BY <1>3, <2>3 DEF CallRow, OrderPc, ItemPc, ReadForUpdate, Live
    <2>5. QED
        BY <1>1, <1>3, <2>1, <2>3, <2>4 DEF ReadForUpdate
<1>4. ASSUME NEW p \in Product, ReadForDelete(c, p)
      PROVE  StoreInv'
    <2>1. PICK x : x = [pc |-> IF HasMoved(p) THEN "deactivate" ELSE "delete",
                        id |-> p]
        OBVIOUS
    <2>2. x \in CatalogueCall /\ x.pc \in {"deactivate", "delete"} /\ x.id = p
        BY <2>1 DEF CatalogueCall
    <2>3. CallRow(x)
        BY <1>4, <2>2 DEF CallRow, OrderPc, ItemPc, ReadForDelete, Live
    <2>4. QED
        BY <1>1, <1>4, <2>1, <2>2, <2>3 DEF ReadForDelete
<1>5. ASSUME NEW p \in Product, NEW row \in ProductRow, GroceryReturn(c),
             product' = [product EXCEPT ![p] = row] \/ UNCHANGED product,
             UNCHANGED movement
      PROVE  StoreInv'
    <2>1. RowsKept
        BY <1>5, ProductWritten DEF ProductStep
    <2>2. QED
        BY <1>5, <2>1, ReturnKeeps
<1>6. ASSUME InsertProduct(c)
      PROVE  StoreInv'
    <2>1. groceryCall[c].id \in Product /\ groceryCall[c].name \in ProductName
        BY <1>6, AtIs, CallIs DEF InsertProduct, ProductRec
    <2>2. PICK row : row = [name |-> groceryCall[c].name, active |-> TRUE,
                            deleted |-> FALSE]
        OBVIOUS
    <2>3. row \in ProductRow
        BY <2>1, <2>2 DEF ProductRow
    <2>4. \/ product' = [product EXCEPT ![groceryCall[c].id] = row]
          \/ UNCHANGED product
        BY <1>6, <2>2 DEF InsertProduct
    <2>5. QED
        BY <1>5, <1>6, <2>1, <2>3, <2>4 DEF InsertProduct
<1>7. ASSUME NEW pc \in {"rename", "deactivate", "delete"}, GroceryAt(c, pc)
      PROVE  groceryCall[c].id \in Product /\ product[groceryCall[c].id] \in ProductRow
    <2>1. /\ groceryCall[c].id \in Product
          /\ product[groceryCall[c].id] # None
        BY <1>7, AtIs, CallIs DEF ProductRec, CallRow
    <2>2. QED
        BY <2>1 DEF StoreInv, RowsOK
<1>8. ASSUME ApplyUpdate(c)
      PROVE  StoreInv'
    <2>1. /\ groceryCall[c].id \in Product
          /\ product[groceryCall[c].id] \in ProductRow
        BY <1>7, <1>8 DEF ApplyUpdate
    <2>2. /\ groceryCall[c].name \in ProductName \cup {None}
          /\ groceryCall[c].active \in BOOLEAN \cup {None}
        BY <1>8, AtIs, CallIs DEF ApplyUpdate, ProductRec
    <2>3. PICK stored \in ProductRow : stored = product[groceryCall[c].id]
        BY <2>1
    <2>4. PICK row : row = [stored EXCEPT
                               !.name = Given(groceryCall[c].name, @),
                               !.active = Given(groceryCall[c].active, @)]
        OBVIOUS
    <2>5. row \in ProductRow
        BY <2>2, <2>4 DEF ProductRow, Given
    <2>6. \/ product' = [product EXCEPT ![groceryCall[c].id] = row]
          \/ UNCHANGED product
        <3>1. CASE product' = product
            BY <3>1
        <3>2. CASE product' = [product EXCEPT
                      ![groceryCall[c].id].name = Given(groceryCall[c].name, @),
                      ![groceryCall[c].id].active = Given(groceryCall[c].active, @)]
            BY <2>1, <2>3, <2>4, <3>2 DEF ProductRow, StoreInv, RowsOK
        <3>3. QED
            BY <1>8, <3>1, <3>2 DEF ApplyUpdate
    <2>7. QED
        BY <1>5, <1>8, <2>1, <2>5, <2>6 DEF ApplyUpdate
<1>9. ASSUME Deactivate(c)
      PROVE  StoreInv'
    <2>1. /\ groceryCall[c].id \in Product
          /\ product[groceryCall[c].id] \in ProductRow
        BY <1>7, <1>9 DEF Deactivate
    <2>2. PICK row : row = [product[groceryCall[c].id] EXCEPT !.active = FALSE]
        OBVIOUS
    <2>3. row \in ProductRow
        BY <2>1, <2>2 DEF ProductRow
    <2>4. product' = [product EXCEPT ![groceryCall[c].id] = row]
        BY <1>9, <2>2 DEF Deactivate
    <2>5. QED
        BY <1>5, <1>9, <2>1, <2>3, <2>4 DEF Deactivate
<1>10. ASSUME Delete(c)
       PROVE  StoreInv'
    <2>1. /\ groceryCall[c].id \in Product
          /\ product[groceryCall[c].id] \in ProductRow
        BY <1>7, <1>10 DEF Delete
    <2>2. PICK row : row = [product[groceryCall[c].id] EXCEPT !.deleted = TRUE]
        OBVIOUS
    <2>3. row \in ProductRow
        BY <2>1, <2>2 DEF ProductRow
    <2>4. product' = [product EXCEPT ![groceryCall[c].id] = row]
        BY <1>10, <2>2 DEF Delete
    <2>5. QED
        BY <1>5, <1>10, <2>1, <2>3, <2>4 DEF Delete
<1>11. Offered \subseteq Product
    BY GroceryAssumption DEF Offered
<1>12. QED
    BY <1>2, <1>3, <1>4, <1>6, <1>8, <1>9, <1>10, <1>11 DEF ProductStep

-----------------------------------------------------------------------------
(* Purchases. *)

\* The lines of a purchase: some products, each with what is bought of it.
LEMMA BasketIs ==
    ASSUME NEW lines \in Basket
    PROVE  /\ DOMAIN lines \subseteq Product
           /\ DOMAIN lines # {}
           /\ IsFiniteSet(DOMAIN lines)
           /\ Cardinality(DOMAIN lines) \in Nat \ {0}
           /\ \A p \in DOMAIN lines :
                 lines[p][1] \in Nat \ {0} /\ lines[p][2] \in Nat \ {0}
<1>1. PICK s \in (SUBSET Product) \ {{}} : lines \in [s -> Quantity \X Price]
    BY DEF Basket
<1>2. /\ DOMAIN lines = s /\ DOMAIN lines \subseteq Product /\ DOMAIN lines # {}
      /\ \A p \in DOMAIN lines : lines[p] \in Quantity \X Price
    BY <1>1
<1>3. IsFiniteSet(DOMAIN lines)
    BY <1>2, CatalogueAssumption, FS_Subset
<1>4. Cardinality(DOMAIN lines) \in Nat \ {0}
    <2>1. Cardinality(DOMAIN lines) \in Nat
        BY <1>3, FS_CardinalityType
    <2>2. Cardinality(DOMAIN lines) # 0
        BY <1>2, <1>3, FS_EmptySet
    <2>3. QED
        BY <2>1, <2>2
<1>5. Quantity \subseteq Nat \ {0} /\ Price \subseteq Nat \ {0}
    BY CatalogueAssumption, PurchaseAssumption
<1>6. \A p \in DOMAIN lines : lines[p][1] \in Quantity /\ lines[p][2] \in Price
    BY <1>2
<1>7. QED
    BY <1>2, <1>3, <1>4, <1>5, <1>6

LEMMA PurchaseWritten ==
    ASSUME StoreInv, NEW b \in Purchase, NEW row \in PurchaseRow,
           purchase' = [purchase EXCEPT ![b] = row],
           UNCHANGED <<scene, product, movement, distribution, answered>>
    PROVE  RowsKept
BY PurchaseAssumption
DEF StoreInv, RowsOK, MovementsOK, RowsKept, RowsStay, HasItem

\* A purchase a handler is at work on.
LEMMA OrderAt ==
    ASSUME StoreInv, NEW c \in GroceryCaller, NEW pc \in OrderPc, GroceryAt(c, pc)
    PROVE  /\ groceryCall[c] \in OrderRec
           /\ groceryCall[c].id \in Purchase
           /\ groceryCall[c].by \in Officer
           /\ purchase[groceryCall[c].id] \in PurchaseRow
<1>1. groceryCall[c] \in OrderRec /\ purchase[groceryCall[c].id] # None
    BY AtIs, CallIs DEF CallRow
<1>2. QED
    BY <1>1 DEF OrderRec, StoreInv, RowsOK

\* The goods of a purchase as rows of movements, one for each line.
LEMMA ReceiptsAre ==
    ASSUME NEW b \in Purchase, purchase[b] \in PurchaseRow
    PROVE  /\ IsFiniteSet(Receipts(b))
           /\ Cardinality(Receipts(b)) = Cardinality(DOMAIN purchase[b].lines)
           /\ \A m \in Receipts(b) :
                 /\ MovementRow(m)
                 /\ m.type = "IN" /\ m.ref = b
                 /\ m.product \in DOMAIN purchase[b].lines
<1>1. PICK lines \in Basket : lines = purchase[b].lines
    BY DEF PurchaseRow
<1>2. PICK f : f = [p \in DOMAIN lines |-> Movement(p, "IN", lines[p][1], b)]
    OBVIOUS
<1>3. \A p \in DOMAIN lines :
          /\ MovementRow(f[p])
          /\ f[p].type = "IN" /\ f[p].ref = b /\ f[p].product = p
    BY <1>2, BasketIs, MovementIsRow
<1>4. Receipts(b) = {f[p] : p \in DOMAIN lines}
    BY <1>1, <1>2 DEF Receipts
<1>5. f \in Bijection(DOMAIN lines, Receipts(b))
    <2>1. f \in [DOMAIN lines -> Receipts(b)]
        BY <1>2, <1>4
    <2>2. \A p, q \in DOMAIN lines : f[p] = f[q] => p = q
        BY <1>3
    <2>3. \A m \in Receipts(b) : \E p \in DOMAIN lines : f[p] = m
        BY <1>4
    <2>4. QED
        BY <2>1, <2>2, <2>3 DEF Bijection, Injection, Surjection, IsInjective
<1>6. ExistsBijection(DOMAIN lines, Receipts(b))
    BY <1>5 DEF ExistsBijection
<1>7. IsFiniteSet(Receipts(b)) /\ Cardinality(Receipts(b)) = Cardinality(DOMAIN lines)
    BY <1>6, BasketIs, FS_Bijection
<1>8. QED
    BY <1>1, <1>3, <1>4, <1>7

LEMMA PurchaseKeepsTypes ==
    ASSUME StoreInv, NEW c \in GroceryCaller, UNCHANGED scene, PurchaseStep(c)
    PROVE  StoreInv'
<1>1. ASSUME NEW b \in Purchase, NEW by \in User, NEW lines \in Basket,
             CreatePurchase(c, b, lines, by)
      PROVE  StoreInv'
    <2>1. PICK x : x = [pc |-> "buy", id |-> b, lines |-> lines, by |-> by]
        OBVIOUS
    <2>2. x \in PurchaseCall /\ x.pc = "buy"
        BY <1>1, <2>1 DEF PurchaseCall, CreatePurchase, MayManage
    <2>3. CallType(x) /\ CallRow(x)
        BY <2>2 DEF CallType, CallRow, OrderPc, ItemPc
    <2>4. GroceryStart(c, x) /\ UNCHANGED rows
        BY <1>1, <2>1 DEF CreatePurchase, PurchaseStep, rows
    <2>5. QED
        BY <2>3, <2>4, StartKeeps
<1>2. ASSUME NEW b \in Purchase, NEW by \in User, NEW pc \in {"approve", "reject"},
             ReadForReview(c, b, pc, by)
      PROVE  StoreInv'
    <2>1. PICK x : x = [pc |-> pc, id |-> b, by |-> by]
        OBVIOUS
    <2>2. x \in PurchaseCall /\ x.pc \in {"approve", "reject"} /\ x.id = b
        BY <1>2, <2>1 DEF PurchaseCall, ReadForReview, MayManage
    <2>3. CallType(x) /\ CallRow(x)
        BY <1>2, <2>2 DEF CallType, CallRow, OrderPc, ItemPc, ReadForReview
    <2>4. GroceryStart(c, x) /\ UNCHANGED rows
        BY <1>2, <2>1 DEF ReadForReview, PurchaseStep, rows
    <2>5. QED
        BY <2>3, <2>4, StartKeeps
<1>3. ASSUME InsertPurchase(c)
      PROVE  StoreInv'
    <2>1. /\ groceryCall[c].id \in Purchase /\ groceryCall[c].lines \in Basket
          /\ groceryCall[c].by \in Officer
        BY <1>3, AtIs, CallIs DEF InsertPurchase
    <2>2. PICK pending \in BOOLEAN : pending = NeedsApproval(groceryCall[c].lines)
        BY DEF NeedsApproval
    <2>3. PICK row : row = [status |-> IF pending THEN "PENDING_APPROVAL" ELSE "APPROVED",
                            lines |-> groceryCall[c].lines,
                            approvedBy |-> IF pending THEN None ELSE groceryCall[c].by]
        OBVIOUS
    <2>4. row \in PurchaseRow /\ row # None
        BY <2>1, <2>2, <2>3, GroupAssumption, PurchaseAssumption DEF PurchaseRow
    <2>5. purchase' = [purchase EXCEPT ![groceryCall[c].id] = row]
        BY <1>3, <2>2, <2>3 DEF InsertPurchase
    <2>6. RowsKept
        BY <1>3, <2>1, <2>4, <2>5, PurchaseWritten DEF InsertPurchase, PurchaseStep
    <2>7. CASE pending
        <3>1. groceryCall' = [groceryCall EXCEPT ![c] = None]
            BY <1>3, <2>2, <2>7 DEF InsertPurchase
        <3>2. QED
            BY <2>6, <3>1, ReturnKeeps DEF GroceryReturn
    <2>8. CASE ~ pending
        <3>1. PICK x : x = [pc |-> "stock", id |-> groceryCall[c].id,
                            by |-> groceryCall[c].by]
            OBVIOUS
        <3>2. groceryCall' = [groceryCall EXCEPT ![c] = x]
            BY <1>3, <2>2, <2>8, <3>1 DEF InsertPurchase
        <3>3. x \in PurchaseCall /\ x.pc = "stock" /\ x.id = groceryCall[c].id
            BY <2>1, <3>1 DEF PurchaseCall
        <3>4. purchase'[x.id] # None
            BY <2>1, <2>4, <2>5, <3>3 DEF StoreInv, RowsOK
        <3>5. CallType(x) /\ CallRow(x)'
            BY <3>3, <3>4 DEF CallType, CallRow, OrderPc, ItemPc
        <3>6. QED
            BY <2>6, <3>2, <3>5, CallMoves
    <2>9. QED
        BY <2>7, <2>8
<1>4. ASSUME ApprovePurchase(c)
      PROVE  StoreInv'
    <2>1. /\ groceryCall[c].id \in Purchase /\ groceryCall[c].by \in Officer
          /\ purchase[groceryCall[c].id] \in PurchaseRow
        BY <1>4, OrderAt DEF ApprovePurchase, OrderPc
    <2>2. PICK row : row = [purchase[groceryCall[c].id] EXCEPT
                               !.status = "APPROVED", !.approvedBy = groceryCall[c].by]
        OBVIOUS
    <2>3. row \in PurchaseRow
        BY <2>1, <2>2, GroupAssumption DEF PurchaseRow
    <2>4. purchase' = [purchase EXCEPT ![groceryCall[c].id] = row]
        BY <1>4, <2>2 DEF ApprovePurchase
    <2>5. RowsKept
        BY <1>4, <2>1, <2>3, <2>4, PurchaseWritten DEF ApprovePurchase, PurchaseStep
    <2>6. QED
        BY <1>4, <2>5, GotoKeeps DEF ApprovePurchase, OrderPc
<1>5. ASSUME RejectPurchase(c)
      PROVE  StoreInv'
    <2>1. /\ groceryCall[c].id \in Purchase
          /\ purchase[groceryCall[c].id] \in PurchaseRow
        BY <1>5, OrderAt DEF RejectPurchase, OrderPc
    <2>2. PICK row : row = [purchase[groceryCall[c].id] EXCEPT !.status = "REJECTED"]
        OBVIOUS
    <2>3. row \in PurchaseRow
        BY <2>1, <2>2 DEF PurchaseRow
    <2>4. purchase' = [purchase EXCEPT ![groceryCall[c].id] = row]
        BY <1>5, <2>2 DEF RejectPurchase
    <2>5. RowsKept
        BY <1>5, <2>1, <2>3, <2>4, PurchaseWritten DEF RejectPurchase, PurchaseStep
    <2>6. QED
        BY <1>5, <2>5, ReturnKeeps DEF RejectPurchase
<1>6. ASSUME ReceiveGoods(c)
      PROVE  StoreInv'
    <2>1. /\ groceryCall[c].id \in Purchase
          /\ purchase[groceryCall[c].id] \in PurchaseRow
        BY <1>6, OrderAt DEF ReceiveGoods, OrderPc
    <2>2. RowsKept
        BY <1>6, <2>1, ReceiptsAre, InsertKeepsRows DEF ReceiveGoods, PurchaseStep
    <2>3. QED
        BY <1>6, <2>2, GotoKeeps DEF ReceiveGoods, OrderPc
<1>7. ASSUME StartPurchaseDebit(c) \/ EndPurchaseDebit(c)
      PROVE  StoreInv'
    <2>1. RowsKept
        BY <1>7, RowsUnchanged
        DEF PurchaseStep, StartPurchaseDebit, EndPurchaseDebit, rows
    <2>2. QED
        BY <1>7, <2>1, GotoKeeps, ReturnKeeps
        DEF StartPurchaseDebit, EndPurchaseDebit, OrderPc
<1>8. QED
    BY <1>1, <1>2, <1>3, <1>4, <1>5, <1>6, <1>7 DEF PurchaseStep

-----------------------------------------------------------------------------
(* Distributions. *)

\* What an officer asks for, and the overrides: finitely many quantities.
LEMMA SharingIs ==
    ASSUME NEW call \in ShareRow, ShareCall(call)
    PROVE  /\ call.id \in Distribution
           /\ call.left \subseteq DOMAIN call.wanted
           /\ DOMAIN call.wanted \subseteq Product
           /\ \A p \in DOMAIN call.wanted : call.wanted[p] \in Nat \ {0}
           /\ IsFiniteSet(DOMAIN call.overrides)
           /\ DOMAIN call.overrides \subseteq User \X DOMAIN call.wanted
           /\ \A i \in DOMAIN call.overrides :
                 call.overrides[i] \in Quantity /\ call.overrides[i] \in Nat \ {0}
<1>1. PICK products \in SUBSET Product : call.wanted \in [products -> Quantity]
    BY DEF ShareCall
<1>2. /\ DOMAIN call.wanted \subseteq Product
      /\ \A p \in DOMAIN call.wanted : call.wanted[p] \in Nat \ {0}
    BY <1>1, CatalogueAssumption
<1>3. PICK s \in SUBSET (User \X DOMAIN call.wanted) :
         IsFiniteSet(s) /\ call.overrides \in [s -> Quantity]
    BY DEF ShareCall, Overrides
<1>4. /\ DOMAIN call.overrides = s
      /\ \A i \in s : call.overrides[i] \in Quantity
    BY <1>3
<1>5. Quantity \subseteq Nat \ {0}
    BY CatalogueAssumption
<1>6. QED
    BY <1>2, <1>3, <1>4, <1>5 DEF ShareCall

\* What is left of a quantity and the share of a member in it are numbers.
LEMMA ShareIsInt ==
    ASSUME NEW call \in ShareRow, ShareCall(call), NEW p \in DOMAIN call.wanted
    PROVE  /\ Remaining(call.wanted, call.overrides, p) \in Int
           /\ EqualShare(call.wanted, call.overrides, p) \in Int
<1>1. PICK S : S = {i \in DOMAIN call.overrides : i[2] = p}
    OBVIOUS
<1>2. IsFiniteSet(S) /\ \A i \in S : call.overrides[i] \in Int
    BY <1>1, SharingIs, FS_Subset
<1>3. SumFunctionOnSet(call.overrides, S) \in Int
    BY <1>2, SumInt
<1>4. Remaining(call.wanted, call.overrides, p) \in Int
    BY <1>1, <1>3, SharingIs DEF Remaining
<1>5. IsFiniteSet(Sharers(call.overrides, p))
    BY DistributionAssumption, FS_Subset DEF Sharers
<1>6. PICK n \in Nat : n = Cardinality(Sharers(call.overrides, p))
    BY <1>5, FS_CardinalityType
<1>7. PICK r \in Int : r = Remaining(call.wanted, call.overrides, p)
    BY <1>4
<1>8. n # 0 => (2 * r + n) \div (2 * n) \in Int
    OBVIOUS
<1>9. EqualShare(call.wanted, call.overrides, p) \in Int
    BY <1>6, <1>7, <1>8 DEF EqualShare
<1>10. QED
    BY <1>4, <1>9

\* The items of a new distribution that passes the CHECK.
LEMMA AllocationsAre ==
    ASSUME NEW call \in ShareRow, ShareCall(call), NEW items,
           items = Allocations(call.wanted, call.overrides), Storable(items)
    PROVE  /\ DOMAIN items = Recipient \X DOMAIN call.wanted
           /\ items \in [DOMAIN items -> StoredItem]
           /\ DOMAIN items \in SUBSET Item
           /\ [status |-> "ACTIVE", items |-> items] \in StoredRow
<1>1. DOMAIN items = Recipient \X DOMAIN call.wanted
    BY DEF Allocations
<1>2. DOMAIN items \in SUBSET Item
    BY <1>1, SharingIs DEF Item
<1>3. ASSUME NEW i \in DOMAIN items
      PROVE  items[i] \in StoredItem
    <2>1. i[2] \in DOMAIN call.wanted
        BY <1>1, <1>3
    <2>2. PICK a \in Int : a = EqualShare(call.wanted, call.overrides, i[2])
        BY <2>1, ShareIsInt
    <2>3. PICK o : o = OverrideOf(call.overrides, i)
        OBVIOUS
    <2>4. o \in Quantity \cup {None}
        BY <2>3, SharingIs DEF OverrideOf
    <2>5. items[i] = [status |-> "PENDING", allocated |-> a, override |-> o,
                      key |-> None]
        BY <1>1, <1>3, <2>2, <2>3 DEF Allocations
    <2>6. a > 0
        BY <1>3, <2>5 DEF Storable
    <2>7. QED
        BY <2>4, <2>5, <2>6 DEF StoredItem, ItemStatus
<1>4. items = [i \in DOMAIN items |-> items[i]]
    BY DEF Allocations
<1>5. items \in [DOMAIN items -> StoredItem]
    BY <1>3, <1>4
<1>6. items \in UNION {[s -> StoredItem] : s \in SUBSET Item}
    BY <1>2, <1>5
<1>7. QED
    BY <1>1, <1>2, <1>5, <1>6 DEF StoredRow, DistributionStatus

\* A distribution row and its items.
LEMMA StoredIs ==
    ASSUME NEW row \in StoredRow
    PROVE  /\ row \in DistributionRow /\ row # None
           /\ row.status \in DistributionStatus
           /\ DOMAIN row.items \in SUBSET Item
           /\ row.items \in [DOMAIN row.items -> StoredItem]
<1>1. PICK s \in SUBSET Item : row.items \in [s -> StoredItem]
    BY DEF StoredRow
<1>2. DOMAIN row.items = s
    BY <1>1
<1>3. StoredItem \subseteq ItemRow
    BY DEF StoredItem, ItemRow
<1>4. row.items \in [s -> ItemRow]
    BY <1>1, <1>3
<1>5. row.items \in UNION {[t -> ItemRow] : t \in SUBSET Item}
    BY <1>4
<1>6. row \in DistributionRow
    BY <1>5 DEF StoredRow, DistributionRow
<1>7. QED
    BY <1>1, <1>2, <1>6, DistributionAssumption DEF StoredRow

LEMMA DistributionWritten ==
    ASSUME StoreInv, NEW d \in Distribution, NEW row \in StoredRow,
           distribution[d] # None =>
              DOMAIN distribution[d].items \subseteq DOMAIN row.items,
           distribution' = [distribution EXCEPT ![d] = row],
           UNCHANGED <<scene, product, movement, purchase, answered>>
    PROVE  RowsKept
<1>1. distribution' \in [Distribution -> StoredRow \cup {None}]
    BY DEF StoreInv, RowsOK
<1>2. RowsOK'
    BY <1>1 DEF StoreInv, RowsOK, MovementsOK
<1>3. distribution'[d] = row /\ row # None
    BY StoredIs DEF StoreInv, RowsOK
<1>4. \A e \in Distribution \ {d} : distribution'[e] = distribution[e]
    BY DEF StoreInv, RowsOK
<1>5. RowsStay
    BY <1>3, <1>4 DEF RowsStay, HasItem
<1>6. QED
    BY <1>2, <1>5 DEF RowsKept

\* One item of a distribution is written, and nothing else of it.
LEMMA ItemWritten ==
    ASSUME StoreInv, NEW d \in Distribution, NEW i \in Item, HasItem(d, i),
           NEW item \in StoredItem, SetItem(d, i, item),
           UNCHANGED <<scene, product, movement, purchase, answered>>
    PROVE  /\ RowsKept
           /\ distribution'[d].status = distribution[d].status
           /\ distribution'[d].items = [distribution[d].items EXCEPT ![i] = item]
           /\ distribution'[d].items[i] = item
           /\ \A e \in Distribution \ {d} : distribution'[e] = distribution[e]
<1>1. /\ distribution[d] \in StoredRow
      /\ i \in DOMAIN distribution[d].items
      /\ DOMAIN distribution[d].items \in SUBSET Item
      /\ distribution[d].items \in [DOMAIN distribution[d].items -> StoredItem]
    BY StoredIs DEF HasItem, StoreInv, RowsOK
<1>2. PICK items : items = [distribution[d].items EXCEPT ![i] = item]
    OBVIOUS
<1>3. /\ DOMAIN items = DOMAIN distribution[d].items
      /\ items \in [DOMAIN items -> StoredItem]
      /\ items[i] = item
    BY <1>1, <1>2
<1>4. PICK row : row = [distribution[d] EXCEPT !.items = items]
    OBVIOUS
<1>5. items \in UNION {[s -> StoredItem] : s \in SUBSET Item}
    BY <1>1, <1>3
<1>6. row \in StoredRow /\ row.items = items /\ row.status = distribution[d].status
    BY <1>1, <1>4, <1>5 DEF StoredRow
<1>7. distribution' = [distribution EXCEPT ![d] = row]
    BY <1>2, <1>4 DEF SetItem
<1>8. RowsKept
    BY <1>3, <1>6, <1>7, DistributionWritten
<1>9. /\ distribution'[d] = row
      /\ \A e \in Distribution \ {d} : distribution'[e] = distribution[e]
    BY <1>7 DEF StoreInv, RowsOK
<1>10. QED
    BY <1>2, <1>3, <1>6, <1>8, <1>9

\* The status of a distribution is written, and nothing else of it.
LEMMA StatusWritten ==
    ASSUME StoreInv, NEW d \in Distribution, distribution[d] # None,
           NEW status \in DistributionStatus,
           distribution' = [distribution EXCEPT ![d].status = status],
           UNCHANGED <<scene, product, movement, purchase, answered>>
    PROVE  /\ RowsKept
           /\ distribution'[d].items = distribution[d].items
           /\ \A e \in Distribution \ {d} : distribution'[e] = distribution[e]
<1>1. distribution[d] \in StoredRow
    BY DEF StoreInv, RowsOK
<1>2. PICK row : row = [distribution[d] EXCEPT !.status = status]
    OBVIOUS
<1>3. row \in StoredRow /\ row.items = distribution[d].items
    BY <1>1, <1>2 DEF StoredRow
<1>4. distribution' = [distribution EXCEPT ![d] = row]
    BY <1>2
<1>5. RowsKept
    BY <1>3, <1>4, DistributionWritten
<1>6. /\ distribution'[d] = row
      /\ \A e \in Distribution \ {d} : distribution'[e] = distribution[e]
    BY <1>4 DEF StoreInv, RowsOK
<1>7. QED
    BY <1>3, <1>5, <1>6

\* An item a handler is at work on.
LEMMA ItemAt ==
    ASSUME StoreInv, NEW c \in GroceryCaller, NEW pc \in ItemPc, GroceryAt(c, pc)
    PROVE  /\ groceryCall[c] \in ItemRec
           /\ groceryCall[c].id \in Distribution
           /\ groceryCall[c].item \in Item
           /\ HasItem(groceryCall[c].id, groceryCall[c].item)
           /\ distribution[groceryCall[c].id] \in StoredRow
           /\ TheItem(groceryCall[c]) \in StoredItem
           /\ TakenQuantity(TheItem(groceryCall[c])) \in Nat \ {0}
<1>1. /\ groceryCall[c] \in ItemRec
      /\ groceryCall[c].id \in Distribution /\ groceryCall[c].item \in Item
      /\ HasItem(groceryCall[c].id, groceryCall[c].item)
    BY AtIs, CallIs DEF CallRow, ItemRec
<1>2. distribution[groceryCall[c].id] \in StoredRow
    BY <1>1 DEF HasItem, StoreInv, RowsOK
<1>3. TheItem(groceryCall[c]) \in StoredItem
    BY <1>1, <1>2, StoredIs DEF TheItem, HasItem
<1>4. TakenQuantity(TheItem(groceryCall[c])) \in Nat \ {0}
    BY <1>3, CatalogueAssumption DEF StoredItem, TakenQuantity
<1>5. QED
    BY <1>1, <1>2, <1>3, <1>4

\* A request about an item starts with the item as it is.
LEMMA ItemCallStarts ==
    ASSUME StoreInv, NEW c \in GroceryCaller, NEW d \in Distribution, NEW i \in Item,
           HasItem(d, i), NEW pc \in {"set", "confirm", "answer"},
           NEW status \in ItemStatus, NEW key \in Key \cup {None},
           GroceryStart(c, ItemCall(pc, d, i, status, key)), UNCHANGED rows
    PROVE  StoreInv'
<1>1. PICK collected \in BOOLEAN :
         collected = (distribution[d].items[i].status = "COLLECTED")
    OBVIOUS
<1>2. PICK x : x = ItemCall(pc, d, i, status, key)
    OBVIOUS
<1>3. x = [pc |-> pc, op |-> pc, id |-> d, item |-> i, status |-> status,
           key |-> key, collected |-> collected]
    BY <1>1, <1>2 DEF ItemCall
<1>4. x \in ItemRec /\ x.pc = pc /\ x.id = d /\ x.item = i
    BY <1>3 DEF ItemRec, ItemPc
<1>5. CallType(x)
    BY <1>4 DEF CallType, DistributionCall, ItemRec, ItemPc
<1>6. CallRow(x)
    BY <1>4 DEF CallRow, OrderPc
<1>7. QED
    BY <1>2, <1>5, <1>6, StartKeeps

LEMMA OfficerKeepsTypes ==
    ASSUME StoreInv, SharesInv, NEW c \in GroceryCaller, UNCHANGED scene,
           OfficerStep(c)
    PROVE  StoreInv'
<1>1. ASSUME NEW d \in Distribution, NEW by \in User,
             NEW products \in SUBSET Offered, NEW wanted \in [products -> Dealt],
             NEW overrides \in Overrides(products),
             CreateDistribution(c, d, wanted, overrides, by)
      PROVE  StoreInv'
    <2>1. PICK x : x = [pc |-> "available", id |-> d, wanted |-> wanted,
                        overrides |-> overrides, left |-> DOMAIN wanted]
        OBVIOUS
    <2>2. /\ products \in SUBSET Product /\ DOMAIN wanted = products
          /\ wanted \in [products -> Quantity]
        BY GroceryAssumption, DealtIs DEF Offered
    <2>3. overrides \in UNION {[s -> Quantity] : s \in SUBSET (User \X Product)}
        <3>1. PICK s \in SUBSET (User \X products) : overrides \in [s -> Quantity]
            BY DEF Overrides
        <3>2. s \in SUBSET (User \X Product)
            BY <2>2
        <3>3. QED
            BY <3>1, <3>2
    <2>4. wanted \in UNION {[s -> Quantity] : s \in SUBSET Product}
        BY <2>2
    <2>5. x \in ShareRow
        BY <2>1, <2>2, <2>3, <2>4 DEF ShareRow
    <2>6. ShareCall(x)
        BY <2>1, <2>2 DEF ShareCall
    <2>7. CallType(x) /\ CallRow(x)
        BY <2>1, <2>5, <2>6 DEF CallType, CallRow, OrderPc, ItemPc
    <2>8. GroceryStart(c, x) /\ UNCHANGED rows
        BY <1>1, <2>1 DEF CreateDistribution, OfficerStep, rows
    <2>9. QED
        BY <2>7, <2>8, StartKeeps
<1>2. ASSUME NEW d \in Distribution, NEW by \in User,
             NEW status \in DistributionStatus, ReadForStatus(c, d, status, by)
      PROVE  StoreInv'
    <2>1. PICK x : x = [pc |-> "status", id |-> d, status |-> status]
        OBVIOUS
    <2>2. CallType(x)
        BY <2>1 DEF CallType, DistributionCall
    <2>3. CallRow(x)
        BY <1>2, <2>1 DEF CallRow, OrderPc, ItemPc, ReadForStatus
    <2>4. GroceryStart(c, x) /\ UNCHANGED rows
        BY <1>2, <2>1 DEF ReadForStatus, OfficerStep, rows
    <2>5. QED
        BY <2>2, <2>3, <2>4, StartKeeps
<1>3. ASSUME NEW d \in Distribution, NEW by \in User, NEW i \in Item,
             NEW status \in ItemStatus, ReadForItemStatus(c, d, i, status, by)
      PROVE  StoreInv'
    <2>1. UNCHANGED rows
        BY <1>3 DEF ReadForItemStatus, OfficerStep, rows
    <2>2. QED
        BY <1>3, <2>1, ItemCallStarts DEF ReadForItemStatus
<1>4. ASSUME NEW p, CheckAvailable(c), p \in groceryCall[c].left,
             groceryCall' = [groceryCall EXCEPT ![c] =
                IF ~ Available(p, groceryCall[c].wanted[p]) THEN None
                ELSE [groceryCall[c] EXCEPT
                        !.left = @ \ {p},
                        !.pc = IF groceryCall[c].left = {p} THEN "share" ELSE @]]
      PROVE  StoreInv'
    <2>1. groceryCall[c] \in ShareRow /\ ShareCall(groceryCall[c])
        BY <1>4, AtIs, CallIs DEF CheckAvailable
    <2>2. PICK x : x = [groceryCall[c] EXCEPT
                          !.left = @ \ {p},
                          !.pc = IF groceryCall[c].left = {p} THEN "share" ELSE @]
        OBVIOUS
    <2>3. /\ x \in ShareRow
          /\ x.wanted = groceryCall[c].wanted /\ x.overrides = groceryCall[c].overrides
          /\ x.left \subseteq groceryCall[c].left /\ x.id = groceryCall[c].id
        BY <2>1, <2>2 DEF ShareRow
    <2>4. ShareCall(x)
        BY <2>1, <2>3 DEF ShareCall, ShareRow
    <2>5. CallType(x) /\ CallRow(x)'
        BY <2>3, <2>4 DEF CallType, CallRow, ShareRow, OrderPc, ItemPc
    <2>6. RowsKept
        BY <1>4, RowsUnchanged DEF CheckAvailable, OfficerStep, rows
    <2>7. CASE Available(p, groceryCall[c].wanted[p])
        BY <1>4, <2>2, <2>5, <2>6, <2>7, CallMoves
    <2>8. CASE ~ Available(p, groceryCall[c].wanted[p])
        BY <1>4, <2>6, <2>8, ReturnKeeps DEF GroceryReturn
    <2>9. QED
        BY <2>7, <2>8
<1>5. ASSUME InsertDistribution(c)
      PROVE  StoreInv'
    <2>1. /\ groceryCall[c] \in ShareRow /\ ShareCall(groceryCall[c])
          /\ groceryCall[c].id \in Distribution
        BY <1>5, AtIs, CallIs, SharingIs DEF InsertDistribution
    <2>2. PICK items : items = Allocations(groceryCall[c].wanted, groceryCall[c].overrides)
        OBVIOUS
    <2>3. PICK row : row = [status |-> "ACTIVE", items |-> items]
        OBVIOUS
    <2>4. CASE Storable(items)
        <3>1. row \in StoredRow /\ row.items = items
            BY <2>1, <2>2, <2>3, <2>4, AllocationsAre
        <3>2. distribution' = [distribution EXCEPT ![groceryCall[c].id] = row]
            BY <1>5, <2>2, <2>3, <2>4 DEF InsertDistribution
        <3>3. distribution[groceryCall[c].id] = None
            BY <1>5 DEF SharesInv, Sharing, InsertDistribution, GroceryAt
        <3>4. RowsKept
            BY <1>5, <2>1, <3>1, <3>2, <3>3, DistributionWritten
            DEF InsertDistribution, OfficerStep
        <3>5. QED
            BY <1>5, <3>4, ReturnKeeps DEF InsertDistribution
    <2>5. CASE ~ Storable(items)
        <3>1. RowsKept
            BY <1>5, <2>2, <2>5, RowsUnchanged DEF InsertDistribution, OfficerStep, rows
        <3>2. QED
            BY <1>5, <3>1, ReturnKeeps DEF InsertDistribution
    <2>6. QED
        BY <2>4, <2>5
<1>6. ASSUME WriteStatus(c)
      PROVE  StoreInv'
    <2>1. /\ groceryCall[c].id \in Distribution
          /\ groceryCall[c].status \in DistributionStatus
          /\ distribution[groceryCall[c].id] # None
        BY <1>6, AtIs, CallIs DEF WriteStatus, CallRow
    <2>2. RowsKept
        BY <1>6, <2>1, StatusWritten DEF WriteStatus, OfficerStep
    <2>3. QED
        BY <1>6, <2>2, ReturnKeeps DEF WriteStatus
<1>7. ASSUME WriteItemStatus(c)
      PROVE  StoreInv'
    <2>1. /\ groceryCall[c].id \in Distribution /\ groceryCall[c].item \in Item
          /\ HasItem(groceryCall[c].id, groceryCall[c].item)
          /\ TheItem(groceryCall[c]) \in StoredItem
          /\ groceryCall[c].status \in ItemStatus
        BY <1>7, ItemAt DEF WriteItemStatus, ItemPc, ItemRec
    <2>2. PICK item : item = [TheItem(groceryCall[c]) EXCEPT
                                !.status = groceryCall[c].status]
        OBVIOUS
    <2>3. item \in StoredItem
        BY <2>1, <2>2 DEF StoredItem
    <2>4. RowsKept
        BY <1>7, <2>1, <2>2, <2>3, ItemWritten DEF WriteItemStatus, OfficerStep
    <2>5. QED
        BY <1>7, <2>4, ReturnKeeps, GotoKeeps DEF WriteItemStatus, ItemPc
<1>8. QED
    BY <1>1, <1>2, <1>3, <1>4, <1>5, <1>6, <1>7 DEF OfficerStep, CheckAvailable

LEMMA MemberKeepsTypes ==
    ASSUME StoreInv, NEW c \in GroceryCaller, UNCHANGED scene, MemberStep(c)
    PROVE  StoreInv'
<1>1. ASSUME NEW d \in Distribution, NEW i \in Item, NEW key \in KeyOffered,
             ReadForConfirm(c, d, i, key, i[1])
      PROVE  StoreInv'
    <2>1. UNCHANGED rows
        BY <1>1 DEF ReadForConfirm, MemberStep, rows
    <2>2. key \in Key \cup {None} /\ "CONFIRMED" \in ItemStatus
        BY DEF KeyOffered, ItemStatus
    <2>3. QED
        BY <1>1, <2>1, <2>2, ItemCallStarts DEF ReadForConfirm
<1>2. ASSUME ConfirmItem(c)
      PROVE  StoreInv'
    <2>1. /\ groceryCall[c].id \in Distribution /\ groceryCall[c].item \in Item
          /\ HasItem(groceryCall[c].id, groceryCall[c].item)
          /\ TheItem(groceryCall[c]) \in StoredItem
          /\ groceryCall[c].key \in Key \cup {None}
        BY <1>2, ItemAt DEF ConfirmItem, ItemPc, ItemRec
    <2>2. CASE ItemKeyFree(groceryCall[c].id, groceryCall[c].item, groceryCall[c].key)
        <3>1. PICK item : item = [TheItem(groceryCall[c]) EXCEPT
                                    !.status = "CONFIRMED",
                                    !.key = Given(groceryCall[c].key, @)]
            OBVIOUS
        <3>2. item \in StoredItem
            BY <2>1, <3>1 DEF StoredItem, ItemStatus, Given
        <3>3. RowsKept
            BY <1>2, <2>1, <2>2, <3>1, <3>2, ItemWritten DEF ConfirmItem, MemberStep
        <3>4. QED
            BY <1>2, <2>2, <3>3, GotoKeeps DEF ConfirmItem, ItemPc
    <2>3. CASE ~ ItemKeyFree(groceryCall[c].id, groceryCall[c].item, groceryCall[c].key)
        <3>1. RowsKept
            BY <1>2, <2>3, RowsUnchanged DEF ConfirmItem, MemberStep, rows
        <3>2. QED
            BY <1>2, <2>3, <3>1, ReturnKeeps DEF ConfirmItem
    <2>4. QED
        BY <2>2, <2>3
<1>3. ASSUME CheckTake(c) \/ CountConfirmed(c)
      PROVE  StoreInv'
    <2>1. RowsKept
        BY <1>3, RowsUnchanged DEF CheckTake, CountConfirmed, MemberStep, rows
    <2>2. QED
        BY <1>3, <2>1, ReturnKeeps, GotoKeeps DEF CheckTake, CountConfirmed, ItemPc
<1>4. ASSUME InsertTake(c)
      PROVE  StoreInv'
    <2>1. /\ groceryCall[c].item \in Item
          /\ TakenQuantity(TheItem(groceryCall[c])) \in Nat \ {0}
        BY <1>4, ItemAt DEF InsertTake, ItemPc
    <2>2. groceryCall[c].item[2] \in Product
        BY <2>1 DEF Item
    <2>3. PICK m : m = Movement(groceryCall[c].item[2], "OUT",
                                TakenQuantity(TheItem(groceryCall[c])),
                                <<groceryCall[c].id, groceryCall[c].item>>)
        OBVIOUS
    <2>4. MovementRow(m)
        <3>1. TakenQuantity(TheItem(groceryCall[c])) \in Int \ {0}
            BY <2>1
        <3>2. QED
            BY <2>2, <2>3, <3>1, MovementIsRow
    <2>5. RowsKept
        BY <1>4, <2>3, <2>4, FS_Singleton, InsertKeepsRows DEF InsertTake, MemberStep
    <2>6. QED
        BY <1>4, <2>5, ReturnKeeps, GotoKeeps DEF InsertTake, ItemPc
<1>5. ASSUME StoreAnswer(c)
      PROVE  StoreInv'
    <2>1. groceryCall[c].key \in Key \cup {None}
        BY <1>5, ItemAt DEF StoreAnswer, ItemPc, ItemRec
    <2>2. answered' \subseteq Key
        BY <1>5, <2>1 DEF StoreAnswer, StoreInv, RowsOK
    <2>3. RowsKept
        BY <1>5, <2>2
        DEF StoreAnswer, MemberStep, StoreInv, RowsOK, MovementsOK, RowsKept,
            RowsStay, HasItem
    <2>4. QED
        BY <1>5, <2>3, ReturnKeeps, GotoKeeps DEF StoreAnswer, ItemPc
<1>6. ASSUME Complete(c)
      PROVE  StoreInv'
    <2>1. /\ groceryCall[c].id \in Distribution
          /\ distribution[groceryCall[c].id] # None
        BY <1>6, ItemAt DEF Complete, ItemPc, HasItem
    <2>2. "COMPLETED" \in DistributionStatus
        BY DEF DistributionStatus
    <2>3. RowsKept
        BY <1>6, <2>1, <2>2, StatusWritten DEF Complete, MemberStep
    <2>4. QED
        BY <1>6, <2>3, ReturnKeeps DEF Complete
<1>7. QED
    BY <1>1, <1>2, <1>3, <1>4, <1>5, <1>6 DEF MemberStep

-----------------------------------------------------------------------------
(* Where a step leaves the handlers. *)

Others(c) == \A b \in GroceryCaller \ {c} : groceryCall'[b] = groceryCall[b]

\* The handler of the caller is done, or is at one of these points.
Lands(c, pcs) ==
    /\ Others(c)
    /\ groceryCall'[c] # None => groceryCall'[c].pc \in pcs

LEMMA ReturnIs ==
    ASSUME StoreInv, NEW c \in GroceryCaller, GroceryReturn(c)
    PROVE  Others(c) /\ groceryCall'[c] = None
BY DEF StoreInv, CallsOK, GroceryReturn, Others

LEMMA StartIs ==
    ASSUME StoreInv, NEW c \in GroceryCaller, NEW x, GroceryStart(c, x)
    PROVE  Others(c) /\ groceryCall'[c] = x
BY DEF StoreInv, CallsOK, GroceryStart, Others

LEMMA GotoIs ==
    ASSUME StoreInv, NEW c \in GroceryCaller, NEW from, NEW pc,
           GroceryAt(c, from), GroceryGoto(c, pc),
           \/ from = "weigh" /\ pc = "adjust"
           \/ from \in OrderPc /\ pc \in OrderPc
           \/ from \in ItemPc /\ pc \in ItemPc
    PROVE  /\ Others(c)
           /\ groceryCall'[c] = [groceryCall[c] EXCEPT !.pc = pc]
           /\ groceryCall'[c].pc = pc
           /\ groceryCall'[c].id = groceryCall[c].id
           /\ from \in ItemPc => groceryCall'[c].item = groceryCall[c].item
<1>1. CallType(groceryCall[c]) /\ groceryCall[c].pc = from
    BY AtIs
<1>2. Others(c) /\ groceryCall'[c] = [groceryCall[c] EXCEPT !.pc = pc]
    BY DEF StoreInv, CallsOK, GroceryGoto, Others
<1>3. QED
    BY <1>1, <1>2, CallGoes

LEMMA StockLands ==
    ASSUME StoreInv, NEW c \in GroceryCaller, StockStep(c)
    PROVE  Lands(c, {"weigh", "adjust"})
<1>1. ASSUME NEW p \in Product, NEW change \in Change, ReadForAdjust(c, p, change)
      PROVE  Lands(c, {"weigh", "adjust"})
    BY <1>1, StartIs DEF ReadForAdjust, Lands
<1>2. ASSUME WeighAdjust(c)
      PROVE  Lands(c, {"weigh", "adjust"})
    <2>1. GroceryAt(c, "weigh")
        BY <1>2 DEF WeighAdjust
    <2>2. GroceryReturn(c) \/ GroceryGoto(c, "adjust")
        BY <1>2 DEF WeighAdjust
    <2>3. GroceryGoto(c, "adjust") => Lands(c, {"weigh", "adjust"})
        BY <2>1, GotoIs DEF Lands
    <2>4. QED
        BY <2>2, <2>3, ReturnIs DEF Lands
<1>3. InsertAdjust(c) => Lands(c, {"weigh", "adjust"})
    BY ReturnIs DEF InsertAdjust, Lands
<1>4. QED
    BY <1>1, <1>2, <1>3, DealtIs DEF StockStep

LEMMA ProductLands ==
    ASSUME StoreInv, NEW c \in GroceryCaller, ProductStep(c)
    PROVE  Lands(c, Writing)
<1>1. ASSUME NEW p, NEW name, ReadForCreate(c, p, name)
      PROVE  Lands(c, Writing)
    BY <1>1, StartIs DEF ReadForCreate, Lands, Writing
<1>2. ASSUME NEW p, NEW name, NEW active, ReadForUpdate(c, p, name, active)
      PROVE  Lands(c, Writing)
    BY <1>2, StartIs DEF ReadForUpdate, Lands, Writing
<1>3. ASSUME NEW p, ReadForDelete(c, p)
      PROVE  Lands(c, Writing)
    BY <1>3, StartIs DEF ReadForDelete, Lands, Writing
<1>4. InsertProduct(c) \/ ApplyUpdate(c) \/ Deactivate(c) \/ Delete(c)
         => Lands(c, Writing)
    BY ReturnIs DEF InsertProduct, ApplyUpdate, Deactivate, Delete, Lands
<1>5. QED
    BY <1>1, <1>2, <1>3, <1>4 DEF ProductStep

LEMMA PurchaseLands ==
    ASSUME StoreInv, NEW c \in GroceryCaller, PurchaseStep(c)
    PROVE  Lands(c, OrderPc \cup {"buy"})
<1>1. ASSUME NEW b, NEW lines, NEW by, CreatePurchase(c, b, lines, by)
      PROVE  Lands(c, OrderPc \cup {"buy"})
    BY <1>1, StartIs DEF CreatePurchase, Lands
<1>2. ASSUME NEW b, NEW by, NEW pc \in {"approve", "reject"}, ReadForReview(c, b, pc, by)
      PROVE  Lands(c, OrderPc \cup {"buy"})
    BY <1>2, StartIs DEF ReadForReview, Lands, OrderPc
<1>3. InsertPurchase(c) => Lands(c, OrderPc \cup {"buy"})
    BY DEF InsertPurchase, Lands, Others, OrderPc, StoreInv, CallsOK
<1>4. ApprovePurchase(c) \/ ReceiveGoods(c) \/ StartPurchaseDebit(c)
         => Lands(c, OrderPc \cup {"buy"})
    BY GotoIs DEF ApprovePurchase, ReceiveGoods, StartPurchaseDebit, Lands, OrderPc
<1>5. RejectPurchase(c) \/ EndPurchaseDebit(c) => Lands(c, OrderPc \cup {"buy"})
    BY ReturnIs DEF RejectPurchase, EndPurchaseDebit, Lands
<1>6. QED
    BY <1>1, <1>2, <1>3, <1>4, <1>5 DEF PurchaseStep

\* The next product of a distribution is looked at.
LEMMA CheckAvailableIs ==
    ASSUME StoreInv, NEW c \in GroceryCaller, CheckAvailable(c)
    PROVE  /\ Others(c)
           /\ groceryCall'[c] # None =>
                 /\ groceryCall'[c].pc \in {"available", "share"}
                 /\ groceryCall'[c].id = groceryCall[c].id
                 /\ groceryCall'[c].wanted = groceryCall[c].wanted
<1>1. groceryCall[c] \in ShareRow
    BY AtIs, CallIs DEF CheckAvailable
<1>2. PICK p \in groceryCall[c].left :
         groceryCall' = [groceryCall EXCEPT ![c] =
            IF ~ Available(p, groceryCall[c].wanted[p]) THEN None
            ELSE [groceryCall[c] EXCEPT
                    !.left = @ \ {p},
                    !.pc = IF groceryCall[c].left = {p} THEN "share" ELSE @]]
    BY DEF CheckAvailable
<1>3. PICK x : x = [groceryCall[c] EXCEPT
                      !.left = @ \ {p},
                      !.pc = IF groceryCall[c].left = {p} THEN "share" ELSE @]
    OBVIOUS
<1>4. /\ x.pc \in {"available", "share"} /\ x.id = groceryCall[c].id
      /\ x.wanted = groceryCall[c].wanted
    BY <1>1, <1>3 DEF ShareRow
<1>5. Others(c) /\ groceryCall'[c] \in {None, x}
    BY <1>2, <1>3 DEF Others, StoreInv, CallsOK
<1>6. QED
    BY <1>4, <1>5

LEMMA OfficerLands ==
    ASSUME StoreInv, NEW c \in GroceryCaller, OfficerStep(c)
    PROVE  Lands(c, {"available", "share", "status", "set", "take"})
<1> DEFINE P == {"available", "share", "status", "set", "take"}
<1>1. ASSUME NEW d, NEW wanted, NEW overrides, NEW by,
             CreateDistribution(c, d, wanted, overrides, by)
      PROVE  Lands(c, P)
    BY <1>1, StartIs DEF CreateDistribution, Lands
<1>2. ASSUME NEW d, NEW status, NEW by, ReadForStatus(c, d, status, by)
      PROVE  Lands(c, P)
    BY <1>2, StartIs DEF ReadForStatus, Lands
<1>3. ASSUME NEW d, NEW i, NEW status, NEW by, ReadForItemStatus(c, d, i, status, by)
      PROVE  Lands(c, P)
    BY <1>3, StartIs DEF ReadForItemStatus, ItemCall, Lands
<1>4. CheckAvailable(c) => Lands(c, P)
    BY CheckAvailableIs DEF Lands
<1>5. InsertDistribution(c) \/ WriteStatus(c) => Lands(c, P)
    BY ReturnIs DEF InsertDistribution, WriteStatus, Lands
<1>6. WriteItemStatus(c) => Lands(c, P)
    BY ReturnIs, GotoIs DEF WriteItemStatus, Lands, ItemPc
<1>7. QED
    BY <1>1, <1>2, <1>3, <1>4, <1>5, <1>6 DEF OfficerStep

LEMMA MemberLands ==
    ASSUME StoreInv, NEW c \in GroceryCaller, MemberStep(c)
    PROVE  Lands(c, ItemPc \ {"set"})
<1>1. ASSUME NEW d, NEW i, NEW key, ReadForConfirm(c, d, i, key, i[1])
      PROVE  Lands(c, ItemPc \ {"set"})
    BY <1>1, StartIs DEF ReadForConfirm, ItemCall, Lands, ItemPc
<1>2. ASSUME NEW from \in ItemPc, NEW pc \in ItemPc \ {"set"}, GroceryAt(c, from),
             GroceryGoto(c, pc) \/ GroceryReturn(c)
      PROVE  Lands(c, ItemPc \ {"set"})
    <2>1. GroceryGoto(c, pc) => Lands(c, ItemPc \ {"set"})
        BY <1>2, GotoIs DEF Lands
    <2>2. QED
        BY <1>2, <2>1, ReturnIs DEF Lands
<1>3. ConfirmItem(c) \/ CheckTake(c) => Lands(c, ItemPc \ {"set"})
    BY <1>2 DEF ConfirmItem, CheckTake, ItemPc
<1>4. InsertTake(c) \/ StoreAnswer(c) \/ CountConfirmed(c) => Lands(c, ItemPc \ {"set"})
    BY <1>2 DEF InsertTake, StoreAnswer, CountConfirmed, ItemPc
<1>5. Complete(c) => Lands(c, ItemPc \ {"set"})
    BY ReturnIs DEF Complete, Lands
<1>6. QED
    BY <1>1, <1>2, <1>3, <1>4, <1>5 DEF MemberStep

-----------------------------------------------------------------------------
(* The first state, and every step. *)

\* The goods that scenes about distributions start with.
LEMMA ShelvesFilled ==
    ASSUME movement = SetToBag({Movement(p, "ADJUSTMENT", InitialStock, None) :
                                   p \in Shelf})
    PROVE  /\ MovementsOK
           /\ \A m \in DOMAIN movement :
                 m.type = "ADJUSTMENT" /\ m.product \in Shelf
<1>1. PICK R : R = {Movement(p, "ADJUSTMENT", InitialStock, None) : p \in Shelf}
    OBVIOUS
<1>2. \A m \in R : MovementRow(m) /\ m.type = "ADJUSTMENT" /\ m.product \in Shelf
    <2>1. InitialStock \in Int \ {0} /\ Shelf \subseteq Product
        BY GroceryAssumption
    <2>2. QED
        BY <1>1, <2>1, MovementIsRow
<1>3. IsFiniteSet(R)
    <2>1. IsFiniteSet(Shelf)
        BY GroceryAssumption, CatalogueAssumption, FS_Subset
    <2>2. PICK f : f = [p \in Shelf |-> Movement(p, "ADJUSTMENT", InitialStock, None)]
        OBVIOUS
    <2>3. f \in Surjection(Shelf, R)
        BY <1>1, <2>2 DEF Surjection
    <2>4. QED
        BY <2>1, <2>3, FS_Surjection DEF ExistsSurjection
<1>4. DOMAIN movement = R /\ movement = [m \in R |-> 1]
    BY <1>1 DEF SetToBag
<1>5. movement \in [DOMAIN movement -> Nat \ {0}]
    BY <1>4
<1>6. QED
    BY <1>2, <1>3, <1>4, <1>5 DEF MovementsOK

LEMMA StoreStarts ==
    ASSUME GroceryInit
    PROVE  StoreInv /\ SharesInv /\ OnlyOne
<1>1. scene \in Scene /\ \A c \in GroceryCaller : groceryCall[c] = None
    BY DEF GroceryInit
<1>2. DOMAIN groceryCall = GroceryCaller
    BY DEF GroceryInit
<1>3. CallsOK /\ SharesInv /\ OnlyOne
    BY <1>1, <1>2 DEF CallsOK, SharesInv, Sharing, OnlyOne, OneRequest
<1>4. product \in [Product -> ProductRow \cup {None}]
    <2>1. NameOnShelf \in [Shelf -> Word]
        BY GroceryAssumption DEF NameOnShelf, Injection
    <2>2. \A p \in Shelf : Stocked(p) \in ProductRow
        BY <2>1 DEF Stocked, ProductRow, ProductName
    <2>3. QED
        BY <2>2 DEF GroceryInit
<1>5. MovementsOK
    <2>1. CASE FromScratch
        <3>1. movement = SetToBag({})
            BY <2>1 DEF GroceryInit, EmptyBag
        <3>2. DOMAIN movement = {} /\ movement = [m \in {} |-> 1]
            BY <3>1 DEF SetToBag
        <3>3. QED
            BY <3>2, FS_EmptySet DEF MovementsOK
    <2>2. CASE ~ FromScratch
        BY <2>2, ShelvesFilled DEF GroceryInit
    <2>3. QED
        BY <2>1, <2>2
<1>6. Ready \in StoredRow
    <2>1. PICK items : items = [i \in Recipient \X Shelf |->
             [status |-> "PENDING", allocated |-> 1, override |-> None, key |-> None]]
        OBVIOUS
    <2>2. items \in [Recipient \X Shelf -> StoredItem]
        BY <2>1 DEF StoredItem, ItemStatus
    <2>3. Recipient \X Shelf \in SUBSET Item
        BY GroceryAssumption DEF Item
    <2>4. items \in UNION {[s -> StoredItem] : s \in SUBSET Item}
        BY <2>2, <2>3
    <2>5. QED
        BY <2>1, <2>4 DEF Ready, StoredRow, DistributionStatus
<1>7. distribution \in [Distribution -> StoredRow \cup {None}]
    BY <1>6 DEF GroceryInit
<1>8. purchase \in [Purchase -> PurchaseRow \cup {None}] /\ answered \subseteq Key
    BY DEF GroceryInit
<1>9. QED
    BY <1>1, <1>3, <1>4, <1>5, <1>7, <1>8 DEF StoreInv, RowsOK

Step(c) ==
    \/ StockStep(c) \/ ProductStep(c) \/ PurchaseStep(c)
    \/ OfficerStep(c) \/ MemberStep(c)

LEMMA StepLands ==
    ASSUME StoreInv, NEW c \in GroceryCaller, Step(c)
    PROVE  Others(c)
BY StockLands, ProductLands, PurchaseLands, OfficerLands, MemberLands
DEF Step, Lands

\* A step starts a request where there is room, or goes on with one.
LEMMA StepWhere ==
    ASSUME NEW c \in GroceryCaller, Step(c)
    PROVE  Room \/ groceryCall[c] # None
<1>1. StockStep(c) => Room \/ groceryCall[c] # None
    BY DEF StockStep, WeighAdjust, InsertAdjust, GroceryAt
<1>2. ProductStep(c) => Room \/ groceryCall[c] # None
    BY DEF ProductStep, InsertProduct, ApplyUpdate, Deactivate, Delete, GroceryAt
<1>3. PurchaseStep(c) => Room \/ groceryCall[c] # None
    BY DEF PurchaseStep, InsertPurchase, ApprovePurchase, RejectPurchase,
       ReceiveGoods, StartPurchaseDebit, EndPurchaseDebit, GroceryAt
<1>4. OfficerStep(c) => Room \/ groceryCall[c] # None
    BY DEF OfficerStep, CheckAvailable, InsertDistribution, WriteStatus,
       WriteItemStatus, GroceryAt
<1>5. MemberStep(c) => Room \/ groceryCall[c] # None
    BY DEF MemberStep, ConfirmItem, CheckTake, InsertTake, StoreAnswer,
       CountConfirmed, Complete, GroceryAt
<1>6. QED
    BY <1>1, <1>2, <1>3, <1>4, <1>5 DEF Step

\* With one request at a time nobody else is at work, before the step and after.
LEMMA StepAlone ==
    ASSUME StoreInv, OnlyOne, Alone, NEW c \in GroceryCaller, Step(c)
    PROVE  \A b \in GroceryCaller \ {c} :
              groceryCall[b] = None /\ groceryCall'[b] = None
<1>1. \A b \in GroceryCaller \ {c} : groceryCall[b] = None
    BY StepWhere, RoomMeansNone DEF OnlyOne, OneRequest
<1>2. QED
    BY <1>1, StepLands DEF Others

LEMMA StepKeepsOnlyOne ==
    ASSUME StoreInv, OnlyOne, NEW c \in GroceryCaller, Step(c), UNCHANGED scene
    PROVE  OnlyOne'
<1>1. Alone' => Alone
    BY DEF Alone
<1>2. QED
    BY <1>1, StepAlone DEF OnlyOne, OneRequest

LEMMA StepKeepsStore ==
    ASSUME StoreInv, SharesInv, NEW c \in GroceryCaller, Step(c), UNCHANGED scene
    PROVE  StoreInv'
BY StockKeepsTypes, ProductKeepsTypes, PurchaseKeepsTypes, OfficerKeepsTypes,
   MemberKeepsTypes DEF Step

\* The ids given out stay free until their rows are inserted.
LEMMA SharesStay ==
    ASSUME StoreInv, SharesInv, NEW c \in GroceryCaller, Others(c),
           \/ groceryCall'[c] = None
           \/ groceryCall'[c].pc \notin {"available", "share"}
           \/ Sharing(c) /\ groceryCall'[c].id = groceryCall[c].id,
           \A b \in GroceryCaller : Sharing(b) /\ Sharing(b)' =>
              distribution'[groceryCall[b].id] = None
    PROVE  SharesInv'
BY DEF SharesInv, Sharing, Others

LEMMA StepKeepsShares ==
    ASSUME StoreInv, SharesInv, NEW c \in GroceryCaller, Step(c), UNCHANGED scene
    PROVE  SharesInv'
<1>1. Others(c)
    BY StepLands
<1>2. \A b \in GroceryCaller : Sharing(b) =>
         groceryCall[b].id \in Distribution /\ distribution[groceryCall[b].id] = None
    BY CallIs DEF SharesInv, Sharing, StoreInv, CallsOK, ShareRow
<1>3. CASE StockStep(c) \/ ProductStep(c) \/ PurchaseStep(c)
    <2>1. UNCHANGED distribution
        BY <1>3 DEF StockStep, ProductStep, PurchaseStep
    <2>2. \/ groceryCall'[c] = None
          \/ groceryCall'[c].pc \notin {"available", "share"}
        BY <1>3, StockLands, ProductLands, PurchaseLands
        DEF Lands, Writing, OrderPc
    <2>3. QED
        BY <1>1, <1>2, <2>1, <2>2, SharesStay
<1>4. ASSUME NEW d \in Distribution, distribution[d] # None,
             \A e \in Distribution \ {d} : distribution'[e] = distribution[e],
             \/ groceryCall'[c] = None
             \/ groceryCall'[c].pc \notin {"available", "share"}
      PROVE  SharesInv'
    BY <1>1, <1>2, <1>4, SharesStay
<1>5. ASSUME UNCHANGED distribution,
             \/ groceryCall'[c] = None
             \/ groceryCall'[c].pc \notin {"available", "share"}
             \/ Sharing(c) /\ groceryCall'[c].id = groceryCall[c].id
      PROVE  SharesInv'
    BY <1>1, <1>2, <1>5, SharesStay
<1>6. CASE MemberStep(c)
    <2>1. \/ groceryCall'[c] = None
          \/ groceryCall'[c].pc \notin {"available", "share"}
        BY <1>6, MemberLands DEF Lands, ItemPc
    <2>2. CASE UNCHANGED distribution
        BY <1>5, <2>1, <2>2
    <2>3. CASE ConfirmItem(c) /\ ~ UNCHANGED distribution
        <3>1. PICK d \in Distribution : d = groceryCall[c].id /\ distribution[d] # None
            BY <2>3, ItemAt DEF ConfirmItem, ItemPc, HasItem
        <3>2. \A e \in Distribution \ {d} : distribution'[e] = distribution[e]
            BY <2>3, <3>1 DEF ConfirmItem, SetItem, StoreInv, RowsOK
        <3>3. QED
            BY <1>4, <2>1, <3>1, <3>2
    <2>4. CASE Complete(c)
        <3>1. PICK d \in Distribution : d = groceryCall[c].id /\ distribution[d] # None
            BY <2>4, ItemAt DEF Complete, ItemPc, HasItem
        <3>2. \A e \in Distribution \ {d} : distribution'[e] = distribution[e]
            BY <2>4, <3>1 DEF Complete, StoreInv, RowsOK
        <3>3. QED
            BY <1>4, <2>1, <3>1, <3>2
    <2>5. QED
        BY <1>6, <2>2, <2>3, <2>4
        DEF MemberStep, ReadForConfirm, CheckTake, InsertTake, StoreAnswer,
            CountConfirmed
<1>7. CASE OfficerStep(c)
    <2>1. ASSUME NEW d \in Distribution, NEW wanted, NEW overrides, NEW by,
                 CreateDistribution(c, d, wanted, overrides, by)
          PROVE  SharesInv'
        <3>1. /\ groceryCall[c] = None /\ groceryCall'[c].id = d
              /\ distribution[d] = None /\ UNCHANGED distribution
              /\ \A b \in GroceryCaller : groceryCall[b] # None => groceryCall[b].id # d
            BY <2>1, StartIs DEF CreateDistribution, FreshId, GroceryStart
        <3>2. QED
            BY <1>1, <3>1 DEF SharesInv, Sharing, Others
    <2>2. ASSUME NEW d, NEW status, NEW by, ReadForStatus(c, d, status, by)
          PROVE  SharesInv'
        BY <1>5, <2>2, StartIs DEF ReadForStatus
    <2>3. ASSUME NEW d, NEW i, NEW status, NEW by, ReadForItemStatus(c, d, i, status, by)
          PROVE  SharesInv'
        BY <1>5, <2>3, StartIs DEF ReadForItemStatus, ItemCall
    <2>4. ASSUME CheckAvailable(c)
          PROVE  SharesInv'
        <3>1. Sharing(c)
            BY <2>4 DEF CheckAvailable, GroceryAt, Sharing
        <3>2. QED
            BY <1>5, <2>4, <3>1, CheckAvailableIs DEF CheckAvailable
    <2>5. ASSUME InsertDistribution(c)
          PROVE  SharesInv'
        <3>1. Sharing(c) /\ groceryCall'[c] = None
            BY <2>5, ReturnIs DEF InsertDistribution, GroceryAt, Sharing
        <3>2. \A b \in GroceryCaller \ {c} : Sharing(b) =>
                 groceryCall[b].id # groceryCall[c].id
            BY <3>1 DEF SharesInv
        <3>3. \A e \in Distribution \ {groceryCall[c].id} :
                 distribution'[e] = distribution[e]
            BY <2>5 DEF InsertDistribution, StoreInv, RowsOK
        <3>4. \A b \in GroceryCaller : Sharing(b) /\ Sharing(b)' =>
                 distribution'[groceryCall[b].id] = None
            BY <1>2, <3>1, <3>2, <3>3 DEF Sharing
        <3>5. QED
            BY <1>1, <3>1, <3>4, SharesStay
    <2>6. ASSUME WriteStatus(c)
          PROVE  SharesInv'
        <3>1. PICK d \in Distribution : d = groceryCall[c].id /\ distribution[d] # None
            BY <2>6, AtIs, CallIs DEF WriteStatus, CallRow
        <3>2. \A e \in Distribution \ {d} : distribution'[e] = distribution[e]
            BY <2>6, <3>1 DEF WriteStatus, StoreInv, RowsOK
        <3>3. groceryCall'[c] = None
            BY <2>6, ReturnIs DEF WriteStatus
        <3>4. QED
            BY <1>4, <3>1, <3>2, <3>3
    <2>7. ASSUME WriteItemStatus(c)
          PROVE  SharesInv'
        <3>1. PICK d \in Distribution : d = groceryCall[c].id /\ distribution[d] # None
            BY <2>7, ItemAt DEF WriteItemStatus, ItemPc, HasItem
        <3>2. \A e \in Distribution \ {d} : distribution'[e] = distribution[e]
            BY <2>7, <3>1 DEF WriteItemStatus, SetItem, StoreInv, RowsOK
        <3>3. groceryCall'[c] = None \/ groceryCall'[c].pc = "take"
            <4>1. GroceryAt(c, "set") /\ (GroceryReturn(c) \/ GroceryGoto(c, "take"))
                BY <2>7 DEF WriteItemStatus
            <4>2. GroceryGoto(c, "take") => groceryCall'[c].pc = "take"
                BY <4>1, GotoIs DEF ItemPc
            <4>3. QED
                BY <4>1, <4>2, ReturnIs
        <3>4. QED
            BY <1>4, <3>1, <3>2, <3>3
    <2>8. QED
        BY <1>7, <2>1, <2>2, <2>3, <2>4, <2>5, <2>6, <2>7 DEF OfficerStep
<1>8. QED
    BY <1>3, <1>6, <1>7 DEF Step

\* A crash takes the requests and leaves the rows.
LEMMA CrashKeepsStore ==
    ASSUME StoreInv, GroceryCrash, UNCHANGED scene
    PROVE  (StoreInv /\ SharesInv /\ OnlyOne)'
<1>1. \A c \in GroceryCaller : groceryCall'[c] = None
    BY DEF GroceryCrash
<1>2. DOMAIN groceryCall' = GroceryCaller
    BY DEF GroceryCrash
<1>3. (CallsOK /\ SharesInv /\ OnlyOne)'
    BY <1>1, <1>2 DEF CallsOK, SharesInv, Sharing, OnlyOne, OneRequest
<1>4. RowsOK' /\ scene' \in Scene
    BY DEF GroceryCrash, StoreInv, RowsOK, MovementsOK
<1>5. QED
    BY <1>3, <1>4 DEF StoreInv

\* What the proofs below start from.
BaseInv == StoreInv /\ SharesInv /\ OnlyOne

LEMMA NextIs ==
    ASSUME GroceryNext
    PROVE  /\ UNCHANGED scene
           /\ GroceryCrash \/ \E c \in GroceryCaller : Step(c)
BY DEF GroceryNext, Step

LEMMA BaseKept == BaseInv /\ [GroceryNext]_groceryVars => BaseInv'
<1>1. SUFFICES ASSUME BaseInv, [GroceryNext]_groceryVars
               PROVE  BaseInv'
    OBVIOUS
<1>2. CASE GroceryNext
    BY <1>1, <1>2, NextIs, CrashKeepsStore, StepKeepsStore, StepKeepsShares,
       StepKeepsOnlyOne DEF BaseInv
<1>3. CASE UNCHANGED groceryVars
    <2>1. StoreInv'
        BY <1>1, <1>3
        DEF groceryVars, BaseInv, StoreInv, RowsOK, MovementsOK, CallsOK, CallRow,
            HasItem
    <2>2. SharesInv' /\ OnlyOne'
        BY <1>1, <1>3
        DEF groceryVars, BaseInv, SharesInv, Sharing, OnlyOne, OneRequest, Alone
    <2>3. QED
        BY <2>1, <2>2 DEF BaseInv
<1>4. QED
    BY <1>1, <1>2, <1>3

LEMMA BaseInvariant == GrocerySpec => []BaseInv
<1>1. GroceryInit => BaseInv
    BY StoreStarts DEF BaseInv
<1>2. QED
    BY <1>1, BaseKept, PTL DEF GrocerySpec

\* Every row and every request of a grocery group keeps its type, whatever
\* runs at once and dies: what a handler has read is still there when it
\* writes, the shares it stores are numbers that pass the CHECK of the table,
\* and every movement moves something.
THEOREM GroceryTypeCorrect == GrocerySpec => []GroceryTypeOK
<1>1. BaseInv => GroceryTypeOK
    <2>1. SUFFICES ASSUME BaseInv
                   PROVE  GroceryTypeOK
        OBVIOUS
    <2>2. /\ product \in [Product -> ProductRow \cup {None}]
          /\ purchase \in [Purchase -> PurchaseRow \cup {None}]
          /\ answered \subseteq Key
        BY <2>1 DEF BaseInv, StoreInv, RowsOK
    <2>3. MovementsOK
        BY <2>1 DEF BaseInv, StoreInv, RowsOK
    <2>4. IsABag(movement)
        <3>1. Nat \ {0} = {n \in Nat : n > 0}
            OBVIOUS
        <3>2. QED
            BY <2>3, <3>1 DEF MovementsOK, IsABag
    <2>5. \A m \in DOMAIN movement :
             m.product \in Product /\ m.type \in {"IN", "OUT", "ADJUSTMENT"}
                                   /\ m.quantity > 0
        BY <2>3 DEF MovementsOK, MovementRow
    <2>6. ASSUME NEW d \in Distribution, distribution[d] # None
          PROVE  /\ distribution[d].status \in DistributionStatus
                 /\ \A i \in DOMAIN distribution[d].items :
                       i \in Item /\ distribution[d].items[i] \in ItemRow
                                  /\ distribution[d].items[i].allocated > 0
        <3>1. distribution[d] \in StoredRow
            BY <2>1, <2>6 DEF BaseInv, StoreInv, RowsOK
        <3>2. \A i \in DOMAIN distribution[d].items :
                 i \in Item /\ distribution[d].items[i] \in StoredItem
            BY <3>1, StoredIs
        <3>3. \A item \in StoredItem : item \in ItemRow /\ item.allocated > 0
            BY DEF StoredItem, ItemRow
        <3>4. QED
            BY <3>1, <3>2, <3>3, StoredIs
    <2>7. \A c \in GroceryCaller : groceryCall[c] # None => CallType(groceryCall[c])
        BY <2>1 DEF BaseInv, StoreInv, CallsOK
    <2>8. QED
        BY <2>2, <2>4, <2>5, <2>6, <2>7 DEF GroceryTypeOK, CallType
<1>2. QED
    BY <1>1, BaseInvariant, PTL

-----------------------------------------------------------------------------
(* What inserting movements adds to the counts. *)

LEMMA DeltaIsInt ==
    ASSUME NEW m, MovementRow(m)
    PROVE  /\ StockDelta(m) \in Int
           /\ m.type # "OUT" => StockDelta(m) >= 0
           /\ m.type = "OUT" => StockDelta(m) = -m.quantity
BY DEF StockDelta, MovementRow

LEMMA StockIsInt ==
    ASSUME MovementsOK, NEW p
    PROVE  Stock(p) \in Int
<1>1. PICK S : S = {m \in DOMAIN movement : m.product = p}
    OBVIOUS
<1>2. PICK f : f = [m \in DOMAIN movement |-> movement[m] * StockDelta(m)]
    OBVIOUS
<1>3. \A m \in S : f[m] \in Int
    <2>1. \A m \in S : f[m] = movement[m] * StockDelta(m)
        BY <1>1, <1>2
    <2>2. \A m \in S : movement[m] \in Int /\ StockDelta(m) \in Int
        BY <1>1, DeltaIsInt DEF MovementsOK
    <2>3. QED
        BY <2>1, <2>2
<1>4. IsFiniteSet(S)
    BY <1>1, FS_Subset DEF MovementsOK
<1>5. SumFunctionOnSet(f, S) \in Int
    BY <1>3, <1>4, SumInt
<1>6. QED
    BY <1>1, <1>2, <1>5 DEF Stock

\* How many movements of a kind there are after more were inserted.
LEMMA CountInserted ==
    ASSUME MovementsOK, NEW R, IsFiniteSet(R), \A m \in R : MovementRow(m),
           Insert(R), NEW W
    PROVE  /\ SumFunctionOnSet(movement', DOMAIN movement' \cap W) =
                 SumFunctionOnSet(movement, DOMAIN movement \cap W)
                    + Cardinality(R \cap W)
           /\ SumFunctionOnSet(movement, DOMAIN movement \cap W) \in Nat
           /\ Cardinality(R \cap W) \in Nat
<1>. PICK S : S = DOMAIN movement \cap W
    OBVIOUS
<1>. PICK P : P = R \cap W
    OBVIOUS
<1>1. /\ IsFiniteSet(S) /\ IsFiniteSet(P)
      /\ \A m \in S : movement[m] \in Int /\ movement[m] >= 0
    BY FS_Subset DEF MovementsOK
<1>2. Cardinality(P) \in Nat
    BY <1>1, FS_CardinalityType
<1>3. PICK g : g = [m \in P |-> 1]
    OBVIOUS
<1>4. \A m \in P : g[m] = 1 /\ g[m] \in Int
    BY <1>3
<1>5. SumFunctionOnSet(g, P) = Cardinality(P)
    <2>1. SumFunctionOnSet(g, P) = 1 * Cardinality(P)
        BY <1>1, <1>4, SumConstant
    <2>2. QED
        BY <1>2, <2>1
<1>6. \A m \in S \cup P :
          movement'[m] = (IF m \in S THEN movement[m] ELSE 0)
                            + (IF m \in P THEN g[m] ELSE 0)
    <2>1. ASSUME NEW m \in S \cup P
          PROVE  movement'[m] = (IF m \in DOMAIN movement THEN movement[m] ELSE 0)
                                   + (IF m \in R THEN 1 ELSE 0)
        BY <2>1, InsertKeeps
    <2>2. QED
        BY <1>4, <2>1
<1>7. SumFunctionOnSet(movement', S \cup P) =
         SumFunctionOnSet(movement, S) + SumFunctionOnSet(g, P)
    BY <1>1, <1>4, <1>6, SumMerge
<1>8. SumFunctionOnSet(movement, S) \in Nat
    <2>1. SumFunctionOnSet(movement, S) \in Int
        BY <1>1, SumInt
    <2>2. PICK z : z = [m \in S |-> 0]
        OBVIOUS
    <2>3. SumFunctionOnSet(z, S) = 0 * Cardinality(S)
        BY <1>1, <2>2, SumConstant
    <2>4. \A m \in S : z[m] \in Int /\ movement[m] \in Int /\ z[m] <= movement[m]
        BY <1>1, <2>2
    <2>5. SumFunctionOnSet(z, S) <= SumFunctionOnSet(movement, S)
        BY <1>1, <2>4, SumOrder
    <2>6. Cardinality(S) \in Nat
        BY <1>1, FS_CardinalityType
    <2>7. QED
        BY <2>1, <2>3, <2>5, <2>6
<1>9. DOMAIN movement' \cap W = S \cup P
    BY InsertKeeps
<1>10. QED
    BY ONLY S = DOMAIN movement \cap W, P = R \cap W,
       <1>2, <1>5, <1>7, <1>8, <1>9

\* The stock of a product after one more movement.
LEMMA StockInserted ==
    ASSUME MovementsOK, NEW x, MovementRow(x), Insert({x}), NEW p
    PROVE  Stock(p)' = Stock(p) + (IF x.product = p THEN StockDelta(x) ELSE 0)
<1>1. PICK S : S = {m \in DOMAIN movement : m.product = p}
    OBVIOUS
<1>2. PICK R : R = {m \in {x} : m.product = p}
    OBVIOUS
<1>3. PICK f : f = [m \in DOMAIN movement |-> movement[m] * StockDelta(m)]
    OBVIOUS
<1>4. PICK h : h = [m \in DOMAIN movement' |-> movement'[m] * StockDelta(m)]
    OBVIOUS
<1>5. PICK g : g = [m \in {x} |-> StockDelta(m)]
    OBVIOUS
<1>6. /\ DOMAIN movement' = DOMAIN movement \cup {x}
      /\ \A m \in DOMAIN movement' :
            movement'[m] = (IF m \in DOMAIN movement THEN movement[m] ELSE 0)
                              + (IF m \in {x} THEN 1 ELSE 0)
    BY InsertKeeps, FS_Singleton
<1>7. {m \in DOMAIN movement' : m.product = p} = S \cup R
    BY <1>1, <1>2, <1>6
<1>8. IsFiniteSet(S) /\ IsFiniteSet(R)
    BY <1>1, <1>2, FS_Subset, FS_Singleton DEF MovementsOK
<1>9. \A m \in DOMAIN movement : movement[m] \in Int /\ StockDelta(m) \in Int
    BY DeltaIsInt DEF MovementsOK
<1>10. \A m \in S : f[m] = movement[m] * StockDelta(m) /\ f[m] \in Int
    BY <1>1, <1>3, <1>9
<1>11. \A m \in R : g[m] = StockDelta(m) /\ g[m] \in Int
    BY <1>2, <1>5, DeltaIsInt
<1>12. \A m \in S \cup R :
          h[m] = (IF m \in S THEN f[m] ELSE 0) + (IF m \in R THEN g[m] ELSE 0)
    <2>1. ASSUME NEW m \in S \cup R
          PROVE  h[m] = (IF m \in S THEN f[m] ELSE 0) + (IF m \in R THEN g[m] ELSE 0)
        <3>1. /\ m \in DOMAIN movement' /\ m.product = p /\ StockDelta(m) \in Int
              /\ (m \in S <=> m \in DOMAIN movement) /\ (m \in R <=> m = x)
            BY <1>1, <1>2, <1>6, <1>7, <1>9, DeltaIsInt
        <3>2. h[m] = movement'[m] * StockDelta(m)
            BY <1>4, <3>1
        <3>3. movement'[m] = (IF m \in S THEN movement[m] ELSE 0)
                                + (IF m \in R THEN 1 ELSE 0)
            BY <1>6, <3>1
        <3>4. CASE m \in S /\ m \in R
            <4>1. movement[m] \in Int /\ movement'[m] = movement[m] + 1
                BY <1>9, <3>1, <3>3, <3>4
            <4>2. h[m] = movement[m] * StockDelta(m) + StockDelta(m)
                BY <3>1, <3>2, <4>1
            <4>3. QED
                BY <1>10, <1>11, <3>4, <4>2
        <3>5. CASE m \in S /\ m \notin R
            <4>1. movement[m] \in Int /\ movement'[m] = movement[m]
                BY <1>9, <3>1, <3>3, <3>5
            <4>2. f[m] \in Int /\ h[m] = f[m]
                BY <1>10, <3>2, <3>5, <4>1
            <4>3. QED
                BY <3>5, <4>2
        <3>6. CASE m \notin S /\ m \in R
            <4>1. movement'[m] = 1
                BY <3>3, <3>6
            <4>2. g[m] \in Int /\ h[m] = g[m]
                BY <1>11, <3>1, <3>2, <3>6, <4>1
            <4>3. QED
                BY <3>6, <4>2
        <3>7. QED
            BY <2>1, <3>4, <3>5, <3>6
    <2>2. QED
        BY <2>1
<1>13. SumFunctionOnSet(h, S \cup R) =
          SumFunctionOnSet(f, S) + SumFunctionOnSet(g, R)
    BY <1>8, <1>10, <1>11, <1>12, SumMerge
<1>14. SumFunctionOnSet(g, R) = IF x.product = p THEN StockDelta(x) ELSE 0
    <2>1. CASE x.product = p
        <3>1. R = {} \cup {x} /\ x \in R
            BY <1>2, <2>1
        <3>2. SumFunctionOnSet(g, {} \cup {x}) = g[x] + SumFunctionOnSet(g, {})
            BY <1>11, <3>1, FS_EmptySet, SumAdd
        <3>3. SumFunctionOnSet(g, {}) = 0
            BY SumEmpty
        <3>4. g[x] = StockDelta(x) /\ g[x] \in Int
            BY <1>11, <3>1
        <3>5. SumFunctionOnSet(g, R) = SumFunctionOnSet(g, {} \cup {x})
            BY ONLY <3>1
        <3>6. QED
            BY <2>1, <3>2, <3>3, <3>4, <3>5
    <2>2. CASE x.product # p
        <3>1. R = {}
            BY <1>2, <2>2
        <3>2. QED
            BY <2>2, <3>1, SumEmpty
    <2>3. QED
        BY <2>1, <2>2
<1>15. Stock(p)' = SumFunctionOnSet(h, S \cup R)
    <2>1. Stock(p)' = SumFunctionOnSet(h, {m \in DOMAIN movement' : m.product = p})
        BY <1>4 DEF Stock, StockDelta
    <2>2. QED
        BY ONLY <1>7, <2>1
<1>16. Stock(p) = SumFunctionOnSet(f, S)
    BY <1>1, <1>3 DEF Stock
<1>17. QED
    BY ONLY <1>13, <1>14, <1>15, <1>16

\* Goods that come in, and adjustments, which are stored without their sign,
\* lower no stock.
LEMMA StockGrows ==
    ASSUME MovementsOK, NEW R, IsFiniteSet(R),
           \A m \in R : MovementRow(m) /\ m.type # "OUT", Insert(R), NEW p
    PROVE  Stock(p)' >= Stock(p)
<1>1. PICK S : S = {m \in DOMAIN movement : m.product = p}
    OBVIOUS
<1>2. PICK T : T = {m \in DOMAIN movement' : m.product = p}
    OBVIOUS
<1>3. PICK f : f = [m \in DOMAIN movement |-> movement[m] * StockDelta(m)]
    OBVIOUS
<1>4. PICK h : h = [m \in DOMAIN movement' |-> movement'[m] * StockDelta(m)]
    OBVIOUS
<1>5. PICK e : e = [m \in T |-> IF m \in S THEN f[m] ELSE 0]
    OBVIOUS
<1>6. /\ MovementsOK'
      /\ DOMAIN movement' = DOMAIN movement \cup R
      /\ \A m \in DOMAIN movement' :
            movement'[m] = (IF m \in DOMAIN movement THEN movement[m] ELSE 0)
                              + (IF m \in R THEN 1 ELSE 0)
    BY InsertKeeps
<1>7. IsFiniteSet(T) /\ S \in SUBSET T /\ IsFiniteSet(S)
    BY <1>1, <1>2, <1>6, FS_Subset DEF MovementsOK
<1>8. ASSUME NEW m \in T
      PROVE  /\ e[m] \in Int /\ h[m] \in Int /\ e[m] <= h[m]
             /\ m \in S => e[m] = f[m]
             /\ m \notin S => e[m] = 0
    <2>1. /\ m \in DOMAIN movement' /\ StockDelta(m) \in Int
          /\ m \in S <=> m \in DOMAIN movement
          /\ m \in R => StockDelta(m) >= 0
        BY <1>1, <1>2, <1>6, DeltaIsInt DEF MovementsOK
    <2>2. h[m] = movement'[m] * StockDelta(m)
        BY <1>4, <2>1
    <2>3. movement'[m] = (IF m \in S THEN movement[m] ELSE 0)
                            + (IF m \in R THEN 1 ELSE 0)
        BY <1>6, <2>1
    <2>4. CASE m \in S
        <3>1. movement[m] \in Int /\ f[m] = movement[m] * StockDelta(m)
            BY <1>3, <2>1, <2>4 DEF MovementsOK
        <3>2. f[m] \in Int /\ e[m] = f[m]
            BY <1>5, <2>1, <2>4, <3>1
        <3>3. h[m] = f[m] \/ (h[m] = f[m] + StockDelta(m) /\ StockDelta(m) >= 0)
            <4>1. CASE m \in R
                <5>1. movement'[m] = movement[m] + 1
                    BY <2>3, <2>4, <3>1, <4>1
                <5>2. QED
                    BY <2>1, <2>2, <3>1, <4>1, <5>1
            <4>2. CASE m \notin R
                <5>1. movement'[m] = movement[m]
                    BY <2>3, <2>4, <3>1, <4>2
                <5>2. QED
                    BY <2>2, <3>1, <5>1
            <4>3. QED
                BY <4>1, <4>2
        <3>4. QED
            BY <2>1, <2>4, <3>2, <3>3
    <2>5. CASE m \notin S
        <3>1. m \in R /\ movement'[m] = 1
            BY <1>6, <2>1, <2>3, <2>5
        <3>2. e[m] = 0 /\ h[m] = StockDelta(m)
            BY <1>5, <2>1, <2>2, <2>5, <3>1
        <3>3. QED
            BY <2>1, <2>5, <3>1, <3>2
    <2>6. QED
        BY <2>4, <2>5
<1>9. SumFunctionOnSet(e, T) <= SumFunctionOnSet(h, T)
    BY <1>7, <1>8, SumOrder
<1>10. SumFunctionOnSet(e, T) = SumFunctionOnSet(e, S)
    BY <1>7, <1>8, SumNonzero
<1>11. SumFunctionOnSet(e, S) = SumFunctionOnSet(f, S)
    BY <1>7, <1>8, SumSame
<1>12. Stock(p) = SumFunctionOnSet(f, S)
    BY <1>1, <1>3 DEF Stock
<1>13. Stock(p)' = SumFunctionOnSet(h, T)
    BY <1>2, <1>4 DEF Stock, StockDelta
<1>14. Stock(p) \in Int /\ Stock(p)' \in Int
    <2>1. Stock(p) \in Int
        BY StockIsInt
    <2>2. \A m \in T : h[m] \in Int
        BY <1>8
    <2>3. SumFunctionOnSet(h, T) \in Int
        BY <1>7, <2>2, SumInt
    <2>4. QED
        BY <1>13, <2>1, <2>3
<1>15. QED
    BY <1>9, <1>10, <1>11, <1>12, <1>13, <1>14

-----------------------------------------------------------------------------
(* The stock is never taken below zero. *)

\* Where each step of a member leaves the handler.
LEMMA MemberGoes ==
    ASSUME StoreInv, NEW c \in GroceryCaller
    PROVE  /\ \A d, i, key : ReadForConfirm(c, d, i, key, i[1]) =>
                 groceryCall'[c].pc \in {"confirm", "answer"}
           /\ ConfirmItem(c) => Lands(c, {"take", "answer"})
           /\ CheckTake(c) => Lands(c, {"out"})
           /\ InsertTake(c) => Lands(c, {"answer"})
           /\ StoreAnswer(c) => Lands(c, {"count"})
           /\ CountConfirmed(c) => Lands(c, {"complete"})
           /\ Complete(c) => Lands(c, {})
<1>1. ASSUME NEW from \in ItemPc, NEW pc \in ItemPc, GroceryAt(c, from),
             GroceryGoto(c, pc) \/ GroceryReturn(c)
      PROVE  Lands(c, {pc})
    <2>1. GroceryGoto(c, pc) => Lands(c, {pc})
        BY <1>1, GotoIs DEF Lands
    <2>2. QED
        BY <1>1, <2>1, ReturnIs DEF Lands
<1>2. \A d, i, key : ReadForConfirm(c, d, i, key, i[1]) =>
         groceryCall'[c].pc \in {"confirm", "answer"}
    BY StartIs DEF ReadForConfirm, ItemCall
<1>3. ASSUME ConfirmItem(c)
      PROVE  Lands(c, {"take", "answer"})
    <2>1. Lands(c, {"take"}) \/ Lands(c, {"answer"})
        BY <1>1, <1>3 DEF ConfirmItem, ItemPc
    <2>2. QED
        BY <2>1 DEF Lands
<1>4. CheckTake(c) => Lands(c, {"out"})
    BY <1>1 DEF CheckTake, ItemPc
<1>5. InsertTake(c) => Lands(c, {"answer"})
    BY <1>1 DEF InsertTake, ItemPc
<1>6. StoreAnswer(c) => Lands(c, {"count"})
    BY <1>1 DEF StoreAnswer, ItemPc
<1>7. CountConfirmed(c) => Lands(c, {"complete"})
    BY <1>1 DEF CountConfirmed, ItemPc
<1>8. Complete(c) => Lands(c, {})
    BY ReturnIs DEF Complete, Lands
<1>9. QED
    BY <1>2, <1>3, <1>4, <1>5, <1>6, <1>7, <1>8

\* Only a handler that has found the stock sufficient goes on to take it.
LEMMA OutIsChecked ==
    ASSUME StoreInv, NEW c \in GroceryCaller, Step(c), groceryCall'[c] # None,
           groceryCall'[c].pc = "out"
    PROVE  CheckTake(c)
<1>1. CASE MemberStep(c)
    BY <1>1, MemberGoes DEF MemberStep, Lands
<1>2. CASE ~ MemberStep(c)
    BY <1>2, StockLands, ProductLands, PurchaseLands, OfficerLands
    DEF Step, Lands, Writing, OrderPc
<1>3. QED
    BY <1>1, <1>2

\* The steps that move stock.
LEMMA OthersMove ==
    ASSUME NEW c \in GroceryCaller, Step(c), ~ PurchaseStep(c)
    PROVE  UNCHANGED movement \/ InsertAdjust(c) \/ InsertTake(c)
<1>1. StockStep(c) => UNCHANGED movement \/ InsertAdjust(c)
    BY DEF StockStep, ReadForAdjust, WeighAdjust
<1>2. ProductStep(c) => UNCHANGED movement
    BY DEF ProductStep, ReadForCreate, ReadForUpdate, ReadForDelete,
       InsertProduct, ApplyUpdate, Deactivate, Delete
<1>3. OfficerStep(c) => UNCHANGED movement
    <2>1. CheckAvailable(c) => UNCHANGED movement
        BY DEF CheckAvailable
    <2>2. QED
        BY <2>1 DEF OfficerStep, CreateDistribution, ReadForStatus,
           ReadForItemStatus, InsertDistribution, WriteStatus, WriteItemStatus
<1>4. MemberStep(c) => UNCHANGED movement \/ InsertTake(c)
    BY DEF MemberStep, ReadForConfirm, ConfirmItem, CheckTake, StoreAnswer,
       CountConfirmed, Complete
<1>5. QED
    BY <1>1, <1>2, <1>3, <1>4 DEF Step

LEMMA WhoMoves ==
    ASSUME NEW c \in GroceryCaller, Step(c)
    PROVE  \/ UNCHANGED movement
           \/ InsertAdjust(c) \/ ReceiveGoods(c) \/ InsertTake(c)
<1>1. PurchaseStep(c) => UNCHANGED movement \/ ReceiveGoods(c)
    BY DEF PurchaseStep, CreatePurchase, ReadForReview, InsertPurchase,
       ApprovePurchase, RejectPurchase, StartPurchaseDebit, EndPurchaseDebit
<1>2. QED
    BY <1>1, OthersMove

\* A step that moves no stock leaves it as it was.
LEMMA StockSame ==
    ASSUME NEW p, UNCHANGED movement
    PROVE  Stock(p)' = Stock(p)
<1>1. PICK S : S = {m \in DOMAIN movement : m.product = p}
    OBVIOUS
<1>2. PICK f : f = [m \in DOMAIN movement |-> movement[m] * StockDelta(m)]
    OBVIOUS
<1>3. {m \in DOMAIN movement' : m.product = p} = S
    BY <1>1
<1>4. [m \in DOMAIN movement' |-> movement'[m] * StockDelta(m)] = f
    BY <1>2
<1>5. Stock(p)' = SumFunctionOnSet(f, S)
    <2>1. Stock(p)' = SumFunctionOnSet(
             [m \in DOMAIN movement' |-> movement'[m] * StockDelta(m)],
             {m \in DOMAIN movement' : m.product = p})
        BY DEF Stock, StockDelta
    <2>2. QED
        BY ONLY <1>3, <1>4, <2>1
<1>6. Stock(p) = SumFunctionOnSet(f, S)
    BY <1>1, <1>2 DEF Stock
<1>7. QED
    BY <1>5, <1>6

\* Every product starts with what is on the shelf, or with nothing.
LEMMA StockStarts ==
    ASSUME GroceryInit, NEW p
    PROVE  Stock(p) >= 0
<1>1. PICK S : S = {m \in DOMAIN movement : m.product = p}
    OBVIOUS
<1>2. PICK f : f = [m \in DOMAIN movement |-> movement[m] * StockDelta(m)]
    OBVIOUS
<1>3. Stock(p) = SumFunctionOnSet(f, S)
    BY <1>1, <1>2 DEF Stock
<1>4. CASE FromScratch
    <2>1. movement = SetToBag({})
        BY <1>4 DEF GroceryInit, EmptyBag
    <2>2. S = {}
        BY <1>1, <2>1 DEF SetToBag
    <2>3. QED
        BY <1>3, <2>2, SumEmpty
<1>5. CASE ~ FromScratch
    <2>1. MovementsOK /\ \A m \in DOMAIN movement : m.type = "ADJUSTMENT"
        BY <1>5, ShelvesFilled DEF GroceryInit
    <2>2. IsFiniteSet(S)
        BY <1>1, <2>1, FS_Subset DEF MovementsOK
    <2>3. ASSUME NEW m \in S
          PROVE  f[m] \in Int /\ 0 <= f[m]
        <3>1. /\ movement[m] \in Nat /\ StockDelta(m) \in Int /\ StockDelta(m) >= 0
              /\ f[m] = movement[m] * StockDelta(m)
            BY <1>1, <1>2, <2>1, DeltaIsInt DEF MovementsOK
        <3>2. QED
            BY <3>1
    <2>4. PICK z : z = [m \in S |-> 0]
        OBVIOUS
    <2>5. SumFunctionOnSet(z, S) = 0 * Cardinality(S)
        BY <2>2, <2>4, SumConstant
    <2>6. \A m \in S : z[m] \in Int /\ f[m] \in Int /\ z[m] <= f[m]
        BY <2>3, <2>4
    <2>7. SumFunctionOnSet(z, S) <= SumFunctionOnSet(f, S)
        BY <2>2, <2>6, SumOrder
    <2>8. Cardinality(S) \in Nat
        BY <2>2, FS_CardinalityType
    <2>9. SumFunctionOnSet(f, S) \in Int
        BY <2>2, <2>6, SumInt
    <2>10. QED
        BY <1>3, <2>5, <2>7, <2>8, <2>9
<1>6. QED
    BY <1>4, <1>5

\* Each inserting step adds rows of its own kind.
LEMMA AdjustInserts ==
    ASSUME StoreInv, NEW c \in GroceryCaller, InsertAdjust(c)
    PROVE  \E x : /\ MovementRow(x) /\ x.type = "ADJUSTMENT" /\ x.ref = None
                  /\ x.product = groceryCall[c].id
                  /\ Insert({x})
<1>1. /\ groceryCall[c].id \in Product
      /\ groceryCall[c].change \in Int \ {0}
    BY AtIs, CallIs, ChangeIsInt DEF InsertAdjust, ProductRec
<1>2. PICK x : x = Movement(groceryCall[c].id, "ADJUSTMENT",
                            groceryCall[c].change, None)
    OBVIOUS
<1>3. MovementRow(x) /\ x.type = "ADJUSTMENT" /\ x.ref = None
      /\ x.product = groceryCall[c].id
    BY <1>1, <1>2, MovementIsRow
<1>4. Insert({x})
    BY <1>2 DEF InsertAdjust
<1>5. QED
    BY <1>3, <1>4

LEMMA TakeInserts ==
    ASSUME StoreInv, NEW c \in GroceryCaller, InsertTake(c)
    PROVE  \E x : /\ MovementRow(x) /\ x.type = "OUT"
                  /\ x.product = groceryCall[c].item[2]
                  /\ x.ref = <<groceryCall[c].id, groceryCall[c].item>>
                  /\ x.quantity = TakenQuantity(TheItem(groceryCall[c]))
                  /\ Insert({x})
<1>1. /\ groceryCall[c].item[2] \in Product
      /\ TakenQuantity(TheItem(groceryCall[c])) \in Nat \ {0}
    BY ItemAt DEF InsertTake, ItemPc, Item
<1>2. PICK x : x = Movement(groceryCall[c].item[2], "OUT",
                            TakenQuantity(TheItem(groceryCall[c])),
                            <<groceryCall[c].id, groceryCall[c].item>>)
    OBVIOUS
<1>3. PICK q \in Int \ {0} : q = TakenQuantity(TheItem(groceryCall[c])) /\ q > 0
    BY <1>1
<1>4. /\ MovementRow(x) /\ x.type = "OUT" /\ x.product = groceryCall[c].item[2]
      /\ x.ref = <<groceryCall[c].id, groceryCall[c].item>> /\ x.quantity = q
    BY <1>1, <1>2, <1>3, MovementIsRow
<1>5. Insert({x})
    BY <1>2 DEF InsertTake
<1>6. QED
    BY <1>3, <1>4, <1>5

LEMMA GoodsInsert ==
    ASSUME StoreInv, NEW c \in GroceryCaller, ReceiveGoods(c)
    PROVE  /\ groceryCall[c].id \in Purchase
           /\ purchase[groceryCall[c].id] \in PurchaseRow
           /\ Insert(Receipts(groceryCall[c].id))
BY OrderAt DEF ReceiveGoods, OrderPc

\* A handler that goes on to take an item does so with the item it checked.
LEMMA TakeIsReady ==
    ASSUME StoreInv, NEW c \in GroceryCaller, Step(c), GroceryAt(c, "out")'
    PROVE  (Stock(groceryCall[c].item[2]) >= TakenQuantity(TheItem(groceryCall[c])))'
<1>1. CheckTake(c)
    BY OutIsChecked DEF GroceryAt
<1>2. /\ GroceryAt(c, "take")
      /\ UNCHANGED <<movement, distribution>>
      /\ Available(groceryCall[c].item[2], TakenQuantity(TheItem(groceryCall[c])))
      /\ GroceryGoto(c, "out")
    BY <1>1, ReturnIs DEF CheckTake, GroceryAt
<1>3. /\ groceryCall'[c].id = groceryCall[c].id
      /\ groceryCall'[c].item = groceryCall[c].item
    BY <1>2, GotoIs DEF ItemPc
<1>4. TheItem(groceryCall[c])' = TheItem(groceryCall[c])
    BY <1>2, <1>3 DEF TheItem
<1>5. TakenQuantity(TheItem(groceryCall[c]))' = TakenQuantity(TheItem(groceryCall[c]))
    BY <1>4 DEF TakenQuantity
<1>6. PICK p : p = groceryCall[c].item[2]
    OBVIOUS
<1>7. Stock(groceryCall[c].item[2])' = Stock(p)'
    <2>1. PICK S : S = {m \in DOMAIN movement' : m.product = p}
        OBVIOUS
    <2>2. {m \in DOMAIN movement' : m.product = groceryCall'[c].item[2]} = S
        BY <1>3, <1>6, <2>1
    <2>3. PICK h : h = [m \in DOMAIN movement' |-> movement'[m] * StockDelta(m)]
        OBVIOUS
    <2>4. Stock(groceryCall[c].item[2])' = SumFunctionOnSet(h,
             {m \in DOMAIN movement' : m.product = groceryCall'[c].item[2]})
        BY <2>3 DEF Stock, StockDelta
    <2>5. Stock(p)' = SumFunctionOnSet(h, S)
        BY <2>1, <2>3 DEF Stock, StockDelta
    <2>6. QED
        BY ONLY <2>2, <2>4, <2>5
<1>8. Stock(p)' = Stock(p)
    BY <1>2, StockSame
<1>9. QED
    BY <1>2, <1>5, <1>6, <1>7, <1>8 DEF Available

LEMMA StepKeepsLevel ==
    ASSUME BaseInv, StockInv, Alone, NEW c \in GroceryCaller, Step(c), UNCHANGED scene
    PROVE  StockInv'
<1>1. StoreInv /\ OnlyOne /\ MovementsOK
    BY DEF BaseInv, StoreInv, RowsOK
<1>2. \A p \in Product : Stock(p) \in Int /\ Stock(p) >= 0 /\ Stock(p)' \in Int
    <2>1. MovementsOK'
        BY <1>1, StepKeepsStore DEF BaseInv, StoreInv, RowsOK
    <2>2. ASSUME NEW p \in Product PROVE Stock(p)' \in Int
        <3>1. PICK S : S = {m \in DOMAIN movement' : m.product = p}
            OBVIOUS
        <3>2. PICK h : h = [m \in DOMAIN movement' |-> movement'[m] * StockDelta(m)]
            OBVIOUS
        <3>3. IsFiniteSet(S)
            BY <2>1, <3>1, FS_Subset DEF MovementsOK
        <3>4. ASSUME NEW m \in S PROVE h[m] \in Int
            <4>1. movement'[m] \in Int /\ StockDelta(m) \in Int
                BY <2>1, <3>1, DeltaIsInt DEF MovementsOK, MovementRow
            <4>2. h[m] = movement'[m] * StockDelta(m)
                BY <3>1, <3>2
            <4>3. QED
                BY <4>1, <4>2
        <3>5. SumFunctionOnSet(h, S) \in Int
            BY <3>3, <3>4, SumInt
        <3>6. Stock(p)' = SumFunctionOnSet(h, S)
            BY <3>1, <3>2 DEF Stock, StockDelta
        <3>7. QED
            BY <3>5, <3>6
    <2>3. QED
        BY <1>1, <2>2, StockIsInt DEF StockInv
<1>3. ASSUME NEW p \in Product
      PROVE  Stock(p)' >= 0
    <2>1. CASE UNCHANGED movement
        BY <1>2, <2>1, StockSame
    <2>2. CASE InsertAdjust(c)
        <3>1. PICK x : MovementRow(x) /\ x.type = "ADJUSTMENT" /\ Insert({x})
            BY <1>1, <2>2, AdjustInserts
        <3>2. Stock(p)' >= Stock(p)
            BY <1>1, <3>1, StockGrows, FS_Singleton
        <3>3. QED
            BY <1>2, <3>2
    <2>3. CASE ReceiveGoods(c)
        <3>1. /\ IsFiniteSet(Receipts(groceryCall[c].id))
              /\ \A m \in Receipts(groceryCall[c].id) : MovementRow(m) /\ m.type # "OUT"
              /\ Insert(Receipts(groceryCall[c].id))
            BY <1>1, <2>3, GoodsInsert, ReceiptsAre
        <3>2. Stock(p)' >= Stock(p)
            BY <1>1, <3>1, StockGrows
        <3>3. QED
            BY <1>2, <3>2
    <2>4. CASE InsertTake(c)
        <3>1. GroceryAt(c, "out")
            BY <2>4 DEF InsertTake
        <3>2. PICK x : /\ MovementRow(x) /\ x.type = "OUT"
                       /\ x.product = groceryCall[c].item[2]
                       /\ x.quantity = TakenQuantity(TheItem(groceryCall[c]))
                       /\ Insert({x})
            BY <1>1, <2>4, TakeInserts
        <3>3. Stock(groceryCall[c].item[2]) >= x.quantity
            BY <3>1, <3>2 DEF StockInv
        <3>4. Stock(p)' = Stock(p) + (IF x.product = p THEN StockDelta(x) ELSE 0)
            BY <1>1, <3>2, StockInserted
        <3>5. StockDelta(x) = -x.quantity /\ x.quantity \in Nat
            BY <3>2, DeltaIsInt DEF MovementRow
        <3>6. QED
            BY <1>2, <3>2, <3>3, <3>4, <3>5
    <2>5. QED
        BY <2>1, <2>2, <2>3, <2>4, WhoMoves
<1>4. ASSUME NEW b \in GroceryCaller, GroceryAt(b, "out")'
      PROVE  (Stock(groceryCall[b].item[2]) >= TakenQuantity(TheItem(groceryCall[b])))'
    <2>1. b = c
        BY <1>1, <1>4, StepAlone DEF GroceryAt
    <2>2. QED
        BY <1>1, <1>4, <2>1, TakeIsReady
<1>5. QED
    BY <1>3, <1>4 DEF StockInv

LEMMA StockInvariant == GrocerySpec => [](BaseInv /\ StockInv)
<1>1. GroceryInit => StockInv
    BY StockStarts DEF StockInv, GroceryInit, GroceryAt
<1>2. BaseInv /\ StockInv /\ [GroceryNext]_groceryVars => StockInv'
    <2>1. SUFFICES ASSUME BaseInv, StockInv, [GroceryNext]_groceryVars, Alone'
                   PROVE  StockInv'
        BY DEF StockInv
    <2>2. UNCHANGED scene /\ Alone
        BY <2>1, NextIs DEF groceryVars, Alone
    <2>3. CASE GroceryCrash
        <3>1. UNCHANGED movement /\ \A c \in GroceryCaller : groceryCall'[c] = None
            BY <2>3 DEF GroceryCrash
        <3>2. QED
            BY <2>1, <2>2, <3>1, StockSame DEF StockInv, GroceryAt
    <2>4. CASE UNCHANGED groceryVars
        <3>1. UNCHANGED <<movement, distribution, groceryCall>>
            BY <2>4 DEF groceryVars
        <3>2. \A p : Stock(p)' = Stock(p)
            BY <3>1, StockSame
        <3>3. QED
            BY <2>1, <2>2, <3>1, <3>2 DEF StockInv, GroceryAt, TheItem, TakenQuantity
    <2>5. CASE \E c \in GroceryCaller : Step(c)
        BY <2>1, <2>2, <2>5, StepKeepsLevel
    <2>6. QED
        BY <2>1, <2>3, <2>4, <2>5, NextIs
<1>3. QED
    BY <1>1, <1>2, BaseInvariant, PTL DEF GrocerySpec

\* However distributions, adjustments, purchases and confirmations follow one
\* another, with one request at a time and across crashes, nobody takes more of
\* a product than is there, as long as no loss of it was entered: nothing comes
\* between the handler's last look at the stock and the movement that takes
\* from it.
THEOREM GroceryNeverOversold == GrocerySpec => []NeverOversold
<1>1. ASSUME BaseInv, StockInv, Alone, NEW p \in Product, WrittenOff(p) = 0
      PROVE  OnHand(p) >= 0
    <2>1. Stock(p) \in Int /\ Stock(p) >= 0
        BY <1>1, StockIsInt DEF BaseInv, StoreInv, RowsOK, StockInv
    <2>2. OnHand(p) = Stock(p)
        BY <1>1, <2>1 DEF OnHand
    <2>3. QED
        BY <2>1, <2>2
<1>2. BaseInv /\ StockInv => NeverOversold
    BY <1>1 DEF NeverOversold
<1>3. QED
    BY <1>2, StockInvariant, PTL

-----------------------------------------------------------------------------
(* A confirmed item is done with. *)

\* Rows inserted for something else do not count as takes of the item.
LEMMA TakesInserted ==
    ASSUME MovementsOK, NEW R, IsFiniteSet(R), \A m \in R : MovementRow(m),
           Insert(R), NEW d, NEW i,
           \A m \in R : m.type = "OUT" => m.ref # <<d, i>>
    PROVE  /\ TimesTaken(d, i)' = TimesTaken(d, i)
           /\ WasTaken(d, i)' = WasTaken(d, i)
<1>1. PICK W : W = {m \in DOMAIN movement : m.type = "OUT" /\ m.ref = <<d, i>>}
    OBVIOUS
<1>2. DOMAIN movement' = DOMAIN movement \cup R
    BY InsertKeeps
<1>3. /\ {m \in DOMAIN movement' : m.type = "OUT" /\ m.ref = <<d, i>>}
            = DOMAIN movement' \cap W
      /\ {m \in DOMAIN movement : m.type = "OUT" /\ m.ref = <<d, i>>}
            = DOMAIN movement \cap W
      /\ R \cap W = {}
    BY <1>1, <1>2
<1>4. /\ SumFunctionOnSet(movement', DOMAIN movement' \cap W) =
            SumFunctionOnSet(movement, DOMAIN movement \cap W) + Cardinality(R \cap W)
      /\ SumFunctionOnSet(movement, DOMAIN movement \cap W) \in Nat
    BY CountInserted
<1>5. Cardinality(R \cap W) = 0
    BY <1>3, FS_EmptySet
<1>6. TimesTaken(d, i)' = SumFunctionOnSet(movement', DOMAIN movement' \cap W)
    <2>1. TimesTaken(d, i)' = SumFunctionOnSet(movement',
             {m \in DOMAIN movement' : m.type = "OUT" /\ m.ref = <<d, i>>})
        BY DEF TimesTaken
    <2>2. QED
        BY ONLY <1>3, <2>1
<1>7. TimesTaken(d, i) = SumFunctionOnSet(movement, DOMAIN movement \cap W)
    <2>1. TimesTaken(d, i) = SumFunctionOnSet(movement,
             {m \in DOMAIN movement : m.type = "OUT" /\ m.ref = <<d, i>>})
        BY DEF TimesTaken
    <2>2. QED
        BY ONLY <1>3, <2>1
<1>8. TimesTaken(d, i)' = TimesTaken(d, i)
    BY ONLY <1>4, <1>5, <1>6, <1>7
<1>9. WasTaken(d, i)' = WasTaken(d, i)
    BY <1>2 DEF WasTaken
<1>10. QED
    BY <1>8, <1>9

LEMMA TakesSame ==
    ASSUME NEW d, NEW i, UNCHANGED movement
    PROVE  TimesTaken(d, i)' = TimesTaken(d, i) /\ WasTaken(d, i)' = WasTaken(d, i)
BY DEF TimesTaken, WasTaken

\* Only a handler at the end of its confirmation takes an item.
LEMMA WhoTakes ==
    ASSUME StoreInv, NEW c \in GroceryCaller, Step(c), NEW d, NEW i,
           TimesTaken(d, i)' # TimesTaken(d, i) \/ WasTaken(d, i)' # WasTaken(d, i)
    PROVE  /\ InsertTake(c)
           /\ <<groceryCall[c].id, groceryCall[c].item>> = <<d, i>>
<1>1. MovementsOK
    BY DEF StoreInv, RowsOK
<1>2. ASSUME InsertAdjust(c)
      PROVE  TimesTaken(d, i)' = TimesTaken(d, i) /\ WasTaken(d, i)' = WasTaken(d, i)
    <2>1. PICK x : MovementRow(x) /\ x.type = "ADJUSTMENT" /\ Insert({x})
        BY <1>2, AdjustInserts
    <2>2. QED
        BY <1>1, <2>1, FS_Singleton, TakesInserted
<1>3. ASSUME ReceiveGoods(c)
      PROVE  TimesTaken(d, i)' = TimesTaken(d, i) /\ WasTaken(d, i)' = WasTaken(d, i)
    <2>1. /\ IsFiniteSet(Receipts(groceryCall[c].id))
          /\ \A m \in Receipts(groceryCall[c].id) : MovementRow(m) /\ m.type = "IN"
          /\ Insert(Receipts(groceryCall[c].id))
        BY <1>3, GoodsInsert, ReceiptsAre
    <2>2. QED
        BY <1>1, <2>1, TakesInserted
<1>4. ASSUME InsertTake(c), <<groceryCall[c].id, groceryCall[c].item>> # <<d, i>>
      PROVE  TimesTaken(d, i)' = TimesTaken(d, i) /\ WasTaken(d, i)' = WasTaken(d, i)
    <2>1. PICK x : /\ MovementRow(x) /\ x.type = "OUT"
                   /\ x.ref = <<groceryCall[c].id, groceryCall[c].item>>
                   /\ Insert({x})
        BY <1>4, TakeInserts
    <2>2. PICK R : R = {x}
        OBVIOUS
    <2>3. /\ IsFiniteSet(R) /\ Insert(R)
          /\ \A m \in R : MovementRow(m)
          /\ \A m \in R : m.type = "OUT" => m.ref # <<d, i>>
        BY <1>4, <2>1, <2>2, FS_Singleton
    <2>4. QED
        BY <1>1, <2>3, TakesInserted
<1>5. UNCHANGED movement \/ InsertAdjust(c) \/ ReceiveGoods(c) \/ InsertTake(c)
    BY WhoMoves
<1>6. QED
    BY <1>2, <1>3, <1>4, <1>5, TakesSame

\* The steps that write distributions.
LEMMA WhoWrites ==
    ASSUME NEW c \in GroceryCaller, Step(c)
    PROVE  \/ UNCHANGED distribution
           \/ /\ UNCHANGED purchase
              /\ \/ InsertDistribution(c) \/ WriteStatus(c) \/ WriteItemStatus(c)
                 \/ ConfirmItem(c) \/ Complete(c)
<1>1. StockStep(c) \/ ProductStep(c) \/ PurchaseStep(c) => UNCHANGED distribution
    BY DEF StockStep, ProductStep, PurchaseStep
<1>2. OfficerStep(c) =>
         \/ UNCHANGED distribution
         \/ InsertDistribution(c) \/ WriteStatus(c) \/ WriteItemStatus(c)
    <2>1. CheckAvailable(c) => UNCHANGED distribution
        BY DEF CheckAvailable
    <2>2. QED
        BY <2>1 DEF OfficerStep, CreateDistribution, ReadForStatus, ReadForItemStatus
<1>3. MemberStep(c) => UNCHANGED distribution \/ ConfirmItem(c) \/ Complete(c)
    BY DEF MemberStep, ReadForConfirm, CheckTake, InsertTake, StoreAnswer,
       CountConfirmed
<1>4. OfficerStep(c) \/ MemberStep(c) => UNCHANGED purchase
    BY DEF OfficerStep, MemberStep
<1>5. QED
    BY <1>1, <1>2, <1>3, <1>4 DEF Step

\* The step writes this item: an officer its status, its member the rest.
WorksOn(c, d, i) ==
    /\ groceryCall[c].id = d /\ groceryCall[c].item = i
    /\ \/ /\ WriteItemStatus(c)
          /\ distribution'[d].items[i] =
                [distribution[d].items[i] EXCEPT !.status = groceryCall[c].status]
       \/ /\ ConfirmItem(c)
          /\ distribution'[d].items[i] =
                [distribution[d].items[i] EXCEPT !.status = "CONFIRMED",
                                                 !.key = Given(groceryCall[c].key, @)]

\* What a step leaves of an item: all of it, unless it works on that item.
LEMMA ItemStays ==
    ASSUME BaseInv, NEW c \in GroceryCaller, Step(c), UNCHANGED scene,
           NEW d \in Distribution, NEW i \in Item, HasItem(d, i)
    PROVE  /\ HasItem(d, i)'
           /\ distribution'[d].items[i] = distribution[d].items[i] \/ WorksOn(c, d, i)
<1>1. StoreInv /\ SharesInv
    BY DEF BaseInv
<1>2. CASE UNCHANGED distribution
    BY <1>2 DEF HasItem
<1>3. CASE InsertDistribution(c)
    <2>1. groceryCall[c].id # d
        BY <1>1, <1>3 DEF SharesInv, Sharing, InsertDistribution, GroceryAt, HasItem
    <2>2. distribution'[d] = distribution[d]
        BY <1>1, <1>3, <2>1 DEF InsertDistribution, StoreInv, RowsOK
    <2>3. QED
        BY <2>2 DEF HasItem
<1>4. ASSUME NEW e \in Distribution, distribution[e] # None,
             NEW status \in DistributionStatus,
             distribution' = [distribution EXCEPT ![e].status = status],
             UNCHANGED <<product, movement, purchase, answered>>
      PROVE  HasItem(d, i)' /\ distribution'[d].items[i] = distribution[d].items[i]
    <2>1. RowsKept /\ distribution'[e].items = distribution[e].items
          /\ \A f \in Distribution \ {e} : distribution'[f] = distribution[f]
        BY <1>1, <1>4, StatusWritten
    <2>2. QED
        BY <2>1 DEF RowsKept, RowsStay
<1>5. CASE WriteStatus(c) /\ UNCHANGED purchase
    <2>1. /\ groceryCall[c].id \in Distribution
          /\ groceryCall[c].status \in DistributionStatus
          /\ distribution[groceryCall[c].id] # None
        BY <1>1, <1>5, AtIs, CallIs DEF WriteStatus, CallRow
    <2>2. QED
        BY <1>4, <1>5, <2>1 DEF WriteStatus
<1>6. CASE Complete(c) /\ UNCHANGED purchase
    <2>1. /\ groceryCall[c].id \in Distribution
          /\ distribution[groceryCall[c].id] # None
          /\ "COMPLETED" \in DistributionStatus
        BY <1>1, <1>6, ItemAt DEF Complete, ItemPc, HasItem, DistributionStatus
    <2>2. QED
        BY <1>4, <1>6, <2>1 DEF Complete
<1>7. ASSUME NEW e \in Distribution, NEW j \in Item, HasItem(e, j),
             NEW item \in StoredItem, SetItem(e, j, item),
             UNCHANGED <<product, movement, purchase, answered>>
      PROVE  /\ HasItem(d, i)'
             /\ IF e = d /\ j = i THEN distribution'[d].items[i] = item
                ELSE distribution'[d].items[i] = distribution[d].items[i]
    <2>1. /\ RowsKept
          /\ distribution'[e].items = [distribution[e].items EXCEPT ![j] = item]
          /\ distribution'[e].items[j] = item
          /\ \A f \in Distribution \ {e} : distribution'[f] = distribution[f]
        BY <1>1, <1>7, ItemWritten
    <2>2. HasItem(d, i)'
        BY <2>1 DEF RowsKept, RowsStay
    <2>3. CASE e = d /\ j # i
        BY <2>1, <2>2, <2>3 DEF HasItem
    <2>4. CASE e # d \/ (e = d /\ j = i)
        BY <2>1, <2>2, <2>4
    <2>5. QED
        BY <2>3, <2>4
<1>8. CASE WriteItemStatus(c) /\ UNCHANGED purchase
    <2>1. /\ groceryCall[c].id \in Distribution /\ groceryCall[c].item \in Item
          /\ HasItem(groceryCall[c].id, groceryCall[c].item)
          /\ TheItem(groceryCall[c]) \in StoredItem
          /\ groceryCall[c].status \in ItemStatus
        BY <1>1, <1>8, ItemAt DEF WriteItemStatus, ItemPc, ItemRec
    <2>2. PICK item : item = [TheItem(groceryCall[c]) EXCEPT
                                !.status = groceryCall[c].status]
        OBVIOUS
    <2>3. item \in StoredItem
        BY <2>1, <2>2 DEF StoredItem
    <2>4. SetItem(groceryCall[c].id, groceryCall[c].item, item)
          /\ UNCHANGED <<product, movement, purchase, answered>>
        BY <1>8, <2>2 DEF WriteItemStatus
    <2>5. QED
        BY <1>7, <1>8, <2>1, <2>2, <2>3, <2>4 DEF TheItem, WorksOn
<1>9. CASE ConfirmItem(c) /\ UNCHANGED purchase
           /\ ItemKeyFree(groceryCall[c].id, groceryCall[c].item, groceryCall[c].key)
    <2>1. /\ groceryCall[c].id \in Distribution /\ groceryCall[c].item \in Item
          /\ HasItem(groceryCall[c].id, groceryCall[c].item)
          /\ TheItem(groceryCall[c]) \in StoredItem
          /\ groceryCall[c].key \in Key \cup {None}
        BY <1>1, <1>9, ItemAt DEF ConfirmItem, ItemPc, ItemRec
    <2>2. PICK item : item = [TheItem(groceryCall[c]) EXCEPT
                                !.status = "CONFIRMED",
                                !.key = Given(groceryCall[c].key, @)]
        OBVIOUS
    <2>3. item \in StoredItem
        BY <2>1, <2>2 DEF StoredItem, ItemStatus, Given
    <2>4. SetItem(groceryCall[c].id, groceryCall[c].item, item)
          /\ UNCHANGED <<product, movement, purchase, answered>>
        BY <1>9, <2>2 DEF ConfirmItem
    <2>5. QED
        BY <1>7, <1>9, <2>1, <2>2, <2>3, <2>4 DEF TheItem, WorksOn
<1>10. CASE ConfirmItem(c)
            /\ ~ ItemKeyFree(groceryCall[c].id, groceryCall[c].item, groceryCall[c].key)
    BY <1>2, <1>10 DEF ConfirmItem
<1>11. QED
    BY <1>2, <1>3, <1>5, <1>6, <1>8, <1>9, <1>10, WhoWrites

\* An officer's handler starts with an item that is not confirmed.
LEMMA SetIsRead ==
    ASSUME StoreInv, NEW c \in GroceryCaller, Step(c), groceryCall'[c] # None,
           groceryCall'[c].pc = "set"
    PROVE  /\ UNCHANGED distribution
           /\ distribution[groceryCall'[c].id].items[groceryCall'[c].item].status
                 # "CONFIRMED"
<1>1. OfficerStep(c)
    BY StockLands, ProductLands, PurchaseLands, MemberLands
    DEF Step, Lands, Writing, OrderPc
<1>2. ASSUME NEW d, NEW wanted, NEW overrides, NEW by,
             CreateDistribution(c, d, wanted, overrides, by)
      PROVE  FALSE
    BY <1>2, StartIs DEF CreateDistribution
<1>3. ASSUME NEW d, NEW status, NEW by, ReadForStatus(c, d, status, by)
      PROVE  FALSE
    BY <1>3, StartIs DEF ReadForStatus
<1>4. ASSUME NEW d, NEW i, NEW status, NEW by, ReadForItemStatus(c, d, i, status, by)
      PROVE  /\ UNCHANGED distribution
             /\ distribution[groceryCall'[c].id].items[groceryCall'[c].item].status
                   # "CONFIRMED"
    BY <1>4, StartIs DEF ReadForItemStatus, ItemCall
<1>5. ~ CheckAvailable(c)
    BY CheckAvailableIs
<1>6. ~ InsertDistribution(c) /\ ~ WriteStatus(c)
    BY ReturnIs DEF InsertDistribution, WriteStatus
<1>7. ASSUME WriteItemStatus(c)
      PROVE  FALSE
    <2>1. GroceryAt(c, "set")
        BY <1>7 DEF WriteItemStatus
    <2>2. GroceryGoto(c, "take")
        BY <1>7, ReturnIs DEF WriteItemStatus
    <2>3. "set" \in ItemPc /\ "take" \in ItemPc
        BY DEF ItemPc
    <2>4. groceryCall'[c].pc = "take"
        BY <2>1, <2>2, <2>3, GotoIs
    <2>5. QED
        BY <2>4
<1>8. QED
    BY <1>1, <1>2, <1>3, <1>4, <1>5, <1>6, <1>7 DEF OfficerStep

LEMMA FinalInvariant == GrocerySpec => [](BaseInv /\ FinalInv)
<1>1. GroceryInit => FinalInv
    BY DEF FinalInv, GroceryInit, GroceryAt
<1>2. BaseInv /\ FinalInv /\ [GroceryNext]_groceryVars => FinalInv'
    <2>1. SUFFICES ASSUME BaseInv, FinalInv, [GroceryNext]_groceryVars, Alone',
                          NEW c \in GroceryCaller, GroceryAt(c, "set")'
                   PROVE  distribution'[groceryCall'[c].id].items[groceryCall'[c].item].status
                             # "CONFIRMED"
        BY DEF FinalInv
    <2>2. /\ UNCHANGED scene /\ Alone
          /\ StoreInv /\ OnlyOne
          /\ groceryCall'[c] # None /\ groceryCall'[c].pc = "set"
        BY <2>1, NextIs DEF groceryVars, Alone, BaseInv, GroceryAt
    <2>3. ~ GroceryCrash
        BY <2>2 DEF GroceryCrash
    <2>4. CASE UNCHANGED groceryVars
        BY <2>1, <2>2, <2>4 DEF groceryVars, FinalInv, GroceryAt
    <2>5. ASSUME NEW b \in GroceryCaller, Step(b)
          PROVE  distribution'[groceryCall'[c].id].items[groceryCall'[c].item].status
                    # "CONFIRMED"
        <3>1. b = c
            BY <2>2, <2>5, StepAlone
        <3>2. QED
            BY <2>2, <2>5, <3>1, SetIsRead
    <2>6. QED
        BY <2>1, <2>3, <2>4, <2>5, NextIs
<1>3. QED
    BY <1>1, <1>2, BaseInvariant, PTL DEF GrocerySpec

\* What a step may not do to a confirmed item.
FinalStep ==
    \A d \in Distribution, i \in Item :
       /\ Alone
       /\ HasItem(d, i)
       /\ distribution[d].items[i].status = "CONFIRMED"
       /\ \A c \in GroceryCaller : ~ GroceryAt(c, "take") /\ ~ GroceryAt(c, "out")
       => /\ distribution'[d].items[i].status = "CONFIRMED"
          /\ TimesTaken(d, i)' = TimesTaken(d, i)

\* With one request at a time no step of anyone changes the status of a
\* confirmed item or takes it out of the stock once more: an officer's handler
\* has looked at the status before, and nothing came between.
THEOREM ConfirmedStaysFinal == GrocerySpec => ConfirmedIsFinal
<1>1. BaseInv /\ FinalInv /\ [GroceryNext]_groceryVars => [FinalStep]_groceryVars
    <2>1. SUFFICES ASSUME BaseInv, FinalInv, GroceryNext, Alone,
                          NEW d \in Distribution, NEW i \in Item, HasItem(d, i),
                          distribution[d].items[i].status = "CONFIRMED",
                          \A c \in GroceryCaller :
                             ~ GroceryAt(c, "take") /\ ~ GroceryAt(c, "out")
                   PROVE  /\ distribution'[d].items[i].status = "CONFIRMED"
                          /\ TimesTaken(d, i)' = TimesTaken(d, i)
        BY DEF FinalStep
    <2>2. StoreInv /\ UNCHANGED scene
        BY <2>1, NextIs DEF BaseInv
    <2>3. CASE GroceryCrash
        BY <2>1, <2>3, TakesSame DEF GroceryCrash
    <2>4. ASSUME NEW c \in GroceryCaller, Step(c)
          PROVE  /\ distribution'[d].items[i].status = "CONFIRMED"
                 /\ TimesTaken(d, i)' = TimesTaken(d, i)
        <3>1. TimesTaken(d, i)' = TimesTaken(d, i)
            BY <2>1, <2>2, <2>4, WhoTakes DEF InsertTake
        <3>2. distribution[d].items[i] \in StoredItem
            BY <2>1, <2>2, StoredIs DEF HasItem, StoreInv, RowsOK
        <3>3. ~ (WriteItemStatus(c) /\ groceryCall[c].id = d /\ groceryCall[c].item = i)
            BY <2>1 DEF FinalInv, WriteItemStatus
        <3>4. distribution'[d].items[i] = distribution[d].items[i] \/ WorksOn(c, d, i)
            BY <2>1, <2>2, <2>4, ItemStays
        <3>5. distribution'[d].items[i].status = "CONFIRMED"
            BY <2>1, <3>2, <3>3, <3>4 DEF StoredItem, WorksOn
        <3>6. QED
            BY <3>1, <3>5
    <2>5. QED
        BY <2>1, <2>3, <2>4, NextIs
<1>2. QED
    BY <1>1, FinalInvariant, PTL DEF GrocerySpec, ConfirmedIsFinal, FinalStep

-----------------------------------------------------------------------------
(* A member takes an item once. *)

\* The first take of an item is the only one.
LEMMA TakesFirst ==
    ASSUME MovementsOK, NEW x, MovementRow(x), Insert({x}), NEW d, NEW i,
           x.type = "OUT", x.ref = <<d, i>>, ~ WasTaken(d, i)
    PROVE  TimesTaken(d, i)' = 1
<1>1. PICK W : W = {x}
    OBVIOUS
<1>2. IsFiniteSet({x}) /\ Cardinality({x}) = 1
    BY FS_Singleton
<1>3. PICK R : R = {x}
    OBVIOUS
<1>4. IsFiniteSet(R) /\ Insert(R) /\ \A m \in R : MovementRow(m)
    BY <1>2, <1>3
<1>5. DOMAIN movement' = DOMAIN movement \cup R
    BY <1>4, InsertKeeps
<1>6. x \notin DOMAIN movement
    BY DEF WasTaken
<1>7. /\ {m \in DOMAIN movement' : m.type = "OUT" /\ m.ref = <<d, i>>}
            = DOMAIN movement' \cap W
      /\ DOMAIN movement \cap W = {}
      /\ R \cap W = {x}
    BY <1>1, <1>3, <1>5, <1>6 DEF WasTaken
<1>8. /\ SumFunctionOnSet(movement', DOMAIN movement' \cap W) =
            SumFunctionOnSet(movement, DOMAIN movement \cap W) + Cardinality(R \cap W)
      /\ SumFunctionOnSet(movement, DOMAIN movement \cap W) \in Nat
    BY <1>4, CountInserted
<1>9. SumFunctionOnSet(movement, DOMAIN movement \cap W) = 0
    BY <1>7, SumEmpty
<1>10. Cardinality(R \cap W) = 1
    BY <1>2, <1>7
<1>11. TimesTaken(d, i)' = SumFunctionOnSet(movement', DOMAIN movement' \cap W)
    <2>1. TimesTaken(d, i)' = SumFunctionOnSet(movement',
             {m \in DOMAIN movement' : m.type = "OUT" /\ m.ref = <<d, i>>})
        BY DEF TimesTaken
    <2>2. QED
        BY ONLY <1>7, <2>1
<1>12. QED
    BY ONLY <1>8, <1>9, <1>10, <1>11

Taking == {"confirm", "take", "out"}

\* What a member's handler is about to take, it or an earlier step has found
\* not taken.
LEMMA TakingIsNew ==
    ASSUME BaseInv, CollectInv, TakesInv, Alone, scene.desk = "collect",
           NEW c \in GroceryCaller, MemberStep(c),
           groceryCall'[c] # None, groceryCall'[c].pc \in Taking
    PROVE  ~ WasTaken(groceryCall[c].id, groceryCall[c].item)'
<1>1. StoreInv /\ TakenIsConfirmed
    BY DEF BaseInv, CollectInv
<1>2. ASSUME NEW d \in Distribution, NEW i \in Item, NEW key,
             ReadForConfirm(c, d, i, key, i[1])
      PROVE  ~ WasTaken(groceryCall[c].id, groceryCall[c].item)'
    <2>1. PICK x : x = ItemCall(
             IF distribution[d].items[i].status = "CONFIRMED" THEN "answer"
             ELSE "confirm", d, i, "CONFIRMED", key)
        OBVIOUS
    <2>2. GroceryStart(c, x) /\ UNCHANGED movement
        BY <1>2, <2>1 DEF ReadForConfirm
    <2>3. groceryCall'[c] = x
        BY <1>1, <2>2, StartIs
    <2>4. x.id = d /\ x.item = i
          /\ (x.pc \in Taking => distribution[d].items[i].status # "CONFIRMED")
        BY <2>1 DEF ItemCall, Taking
    <2>5. ~ WasTaken(d, i)
        BY <1>1, <2>3, <2>4 DEF TakenIsConfirmed, Received
    <2>6. QED
        BY <2>2, <2>3, <2>4, <2>5 DEF WasTaken
<1>3. ASSUME NEW from \in Taking, NEW pc \in ItemPc, GroceryAt(c, from),
             GroceryGoto(c, pc) \/ GroceryReturn(c), UNCHANGED movement
      PROVE  ~ WasTaken(groceryCall[c].id, groceryCall[c].item)'
    <2>1. GroceryGoto(c, pc) /\ from \in ItemPc
        BY <1>1, <1>3, ReturnIs DEF Taking, ItemPc
    <2>2. /\ groceryCall'[c].id = groceryCall[c].id
          /\ groceryCall'[c].item = groceryCall[c].item
        BY <1>1, <1>3, <2>1, GotoIs
    <2>3. ~ WasTaken(groceryCall[c].id, groceryCall[c].item)
        BY <1>3 DEF TakesInv, GroceryAt, Taking
    <2>4. QED
        BY <1>3, <2>2, <2>3 DEF WasTaken
<1>4. CASE ConfirmItem(c)
    <2>1. GroceryAt(c, "confirm") /\ UNCHANGED movement
        BY <1>4 DEF ConfirmItem
    <2>2. GroceryReturn(c) \/ GroceryGoto(c, "take") \/ GroceryGoto(c, "answer")
        BY <1>4 DEF ConfirmItem
    <2>3. QED
        BY <1>3, <2>1, <2>2 DEF Taking, ItemPc
<1>5. CASE CheckTake(c)
    <2>1. GroceryAt(c, "take") /\ UNCHANGED movement
          /\ (GroceryReturn(c) \/ GroceryGoto(c, "out"))
        BY <1>5 DEF CheckTake
    <2>2. QED
        BY <1>3, <2>1 DEF Taking, ItemPc
<1>6. CASE InsertTake(c) \/ StoreAnswer(c) \/ CountConfirmed(c) \/ Complete(c)
    BY <1>1, <1>6, MemberGoes DEF Lands, Taking
<1>7. QED
    BY <1>2, <1>4, <1>5, <1>6 DEF MemberStep

LEMMA TakesStart ==
    ASSUME GroceryInit
    PROVE  TakesInv
<1>1. \A c \in GroceryCaller : groceryCall[c] = None
    BY DEF GroceryInit
<1>2. ASSUME scene.desk = "collect", NEW d, NEW i
      PROVE  TimesTaken(d, i) <= 1
    <2>1. \A m \in DOMAIN movement : m.type = "ADJUSTMENT"
        BY <1>2, ShelvesFilled DEF GroceryInit, FromScratch
    <2>2. {m \in DOMAIN movement : m.type = "OUT" /\ m.ref = <<d, i>>} = {}
        BY <2>1
    <2>3. TimesTaken(d, i) = SumFunctionOnSet(movement,
             {m \in DOMAIN movement : m.type = "OUT" /\ m.ref = <<d, i>>})
        BY DEF TimesTaken
    <2>4. TimesTaken(d, i) = SumFunctionOnSet(movement, {})
        BY ONLY <2>2, <2>3
    <2>5. QED
        BY <2>4, SumEmpty
<1>3. QED
    BY <1>1, <1>2 DEF TakesInv

LEMMA TakesInvariant == GrocerySpec => []((BaseInv /\ CollectInv) /\ TakesInv)
<1>1. (BaseInv /\ CollectInv) /\ TakesInv /\ [GroceryNext]_groceryVars => TakesInv'
    <2>1. SUFFICES ASSUME BaseInv, CollectInv, TakesInv, [GroceryNext]_groceryVars,
                          Alone', scene'.desk = "collect"
                   PROVE  TakesInv'
        BY DEF TakesInv
    <2>2. /\ UNCHANGED scene /\ Alone /\ scene.desk = "collect"
          /\ StoreInv /\ OnlyOne /\ MovementsOK
        BY <2>1, NextIs DEF groceryVars, Alone, BaseInv, StoreInv, RowsOK
    <2>3. \A d \in Distribution, i \in Item : TimesTaken(d, i) <= 1
        BY <2>1, <2>2 DEF TakesInv
    <2>4. CASE GroceryCrash \/ UNCHANGED groceryVars
        <3>1. UNCHANGED movement
            BY <2>4 DEF GroceryCrash, groceryVars
        <3>2. \A d, i : TimesTaken(d, i)' = TimesTaken(d, i)
                        /\ WasTaken(d, i)' = WasTaken(d, i)
            BY <3>1, TakesSame
        <3>3. ASSUME NEW c \in GroceryCaller, groceryCall'[c] # None,
                     groceryCall'[c].pc \in {"confirm", "take", "out"}
              PROVE  ~ WasTaken(groceryCall[c].id, groceryCall[c].item)'
            <4>1. UNCHANGED groceryCall
                BY <2>4, <3>3 DEF GroceryCrash, groceryVars
            <4>2. ~ WasTaken(groceryCall[c].id, groceryCall[c].item)
                BY <2>1, <2>2, <3>3, <4>1 DEF TakesInv
            <4>3. QED
                BY <3>1, <4>1, <4>2 DEF WasTaken
        <3>4. QED
            BY <2>3, <3>2, <3>3 DEF TakesInv
    <2>5. ASSUME NEW c \in GroceryCaller, MemberStep(c)
          PROVE  TakesInv'
        <3>1. Step(c)
            BY <2>5 DEF Step
        <3>2. ASSUME NEW d \in Distribution, NEW i \in Item
              PROVE  TimesTaken(d, i)' <= 1
            <4>1. CASE TimesTaken(d, i)' = TimesTaken(d, i)
                BY <2>3, <4>1
            <4>2. CASE TimesTaken(d, i)' # TimesTaken(d, i)
                <5>1. InsertTake(c)
                      /\ <<groceryCall[c].id, groceryCall[c].item>> = <<d, i>>
                    BY <2>2, <3>1, <4>2, WhoTakes
                <5>2. groceryCall[c].id = d /\ groceryCall[c].item = i
                    BY <5>1
                <5>3. ~ WasTaken(d, i)
                    BY <2>1, <2>2, <5>1, <5>2 DEF TakesInv, InsertTake, GroceryAt
                <5>4. PICK x : MovementRow(x) /\ x.type = "OUT" /\ x.ref = <<d, i>>
                               /\ Insert({x})
                    BY <2>2, <5>1, TakeInserts
                <5>5. TimesTaken(d, i)' = 1
                    BY <2>2, <5>3, <5>4, TakesFirst
                <5>6. QED
                    BY <5>5
            <4>3. QED
                BY <4>1, <4>2
        <3>3. ASSUME NEW b \in GroceryCaller, groceryCall'[b] # None,
                     groceryCall'[b].pc \in {"confirm", "take", "out"}
              PROVE  ~ WasTaken(groceryCall[b].id, groceryCall[b].item)'
            <4>1. b = c
                BY <2>2, <3>1, <3>3, StepAlone
            <4>2. QED
                BY <2>1, <2>2, <2>5, <3>3, <4>1, TakingIsNew DEF Taking
        <3>4. QED
            BY <3>2, <3>3 DEF TakesInv
    <2>6. QED
        BY <2>1, <2>2, <2>4, <2>5 DEF GroceryNext, FromScratch
<1>2. GroceryInit => TakesInv
    BY TakesStart
<1>3. QED
    BY <1>1, <1>2, BaseInvariant, CollectInvariant, PTL DEF GrocerySpec

\* Whatever members repeat, with the same key, another or none, after an answer
\* or after a crash: what they took is in their history, and one request at a
\* time takes an item at most once, because the status of the item is read
\* before it is taken and written before the stock is.
THEOREM GroceryTakenOnce == GrocerySpec => []MemberTakesOnce
<1>1. (BaseInv /\ CollectInv) /\ TakesInv => MemberTakesOnce
    BY DEF CollectInv, TakenIsConfirmed, TakesInv, MemberTakesOnce
<1>2. QED
    BY <1>1, TakesInvariant, PTL

-----------------------------------------------------------------------------
(* The goods of a purchase come in once. *)

\* Rows inserted for something else are no goods of the purchase.
LEMMA ArrivalsInserted ==
    ASSUME MovementsOK, NEW R, IsFiniteSet(R), \A m \in R : MovementRow(m),
           Insert(R), NEW b, \A m \in R : m.type = "IN" => m.ref # b
    PROVE  Arrivals(b)' = Arrivals(b) /\ Arrived(b)' = Arrived(b)
<1>1. DOMAIN movement' = DOMAIN movement \cup R
    BY InsertKeeps
<1>2. PICK W : W = Arrivals(b)
    OBVIOUS
<1>3. /\ Arrivals(b)' = W
      /\ DOMAIN movement' \cap W = W /\ DOMAIN movement \cap W = W /\ R \cap W = {}
    BY <1>1, <1>2 DEF Arrivals
<1>4. /\ SumFunctionOnSet(movement', DOMAIN movement' \cap W) =
            SumFunctionOnSet(movement, DOMAIN movement \cap W) + Cardinality(R \cap W)
      /\ SumFunctionOnSet(movement, DOMAIN movement \cap W) \in Nat
    BY CountInserted
<1>5. Cardinality(R \cap W) = 0
    BY <1>3, FS_EmptySet
<1>6. SumFunctionOnSet(movement', W) = SumFunctionOnSet(movement, W)
    BY ONLY <1>3, <1>4, <1>5
<1>7. Arrived(b) = SumFunctionOnSet(movement, W)
    BY <1>2 DEF Arrived
<1>8. Arrived(b)' = SumFunctionOnSet(movement', Arrivals(b)')
    BY DEF Arrived, Arrivals
<1>9. QED
    BY ONLY <1>2, <1>3, <1>6, <1>7, <1>8

LEMMA ArrivalsSame ==
    ASSUME NEW b, UNCHANGED movement
    PROVE  Arrivals(b)' = Arrivals(b) /\ Arrived(b)' = Arrived(b)
BY DEF Arrivals, Arrived

\* A delivery adds a row for every line.
LEMMA ArrivalsDelivered ==
    ASSUME MovementsOK, NEW b \in Purchase, purchase[b] \in PurchaseRow,
           Insert(Receipts(b))
    PROVE  /\ Arrivals(b)' = Arrivals(b) \cup Receipts(b)
           /\ Arrived(b)' = Arrived(b) + Cardinality(DOMAIN purchase[b].lines)
           /\ Arrived(b) \in Nat
<1>1. PICK R : R = Receipts(b)
    OBVIOUS
<1>2. /\ IsFiniteSet(R) /\ Insert(R)
      /\ Cardinality(R) = Cardinality(DOMAIN purchase[b].lines)
      /\ \A m \in R : MovementRow(m) /\ m.type = "IN" /\ m.ref = b
    BY <1>1, ReceiptsAre
<1>3. DOMAIN movement' = DOMAIN movement \cup R
    BY <1>2, InsertKeeps
<1>4. PICK W : W = Arrivals(b) \cup R
    OBVIOUS
<1>5. /\ Arrivals(b)' = W
      /\ DOMAIN movement' \cap W = W /\ DOMAIN movement \cap W = Arrivals(b)
      /\ R \cap W = R
    BY <1>2, <1>3, <1>4 DEF Arrivals
<1>6. /\ SumFunctionOnSet(movement', DOMAIN movement' \cap W) =
            SumFunctionOnSet(movement, DOMAIN movement \cap W) + Cardinality(R \cap W)
      /\ SumFunctionOnSet(movement, DOMAIN movement \cap W) \in Nat
    BY <1>2, CountInserted
<1>7. /\ SumFunctionOnSet(movement', W) =
            SumFunctionOnSet(movement, Arrivals(b)) + Cardinality(R)
      /\ SumFunctionOnSet(movement, Arrivals(b)) \in Nat
    BY ONLY <1>5, <1>6
<1>8. Arrived(b) = SumFunctionOnSet(movement, Arrivals(b))
    BY DEF Arrived
<1>9. Arrived(b)' = SumFunctionOnSet(movement', Arrivals(b)')
    BY DEF Arrived, Arrivals
<1>10. Arrived(b)' = SumFunctionOnSet(movement', W)
    BY ONLY <1>5, <1>9
<1>11. /\ Arrived(b)' = Arrived(b) + Cardinality(DOMAIN purchase[b].lines)
       /\ Arrived(b) \in Nat
    BY ONLY <1>2, <1>7, <1>8, <1>10
<1>12. QED
    BY <1>1, <1>4, <1>5, <1>11

\* Adjusting or taking brings in no goods of a purchase.
LEMMA NothingArrives ==
    ASSUME StoreInv, NEW c \in GroceryCaller, NEW b,
           UNCHANGED movement \/ InsertAdjust(c) \/ InsertTake(c)
    PROVE  Arrivals(b)' = Arrivals(b) /\ Arrived(b)' = Arrived(b)
<1>1. MovementsOK
    BY DEF StoreInv, RowsOK
<1>2. ASSUME NEW x, MovementRow(x), x.type # "IN", Insert({x})
      PROVE  Arrivals(b)' = Arrivals(b) /\ Arrived(b)' = Arrived(b)
    <2>1. PICK R : R = {x}
        OBVIOUS
    <2>2. /\ IsFiniteSet(R) /\ Insert(R)
          /\ \A m \in R : MovementRow(m) /\ m.type # "IN"
        BY <1>2, <2>1, FS_Singleton
    <2>3. QED
        BY <1>1, <2>2, ArrivalsInserted
<1>3. InsertAdjust(c) => \E x : MovementRow(x) /\ x.type # "IN" /\ Insert({x})
    BY AdjustInserts
<1>4. InsertTake(c) => \E x : MovementRow(x) /\ x.type # "IN" /\ Insert({x})
    BY TakeInserts
<1>5. QED
    BY <1>2, <1>3, <1>4, ArrivalsSame

\* Only the purchase whose handler is at that point gets goods.
LEMMA WhoArrives ==
    ASSUME StoreInv, NEW c \in GroceryCaller, Step(c), NEW b,
           ~ (Arrivals(b)' = Arrivals(b) /\ Arrived(b)' = Arrived(b))
    PROVE  ReceiveGoods(c) /\ groceryCall[c].id = b
<1>1. MovementsOK
    BY DEF StoreInv, RowsOK
<1>2. ASSUME ReceiveGoods(c), groceryCall[c].id # b
      PROVE  Arrivals(b)' = Arrivals(b) /\ Arrived(b)' = Arrived(b)
    <2>1. /\ IsFiniteSet(Receipts(groceryCall[c].id))
          /\ \A m \in Receipts(groceryCall[c].id) :
                MovementRow(m) /\ m.ref = groceryCall[c].id
          /\ Insert(Receipts(groceryCall[c].id))
        BY <1>2, GoodsInsert, ReceiptsAre
    <2>2. QED
        BY <1>1, <1>2, <2>1, ArrivalsInserted
<1>3. UNCHANGED movement \/ InsertAdjust(c) \/ ReceiveGoods(c) \/ InsertTake(c)
    BY WhoMoves
<1>4. QED
    BY <1>2, <1>3, NothingArrives

\* Nothing has come in for a purchase at first.
LEMMA ArrivalsStart ==
    ASSUME GroceryInit, NEW b
    PROVE  Arrivals(b) = {}
<1>1. CASE FromScratch
    <2>1. movement = SetToBag({})
        BY <1>1 DEF GroceryInit, EmptyBag
    <2>2. QED
        BY <2>1 DEF Arrivals, SetToBag
<1>2. CASE ~ FromScratch
    BY <1>2, ShelvesFilled DEF GroceryInit, Arrivals
<1>3. QED
    BY <1>1, <1>2

LEMMA NothingArrived == ASSUME NEW b, Arrivals(b) = {} PROVE Arrived(b) = 0
BY SumEmpty DEF Arrived

\* The steps that write a purchase.
LEMMA WhoOrders ==
    ASSUME NEW c \in GroceryCaller, Step(c)
    PROVE  \/ UNCHANGED purchase
           \/ InsertPurchase(c) \/ ApprovePurchase(c) \/ RejectPurchase(c)
<1>1. StockStep(c) \/ ProductStep(c) => UNCHANGED purchase
    BY DEF StockStep, ProductStep
<1>2. OfficerStep(c) \/ MemberStep(c) => UNCHANGED purchase
    BY DEF OfficerStep, MemberStep
<1>3. PurchaseStep(c) =>
         UNCHANGED purchase \/ InsertPurchase(c) \/ ApprovePurchase(c) \/ RejectPurchase(c)
    BY DEF PurchaseStep, CreatePurchase, ReadForReview, ReceiveGoods,
       StartPurchaseDebit, EndPurchaseDebit
<1>4. QED
    BY <1>1, <1>2, <1>3 DEF Step

\* What each of them leaves of the purchases and of its handler.
LEMMA InsertPurchaseIs ==
    ASSUME StoreInv, NEW c \in GroceryCaller, InsertPurchase(c)
    PROVE  /\ groceryCall[c].id \in Purchase
           /\ groceryCall[c].by \in User \ {None}
           /\ purchase'[groceryCall[c].id] # None
           /\ purchase'[groceryCall[c].id].lines = groceryCall[c].lines
           /\ groceryCall'[c] # None =>
                 /\ groceryCall'[c].pc = "stock"
                 /\ groceryCall'[c].id = groceryCall[c].id
                 /\ purchase'[groceryCall[c].id].status = "APPROVED"
                 /\ purchase'[groceryCall[c].id].approvedBy # None
           /\ \A b \in Purchase \ {groceryCall[c].id} : purchase'[b] = purchase[b]
<1>1. groceryCall[c] \in [pc : {"buy"}, id : Purchase, lines : Basket, by : Officer]
    BY AtIs, CallIs DEF InsertPurchase
<1>2. groceryCall[c].by \in User \ {None}
    BY <1>1, GroupAssumption, PurchaseAssumption
<1>3. PICK row : row = [status |-> IF NeedsApproval(groceryCall[c].lines)
                                   THEN "PENDING_APPROVAL" ELSE "APPROVED",
                        lines |-> groceryCall[c].lines,
                        approvedBy |-> IF NeedsApproval(groceryCall[c].lines)
                                       THEN None ELSE groceryCall[c].by]
    OBVIOUS
<1>4. purchase' = [purchase EXCEPT ![groceryCall[c].id] = row]
    BY <1>3 DEF InsertPurchase
<1>5. row \in PurchaseRow
    BY <1>1, <1>2, <1>3 DEF PurchaseRow
<1>6. /\ purchase'[groceryCall[c].id] = row /\ row # None
      /\ row.lines = groceryCall[c].lines
      /\ \A b \in Purchase \ {groceryCall[c].id} : purchase'[b] = purchase[b]
    BY <1>1, <1>3, <1>4, <1>5, PurchaseAssumption DEF StoreInv, RowsOK
<1>7. CASE NeedsApproval(groceryCall[c].lines)
    <2>1. groceryCall'[c] = None
        BY <1>7 DEF InsertPurchase, StoreInv, CallsOK
    <2>2. QED
        BY <1>1, <1>2, <1>6, <2>1
<1>8. CASE ~ NeedsApproval(groceryCall[c].lines)
    <2>1. groceryCall'[c] = [pc |-> "stock", id |-> groceryCall[c].id,
                             by |-> groceryCall[c].by]
        BY <1>8 DEF InsertPurchase, StoreInv, CallsOK
    <2>2. row.status = "APPROVED" /\ row.approvedBy = groceryCall[c].by
        BY <1>3, <1>8
    <2>3. QED
        BY <1>1, <1>2, <1>6, <2>1, <2>2
<1>9. QED
    BY <1>7, <1>8

LEMMA ApprovePurchaseIs ==
    ASSUME StoreInv, NEW c \in GroceryCaller, ApprovePurchase(c)
    PROVE  /\ groceryCall[c].id \in Purchase
           /\ purchase[groceryCall[c].id] # None
           /\ purchase'[groceryCall[c].id] # None
           /\ purchase'[groceryCall[c].id].lines = purchase[groceryCall[c].id].lines
           /\ purchase'[groceryCall[c].id].status = "APPROVED"
           /\ purchase'[groceryCall[c].id].approvedBy # None
           /\ groceryCall'[c].pc = "stock"
           /\ groceryCall'[c].id = groceryCall[c].id
           /\ \A b \in Purchase \ {groceryCall[c].id} : purchase'[b] = purchase[b]
<1>1. /\ groceryCall[c].id \in Purchase /\ groceryCall[c].by \in User \ {None}
      /\ purchase[groceryCall[c].id] \in PurchaseRow
      /\ GroceryAt(c, "approve") /\ GroceryGoto(c, "stock")
    BY OrderAt, GroupAssumption, PurchaseAssumption DEF ApprovePurchase, OrderPc
<1>2. PICK row : row = [purchase[groceryCall[c].id] EXCEPT
                          !.status = "APPROVED", !.approvedBy = groceryCall[c].by]
    OBVIOUS
<1>3. /\ row \in PurchaseRow /\ row.status = "APPROVED"
      /\ row.approvedBy = groceryCall[c].by
      /\ row.lines = purchase[groceryCall[c].id].lines
    BY <1>1, <1>2 DEF PurchaseRow
<1>4. purchase' = [purchase EXCEPT ![groceryCall[c].id] = row]
    BY <1>2 DEF ApprovePurchase
<1>5. /\ purchase'[groceryCall[c].id] = row /\ row # None
      /\ \A b \in Purchase \ {groceryCall[c].id} : purchase'[b] = purchase[b]
    BY <1>1, <1>3, <1>4, PurchaseAssumption DEF StoreInv, RowsOK
<1>6. "approve" \in OrderPc /\ "stock" \in OrderPc
    BY DEF OrderPc
<1>7. groceryCall'[c].pc = "stock" /\ groceryCall'[c].id = groceryCall[c].id
    <2>1. GroceryAt(c, "approve")
        BY <1>1
    <2>2. GroceryGoto(c, "stock")
        BY <1>1
    <2>3. QED
        BY <1>6, <2>1, <2>2, GotoIs
<1>8. purchase[groceryCall[c].id] # None
    BY <1>1, PurchaseAssumption
<1>9. QED
    BY <1>1, <1>3, <1>5, <1>7, <1>8

LEMMA RejectPurchaseIs ==
    ASSUME StoreInv, NEW c \in GroceryCaller, RejectPurchase(c)
    PROVE  /\ groceryCall[c].id \in Purchase
           /\ purchase[groceryCall[c].id] # None
           /\ purchase'[groceryCall[c].id] # None
           /\ purchase'[groceryCall[c].id].lines = purchase[groceryCall[c].id].lines
           /\ purchase'[groceryCall[c].id].approvedBy =
                 purchase[groceryCall[c].id].approvedBy
           /\ groceryCall'[c] = None
           /\ \A b \in Purchase \ {groceryCall[c].id} : purchase'[b] = purchase[b]
<1>1. /\ groceryCall[c].id \in Purchase
      /\ purchase[groceryCall[c].id] \in PurchaseRow
    BY OrderAt DEF RejectPurchase, OrderPc
<1>2. PICK row : row = [purchase[groceryCall[c].id] EXCEPT !.status = "REJECTED"]
    OBVIOUS
<1>3. /\ row \in PurchaseRow
      /\ row.approvedBy = purchase[groceryCall[c].id].approvedBy
      /\ row.lines = purchase[groceryCall[c].id].lines
    BY <1>1, <1>2 DEF PurchaseRow
<1>4. purchase' = [purchase EXCEPT ![groceryCall[c].id] = row]
    BY <1>2 DEF RejectPurchase
<1>5. /\ purchase'[groceryCall[c].id] = row /\ row # None
      /\ \A b \in Purchase \ {groceryCall[c].id} : purchase'[b] = purchase[b]
    BY <1>1, <1>3, <1>4, PurchaseAssumption DEF StoreInv, RowsOK
<1>6. groceryCall'[c] = None
    BY ReturnIs DEF RejectPurchase
<1>7. purchase[groceryCall[c].id] # None
    BY <1>1, PurchaseAssumption
<1>8. QED
    BY <1>1, <1>3, <1>5, <1>6, <1>7

\* Where each step of a purchase leaves its handler.
LEMMA PurchaseGoes ==
    ASSUME StoreInv, NEW c \in GroceryCaller
    PROVE  /\ \A b, lines, by : CreatePurchase(c, b, lines, by) =>
                 groceryCall'[c].pc = "buy" /\ groceryCall'[c].id = b
           /\ \A b, pc, by : ReadForReview(c, b, pc, by) =>
                 groceryCall'[c].pc = pc /\ groceryCall'[c].id = b
           /\ ReceiveGoods(c) =>
                 groceryCall'[c].pc = "debit" /\ groceryCall'[c].id = groceryCall[c].id
           /\ StartPurchaseDebit(c) =>
                 groceryCall'[c].pc = "ledger" /\ groceryCall'[c].id = groceryCall[c].id
           /\ EndPurchaseDebit(c) => groceryCall'[c] = None
<1>1. \A b, lines, by : CreatePurchase(c, b, lines, by) =>
         groceryCall'[c].pc = "buy" /\ groceryCall'[c].id = b
    BY StartIs DEF CreatePurchase
<1>2. \A b, pc, by : ReadForReview(c, b, pc, by) =>
         groceryCall'[c].pc = pc /\ groceryCall'[c].id = b
    BY StartIs DEF ReadForReview
<1>3. {"stock", "debit", "ledger"} \subseteq OrderPc
    BY DEF OrderPc
<1>4. ReceiveGoods(c) =>
         groceryCall'[c].pc = "debit" /\ groceryCall'[c].id = groceryCall[c].id
    <2>1. ReceiveGoods(c) => GroceryAt(c, "stock") /\ GroceryGoto(c, "debit")
        BY DEF ReceiveGoods
    <2>2. QED
        BY <1>3, <2>1, GotoIs
<1>5. StartPurchaseDebit(c) =>
         groceryCall'[c].pc = "ledger" /\ groceryCall'[c].id = groceryCall[c].id
    <2>1. StartPurchaseDebit(c) => GroceryAt(c, "debit") /\ GroceryGoto(c, "ledger")
        BY DEF StartPurchaseDebit
    <2>2. QED
        BY <1>3, <2>1, GotoIs
<1>6. EndPurchaseDebit(c) => groceryCall'[c] = None
    BY ReturnIs DEF EndPurchaseDebit
<1>7. QED
    BY <1>1, <1>2, <1>4, <1>5, <1>6

\* What the only handler at work has found its purchase to be.
BookedCall(call) ==
    /\ call.pc \in {"approve", "reject"} =>
          purchase[call.id].status = "PENDING_APPROVAL"
    /\ call.pc = "stock" =>
          purchase[call.id].status = "APPROVED" /\ Arrivals(call.id) = {}
    /\ call.pc = "buy" => purchase[call.id] = None

BookedRow(b) ==
    Arrivals(b) # {} =>
        /\ purchase[b] # None
        /\ purchase[b].status = "APPROVED"
        /\ Arrived(b) = Cardinality(DOMAIN purchase[b].lines)

\* A purchase that no step writes and nothing comes in for stays as booked.
LEMMA BookedRowSame ==
    ASSUME NEW b, BookedRow(b), purchase'[b] = purchase[b],
           Arrivals(b)' = Arrivals(b), Arrived(b)' = Arrived(b)
    PROVE  BookedRow(b)'
BY DEF BookedRow

LEMMA StepKeepsBooked ==
    ASSUME BaseInv, BookedInv, Alone, NEW c \in GroceryCaller, Step(c), UNCHANGED scene
    PROVE  BookedInv'
<1>1. StoreInv /\ OnlyOne /\ MovementsOK
    BY DEF BaseInv, StoreInv, RowsOK
<1>2. /\ \A b \in Purchase : BookedRow(b)
      /\ groceryCall[c] # None => BookedCall(groceryCall[c])
    BY DEF BookedInv, BookedRow, BookedCall
<1>3. \A b \in GroceryCaller \ {c} : groceryCall'[b] = None
    BY <1>1, StepAlone
<1>4. SUFFICES /\ \A b \in Purchase : BookedRow(b)'
               /\ groceryCall'[c] # None => BookedCall(groceryCall[c])'
    BY <1>3 DEF BookedInv, BookedRow, BookedCall
<1>5. CASE ~ PurchaseStep(c)
    <2>1. UNCHANGED purchase
        BY <1>5, WhoOrders DEF Step, StockStep, ProductStep, OfficerStep, MemberStep
    <2>2. UNCHANGED movement \/ InsertAdjust(c) \/ InsertTake(c)
        BY <1>5, OthersMove
    <2>3. \A b : Arrivals(b)' = Arrivals(b) /\ Arrived(b)' = Arrived(b)
        BY <1>1, <2>2, NothingArrives
    <2>4. groceryCall'[c] # None =>
             groceryCall'[c].pc \notin {"approve", "reject", "stock", "buy"}
        BY <1>1, <1>5, StockLands, ProductLands, OfficerLands, MemberLands
        DEF Step, Lands, Writing, ItemPc
    <2>5. QED
        BY <1>2, <2>1, <2>3, <2>4, BookedRowSame DEF BookedCall
<1>6. ASSUME PurchaseStep(c), ~ ReceiveGoods(c)
      PROVE  \A b : Arrivals(b)' = Arrivals(b) /\ Arrived(b)' = Arrived(b)
    BY <1>1, <1>6, WhoArrives
<1>7. ASSUME NEW b \in Purchase, NEW lines, NEW by, CreatePurchase(c, b, lines, by),
             PurchaseStep(c)
      PROVE  /\ \A p \in Purchase : BookedRow(p)'
             /\ groceryCall'[c] # None => BookedCall(groceryCall[c])'
    <2>1. /\ UNCHANGED <<movement, purchase>> /\ purchase[b] = None
          /\ groceryCall'[c].pc = "buy" /\ groceryCall'[c].id = b
        BY <1>1, <1>7, PurchaseGoes DEF CreatePurchase, FreshId
    <2>2. QED
        BY <1>2, <2>1, ArrivalsSame, BookedRowSame DEF BookedCall
<1>8. ASSUME NEW b \in Purchase, NEW by, NEW pc \in {"approve", "reject"},
             ReadForReview(c, b, pc, by), PurchaseStep(c)
      PROVE  /\ \A p \in Purchase : BookedRow(p)'
             /\ groceryCall'[c] # None => BookedCall(groceryCall[c])'
    <2>1. /\ UNCHANGED <<movement, purchase>>
          /\ purchase[b].status = "PENDING_APPROVAL"
          /\ groceryCall'[c].pc = pc /\ groceryCall'[c].id = b
        BY <1>1, <1>8, PurchaseGoes DEF ReadForReview
    <2>2. QED
        BY <1>2, <2>1, ArrivalsSame, BookedRowSame DEF BookedCall
<1>9. CASE InsertPurchase(c)
    <2>1. PICK b \in Purchase : b = groceryCall[c].id
        BY <1>1, <1>9, InsertPurchaseIs
    <2>2. purchase[b] = None /\ UNCHANGED movement
        BY <1>2, <1>9, <2>1 DEF InsertPurchase, GroceryAt, BookedCall
    <2>3. \A e : Arrivals(e)' = Arrivals(e) /\ Arrived(e)' = Arrived(e)
        BY <2>2, ArrivalsSame
    <2>4. Arrivals(b) = {}
        BY <1>2, <2>2 DEF BookedRow
    <2>5. \A e \in Purchase \ {b} : purchase'[e] = purchase[e]
        BY <1>1, <1>9, <2>1, InsertPurchaseIs
    <2>6. ASSUME NEW e \in Purchase
          PROVE  BookedRow(e)'
        BY <1>2, <2>3, <2>4, <2>5, BookedRowSame DEF BookedRow
    <2>7. ASSUME groceryCall'[c] # None
          PROVE  BookedCall(groceryCall[c])'
        <3>1. /\ groceryCall'[c].pc = "stock" /\ groceryCall'[c].id = b
              /\ purchase'[b].status = "APPROVED"
            BY <1>1, <1>9, <2>1, <2>7, InsertPurchaseIs
        <3>2. Arrivals(groceryCall[c].id)' = {}
            BY <2>2, <2>4, <3>1 DEF Arrivals
        <3>3. QED
            BY <3>1, <3>2 DEF BookedCall
    <2>8. QED
        BY <2>6, <2>7
<1>10. CASE ApprovePurchase(c)
    <2>1. PICK b \in Purchase : b = groceryCall[c].id
        BY <1>1, <1>10, ApprovePurchaseIs
    <2>2. purchase[b].status = "PENDING_APPROVAL" /\ UNCHANGED movement
        BY <1>2, <1>10, <2>1 DEF ApprovePurchase, GroceryAt, BookedCall
    <2>3. \A e : Arrivals(e)' = Arrivals(e) /\ Arrived(e)' = Arrived(e)
        BY <2>2, ArrivalsSame
    <2>4. Arrivals(b) = {}
        BY <1>2, <2>2 DEF BookedRow
    <2>5. /\ groceryCall'[c].pc = "stock" /\ groceryCall'[c].id = b
          /\ purchase'[b].status = "APPROVED"
          /\ \A e \in Purchase \ {b} : purchase'[e] = purchase[e]
        BY <1>1, <1>10, <2>1, ApprovePurchaseIs
    <2>6. ASSUME NEW e \in Purchase
          PROVE  BookedRow(e)'
        BY <1>2, <2>3, <2>4, <2>5, BookedRowSame DEF BookedRow
    <2>7. Arrivals(groceryCall[c].id)' = {}
        BY <2>2, <2>4, <2>5 DEF Arrivals
    <2>8. BookedCall(groceryCall[c])'
        BY <2>5, <2>7 DEF BookedCall
    <2>9. QED
        BY <2>6, <2>8
<1>11. CASE RejectPurchase(c)
    <2>1. PICK b \in Purchase : b = groceryCall[c].id
        BY <1>1, <1>11, RejectPurchaseIs
    <2>2. purchase[b].status = "PENDING_APPROVAL" /\ UNCHANGED movement
        BY <1>2, <1>11, <2>1 DEF RejectPurchase, GroceryAt, BookedCall
    <2>3. \A e : Arrivals(e)' = Arrivals(e) /\ Arrived(e)' = Arrived(e)
        BY <2>2, ArrivalsSame
    <2>4. Arrivals(b) = {}
        BY <1>2, <2>2 DEF BookedRow
    <2>5. /\ groceryCall'[c] = None
          /\ \A e \in Purchase \ {b} : purchase'[e] = purchase[e]
        BY <1>1, <1>11, <2>1, RejectPurchaseIs
    <2>6. ASSUME NEW e \in Purchase
          PROVE  BookedRow(e)'
        BY <1>2, <2>3, <2>4, <2>5, BookedRowSame DEF BookedRow
    <2>7. QED
        BY <2>5, <2>6
<1>12. CASE ReceiveGoods(c)
    <2>1. PICK b \in Purchase : b = groceryCall[c].id
        BY <1>1, <1>12, GoodsInsert
    <2>2. /\ purchase[b] \in PurchaseRow /\ Insert(Receipts(b)) /\ UNCHANGED purchase
          /\ purchase[b].status = "APPROVED" /\ Arrivals(b) = {}
        BY <1>1, <1>2, <1>12, <2>1, GoodsInsert DEF ReceiveGoods, GroceryAt, BookedCall
    <2>3. /\ Arrived(b)' = Arrived(b) + Cardinality(DOMAIN purchase[b].lines)
          /\ Arrived(b) = 0
        BY <1>1, <2>2, ArrivalsDelivered, NothingArrived
    <2>4. Cardinality(DOMAIN purchase[b].lines) \in Nat
        BY <2>2, BasketIs, FS_CardinalityType DEF PurchaseRow
    <2>5. BookedRow(b)'
        <3>1. Arrived(b)' = Cardinality(DOMAIN purchase[b].lines)
            BY <2>3, <2>4
        <3>2. QED
            BY <2>2, <3>1, PurchaseAssumption DEF BookedRow
    <2>6. ASSUME NEW e \in Purchase, e # b
          PROVE  BookedRow(e)'
        <3>1. Arrivals(e)' = Arrivals(e) /\ Arrived(e)' = Arrived(e)
            BY <1>1, <2>1, <2>6, WhoArrives
        <3>2. QED
            BY <1>2, <2>2, <3>1, BookedRowSame
    <2>7. groceryCall'[c].pc = "debit"
        BY <1>1, <1>12, PurchaseGoes
    <2>8. QED
        BY <2>5, <2>6, <2>7 DEF BookedCall
<1>13. CASE StartPurchaseDebit(c) \/ EndPurchaseDebit(c)
    <2>1. UNCHANGED <<movement, purchase>>
        BY <1>13 DEF StartPurchaseDebit, EndPurchaseDebit
    <2>2. groceryCall'[c] # None => groceryCall'[c].pc = "ledger"
        BY <1>1, <1>13, PurchaseGoes
    <2>3. QED
        BY <1>2, <2>1, <2>2, ArrivalsSame, BookedRowSame DEF BookedCall
<1>14. QED
    BY <1>5, <1>7, <1>8, <1>9, <1>10, <1>11, <1>12, <1>13 DEF PurchaseStep

LEMMA BookedInvariant == GrocerySpec => [](BaseInv /\ BookedInv)
<1>1. GroceryInit => BookedInv
    BY ArrivalsStart DEF BookedInv, GroceryInit
<1>2. BaseInv /\ BookedInv /\ [GroceryNext]_groceryVars => BookedInv'
    <2>1. SUFFICES ASSUME BaseInv, BookedInv, [GroceryNext]_groceryVars, Alone'
                   PROVE  BookedInv'
        BY DEF BookedInv
    <2>2. UNCHANGED scene /\ Alone
        BY <2>1, NextIs DEF groceryVars, Alone
    <2>3. CASE GroceryCrash \/ UNCHANGED groceryVars
        <3>1. /\ UNCHANGED <<movement, purchase>>
              /\ \A c \in GroceryCaller : groceryCall'[c] # None => UNCHANGED groceryCall
            BY <2>3 DEF GroceryCrash, groceryVars
        <3>2. \A b \in Purchase : BookedRow(b) /\ BookedRow(b)'
            BY <2>1, <2>2, <3>1, ArrivalsSame, BookedRowSame DEF BookedInv, BookedRow
        <3>3. ASSUME NEW c \in GroceryCaller, groceryCall'[c] # None
              PROVE  BookedCall(groceryCall[c])'
            <4>1. UNCHANGED groceryCall
                BY <3>1, <3>3
            <4>2. BookedCall(groceryCall[c])
                BY <2>1, <2>2, <3>3, <4>1 DEF BookedInv, BookedCall
            <4>3. QED
                BY <3>1, <4>1, <4>2 DEF BookedCall, Arrivals
        <3>4. QED
            BY <3>2, <3>3 DEF BookedInv, BookedRow, BookedCall
    <2>4. CASE \E c \in GroceryCaller : Step(c)
        BY <2>1, <2>2, <2>4, StepKeepsBooked
    <2>5. QED
        BY <2>1, <2>3, <2>4, NextIs
<1>3. QED
    BY <1>1, <1>2, BaseInvariant, PTL DEF GrocerySpec

\* With one request at a time, however officers buy, approve, reject and die,
\* the goods of a purchase come in at most once, and never if it was rejected:
\* the handler that brings them in is the one that approved it, and it found it
\* pending.
THEOREM GroceryBookedOnce == GrocerySpec => []PurchaseBookedOnce
<1>1. BaseInv /\ BookedInv => PurchaseBookedOnce
    <2>1. SUFFICES ASSUME BaseInv, BookedInv, Alone, NEW b \in Purchase
                   PROVE  /\ TimesReceived(b) <= 1
                          /\ TimesReceived(b) = 1 => purchase[b].status = "APPROVED"
        BY DEF PurchaseBookedOnce
    <2>2. purchase[b] # None =>
             /\ purchase[b] \in PurchaseRow
             /\ Cardinality(DOMAIN purchase[b].lines) \in Nat \ {0}
        <3>1. purchase[b] # None => purchase[b] \in PurchaseRow
            BY <2>1 DEF BaseInv, StoreInv, RowsOK
        <3>2. QED
            BY <3>1, BasketIs DEF PurchaseRow
    <2>3. purchase[b] # None => TimesReceived(b) =
             Arrived(b) \div Cardinality(DOMAIN purchase[b].lines)
        BY DEF TimesReceived, Arrived, Arrivals
    <2>4. CASE Arrivals(b) = {}
        <3>1. Arrived(b) = 0
            BY <2>4, NothingArrived
        <3>2. TimesReceived(b) = 0
            BY <2>2, <2>3, <3>1 DEF TimesReceived
        <3>3. QED
            BY <3>2
    <2>5. CASE Arrivals(b) # {}
        <3>1. /\ purchase[b] # None /\ purchase[b].status = "APPROVED"
              /\ Arrived(b) = Cardinality(DOMAIN purchase[b].lines)
            BY <2>1, <2>5 DEF BookedInv
        <3>2. TimesReceived(b) = 1
            BY <2>2, <2>3, <3>1
        <3>3. QED
            BY <3>1, <3>2
    <2>6. QED
        BY <2>4, <2>5
<1>2. QED
    BY <1>1, BookedInvariant, PTL

-----------------------------------------------------------------------------
(* The goods of a purchase and its money. *)

\* The debits a purchase has and those it will still ask for.
Outlay(b) == Cardinality(Debits(b)) + Cardinality(Owing(b))

LEMMA OutlayIs ==
    ASSUME LedgerInv, NEW b
    PROVE  /\ IsFiniteSet(Debits(b)) /\ Cardinality(Debits(b)) \in Nat
           /\ IsFiniteSet(Owing(b)) /\ Cardinality(Owing(b)) \in Nat
           /\ Outlay(b) \in Nat
<1>1. DOMAIN ledger = 1..Len(ledger) /\ Len(ledger) \in Nat
    BY DEF LedgerInv, LedgerTypeOK
<1>2. IsFiniteSet(1..Len(ledger))
    BY <1>1, FS_Interval
<1>3. Debits(b) \subseteq 1..Len(ledger) /\ Owing(b) \subseteq GroceryCaller
    BY <1>1 DEF Debits, Owing
<1>4. IsFiniteSet(Debits(b)) /\ IsFiniteSet(Owing(b))
    BY <1>2, <1>3, FS_Subset, CatalogueAssumption
<1>5. Cardinality(Debits(b)) \in Nat /\ Cardinality(Owing(b)) \in Nat
    BY <1>4, FS_CardinalityType
<1>6. QED
    BY <1>4, <1>5 DEF Outlay

\* What is owed shrinks when a handler that owed returns or dies.
LEMMA OutlayShrinks ==
    ASSUME LedgerInv, NEW b, Owing(b)' \subseteq Owing(b), Debits(b)' = Debits(b)
    PROVE  Outlay(b)' \in Nat /\ Outlay(b)' <= Outlay(b)
<1>1. PICK D : D = Debits(b)
    OBVIOUS
<1>2. PICK O : O = Owing(b)
    OBVIOUS
<1>3. PICK P : P = Owing(b)'
    OBVIOUS
<1>4. /\ IsFiniteSet(O) /\ Cardinality(O) \in Nat
      /\ Cardinality(D) \in Nat /\ P \subseteq O
    BY <1>1, <1>2, <1>3, OutlayIs
<1>5. IsFiniteSet(P) /\ Cardinality(P) <= Cardinality(O)
    BY <1>4, FS_Subset
<1>6. Cardinality(P) \in Nat
    BY <1>5, FS_CardinalityType
<1>7. Outlay(b) = Cardinality(D) + Cardinality(O)
    BY <1>1, <1>2 DEF Outlay
<1>8. Outlay(b)' = Cardinality(Debits(b)') + Cardinality(Owing(b)')
    BY DEF Outlay, Debits, Owing
<1>9. Outlay(b)' = Cardinality(D) + Cardinality(P)
    BY ONLY <1>1, <1>3, <1>8, Debits(b)' = Debits(b)
<1>10. QED
    BY <1>4, <1>5, <1>6, <1>7, <1>9

\* A purchase whose goods, lines and approval stay, and that owes no more.
LEMMA GoodsRowSame ==
    ASSUME NEW b, GoodsRow(b), purchase[b] # None, purchase'[b] # None,
           purchase'[b].lines = purchase[b].lines,
           purchase[b].approvedBy # None => purchase'[b].approvedBy # None,
           Arrivals(b)' = Arrivals(b), Arrived(b)' = Arrived(b),
           Outlay(b) \in Nat, Outlay(b)' \in Nat, Outlay(b)' <= Outlay(b)
    PROVE  GoodsRow(b)'
<1>1. PICK k \in Nat : /\ Arrived(b) = k * Cardinality(DOMAIN purchase[b].lines)
                       /\ Outlay(b) <= k
    BY DEF GoodsRow, DeliveriesCover, Outlay
<1>2. Arrived(b)' = k * Cardinality(DOMAIN purchase'[b].lines)
    BY <1>1
<1>3. Outlay(b)' <= k
    BY <1>1
<1>4. DeliveriesCover(b)'
    BY <1>2, <1>3 DEF DeliveriesCover, Outlay
<1>5. QED
    BY <1>4 DEF GoodsRow

\* Where nothing has been bought nothing comes in.
LEMMA GoodsRowNone ==
    ASSUME NEW b, GoodsRow(b), purchase[b] = None, purchase'[b] = None,
           Arrivals(b)' = Arrivals(b), Debits(b)' = Debits(b)
    PROVE  GoodsRow(b)'
BY DEF GoodsRow

\* A step that writes no purchase and no entry, and after which no more is owed.
LEMMA GoodsRowsStay ==
    ASSUME LedgerInv, NEW b, GoodsRow(b), purchase'[b] = purchase[b],
           UNCHANGED ledger, Owing(b)' \subseteq Owing(b),
           Arrivals(b)' = Arrivals(b), Arrived(b)' = Arrived(b)
    PROVE  GoodsRow(b)'
<1>1. Debits(b)' = Debits(b)
    BY DEF Debits
<1>2. /\ Outlay(b) \in Nat
      /\ Outlay(b)' \in Nat /\ Outlay(b)' <= Outlay(b)
    BY <1>1, OutlayIs, OutlayShrinks
<1>3. CASE purchase[b] = None
    BY <1>1, <1>3, GoodsRowNone
<1>4. CASE purchase[b] # None
    BY <1>2, <1>4, GoodsRowSame
<1>5. QED
    BY <1>3, <1>4

LEMMA OwingStays ==
    ASSUME NEW c \in GroceryCaller, Others(c), NEW b,
           \/ groceryCall'[c] = None
           \/ groceryCall'[c].pc \notin {"debit", "ledger"}
           \/ groceryCall'[c].id # b
           \/ c \in Owing(b)
    PROVE  Owing(b)' \subseteq Owing(b)
BY DEF Others, Owing

-----------------------------------------------------------------------------
LEMMA WhoPays ==
    ASSUME NEW c \in GroceryCaller, Step(c)
    PROVE  \/ UNCHANGED <<ledger, tx>>
           \/ StartPurchaseDebit(c) \/ EndPurchaseDebit(c)
<1>1. StockStep(c) \/ ProductStep(c) \/ OfficerStep(c) \/ MemberStep(c) =>
         UNCHANGED <<ledger, tx>>
    BY DEF StockStep, ProductStep, OfficerStep, MemberStep
<1>2. PurchaseStep(c) =>
         \/ UNCHANGED <<ledger, tx>>
         \/ StartPurchaseDebit(c) \/ EndPurchaseDebit(c)
    BY DEF PurchaseStep, CreatePurchase, ReadForReview, InsertPurchase,
       ApprovePurchase, RejectPurchase, ReceiveGoods
<1>3. QED
    BY <1>1, <1>2 DEF Step

\* The total of a purchase is a number.
LEMMA TotalIsInt == ASSUME NEW lines \in Basket PROVE Total(lines) \in Int
<1>1. PICK f : f = [p \in DOMAIN lines |-> lines[p][1] * lines[p][2]]
    OBVIOUS
<1>2. IsFiniteSet(DOMAIN f) /\ \A p \in DOMAIN f : f[p] \in Int
    BY <1>1, BasketIs
<1>3. SumFunctionOnSet(f, DOMAIN f) \in Int
    BY <1>2, SumInt
<1>4. QED
    BY <1>1, <1>3 DEF Total, SumFunction

\* The debit a handler asks for carries the id of its purchase.
LEMMA StartDebitIs ==
    ASSUME BaseInv, LedgerInv, NEW c \in GroceryCaller, StartPurchaseDebit(c)
    PROVE  /\ LedgerInv' /\ UNCHANGED ledger
           /\ tx'[c] # None /\ tx'[c].ref = groceryCall[c].id
           /\ \A d \in Caller \ {c} : tx'[d] = tx[d]
<1>1. /\ groceryCall[c].id \in Purchase /\ groceryCall[c].by \in Officer
      /\ purchase[groceryCall[c].id] \in PurchaseRow
    BY OrderAt DEF BaseInv, StartPurchaseDebit, OrderPc
<1>2. PICK b \in Purchase : b = groceryCall[c].id
    BY <1>1
<1>3. PICK by \in User : by = groceryCall[c].by
    BY <1>1, GroupAssumption
<1>4. PICK amount \in Int : amount = Total(purchase[b].lines)
    BY <1>1, <1>2, TotalIsInt DEF PurchaseRow
<1>5. BeginEntry(c, "GROCERY_PURCHASE_DEBIT", amount, b, by)
    BY <1>2, <1>3, <1>4 DEF StartPurchaseDebit, DebitPurchase
<1>6. c \in Caller /\ b \in Ref \cup {None}
    BY CatalogueAssumption, PurchaseAssumption
<1>7. "GROCERY_PURCHASE_DEBIT" \in EntryType \ CreditTypes
    BY DEF EntryType, DebitTypes, CreditTypes
<1>8. LedgerInv'
    BY <1>5, <1>6, <1>7, BeginKeepsInv
<1>9. PICK t : t = [type |-> "GROCERY_PURCHASE_DEBIT", amount |-> amount,
                    ref |-> b, by |-> by, snap |-> Len(ledger)]
    OBVIOUS
<1>10. t \in Txn /\ t.ref = b
    BY <1>6, <1>7, <1>9 DEF Txn, LedgerInv, LedgerTypeOK
<1>11. /\ UNCHANGED ledger /\ tx'[c] = t
       /\ \A d \in Caller \ {c} : tx'[d] = tx[d]
    BY <1>5, <1>6, <1>9 DEF BeginEntry, LedgerInv, LedgerTypeOK
<1>12. QED
    BY <1>2, <1>8, <1>10, <1>11, LedgerAssumption

\* Its entry is written, or the debit is refused and leaves no trace.
LEMMA EndDebitIs ==
    ASSUME LedgerInv, NEW c \in GroceryCaller, EndPurchaseDebit(c)
    PROVE  /\ LedgerInv'
           /\ \A d \in Caller \ {c} : tx'[d] = tx[d]
           /\ \/ UNCHANGED ledger
              \/ /\ Len(ledger) \in Nat /\ DOMAIN ledger = 1..Len(ledger)
                 /\ DOMAIN ledger' = 1..(Len(ledger) + 1)
                 /\ ledger'[Len(ledger) + 1].ref = tx[c].ref
                 /\ \A i \in 1..Len(ledger) : ledger'[i] = ledger[i]
<1>1. c \in Caller
    BY CatalogueAssumption
<1>2. CASE CommitEntry(c)
    <2>1. LedgerInv'
        BY <1>1, <1>2, CommitKeepsInv
    <2>2. tx[c] \in Txn /\ NewBalance(tx[c]) \in Int
        BY <1>1, <1>2, CommitEffect
    <2>3. PICK e : e = [type |-> tx[c].type, amount |-> tx[c].amount,
                        balanceAfter |-> NewBalance(tx[c]),
                        ref |-> tx[c].ref, by |-> tx[c].by]
        OBVIOUS
    <2>4. e \in Entry /\ e.ref = tx[c].ref
        BY <2>2, <2>3 DEF Txn, Entry
    <2>5. ledger' = Append(ledger, e) /\ tx' = [tx EXCEPT ![c] = None]
        BY <1>2, <2>3 DEF CommitEntry
    <2>6. ledger \in Seq(Entry)
        BY DEF LedgerInv, LedgerTypeOK
    <2>7. /\ DOMAIN ledger' = 1..(Len(ledger) + 1)
          /\ DOMAIN ledger = 1..Len(ledger) /\ Len(ledger) \in Nat
          /\ ledger'[Len(ledger) + 1] = e
          /\ \A i \in 1..Len(ledger) : ledger'[i] = ledger[i]
        BY <2>4, <2>5, <2>6, BalanceAfterAppend
    <2>8. \A d \in Caller \ {c} : tx'[d] = tx[d]
        BY <2>5 DEF LedgerInv, LedgerTypeOK
    <2>9. QED
        BY <2>1, <2>4, <2>7, <2>8
<1>3. CASE AbortEntry(c)
    <2>1. UNCHANGED ledger /\ tx' = [tx EXCEPT ![c] = None]
        BY <1>3 DEF AbortEntry
    <2>2. LedgerInv'
        BY <1>1, <2>1, AbortKeepsInv
    <2>3. \A d \in Caller \ {c} : tx'[d] = tx[d]
        BY <2>1 DEF LedgerInv, LedgerTypeOK
    <2>4. QED
        BY <2>1, <2>2, <2>3
<1>4. QED
    BY <1>2, <1>3 DEF EndPurchaseDebit

LEMMA LedgerStays == ASSUME LedgerInv, UNCHANGED <<ledger, tx>> PROVE LedgerInv'
BY DEF LedgerInv, LedgerTypeOK, RunningBalance, NeverNegative, BalanceAt

\* Nothing a grocery group does breaks its ledger.
LEMMA MoneyKept ==
    ASSUME BaseInv, LedgerInv, [GroceryNext]_groceryVars
    PROVE  LedgerInv'
<1>1. ASSUME NEW c \in GroceryCaller, Step(c)
      PROVE  LedgerInv'
    BY <1>1, WhoPays, LedgerStays, StartDebitIs, EndDebitIs
<1>2. CASE GroceryCrash
    <2>1. ledger' = ledger /\ tx' = [c \in Caller |-> None]
        BY <1>2 DEF GroceryCrash
    <2>2. QED
        BY <2>1 DEF LedgerInv, LedgerTypeOK, RunningBalance, NeverNegative, BalanceAt
<1>3. CASE UNCHANGED groceryVars
    BY <1>3, LedgerStays DEF groceryVars
<1>4. QED
    BY <1>1, <1>2, <1>3, NextIs

LEMMA MoneyStarts == ASSUME GroceryInit PROVE LedgerInv
<1>1. tx \in [Caller -> Txn \cup {None}] /\ \A c \in Caller : tx[c] = None
    BY DEF GroceryInit
<1>2. CASE ledger = <<>>
    BY <1>1, <1>2 DEF LedgerInv, LedgerTypeOK, RunningBalance, NeverNegative
<1>3. CASE ledger # <<>>
    <2>1. PICK u \in Chair : ledger =
             <<[type |-> "CONTRIBUTION_CREDIT", amount |-> InitialPot,
                balanceAfter |-> InitialPot, ref |-> None, by |-> u]>>
        BY <1>3 DEF GroceryInit, PotInit
    <2>2. PICK e : e = [type |-> "CONTRIBUTION_CREDIT", amount |-> InitialPot,
                        balanceAfter |-> InitialPot, ref |-> None, by |-> u]
        OBVIOUS
    <2>3. InitialPot \in Nat \ {0} /\ u \in User
        BY GroceryAssumption, LedgerAssumption, GroupAssumption
    <2>4. e \in Entry
        BY <2>2, <2>3 DEF Entry, EntryType, CreditTypes
    <2>5. /\ e.balanceAfter = InitialPot /\ e.amount = InitialPot
          /\ e.type \in CreditTypes
        BY <2>2 DEF CreditTypes
    <2>6. ledger = <<e>>
        BY <2>1, <2>2
    <2>7. /\ ledger \in Seq(Entry) /\ Len(ledger) = 1
          /\ ledger[1] = e /\ DOMAIN ledger = {1}
        BY <2>4, <2>6
    <2>8. LedgerTypeOK
        BY <1>1, <2>7 DEF LedgerTypeOK
    <2>9. RunningBalance /\ NeverNegative
        BY <2>3, <2>5, <2>7 DEF RunningBalance, NeverNegative, BalanceAt, Signed
    <2>10. QED
        BY <2>8, <2>9 DEF LedgerInv
<1>4. QED
    BY <1>2, <1>3

-----------------------------------------------------------------------------
\* What a handler counts on stays true while others are at work.
LEMMA GoodsCallStays ==
    ASSUME StoreInv, NEW c \in GroceryCaller, Others(c),
           NEW d \in GroceryCaller \ {c}, GoodsCall(d), tx'[d] = tx[d],
           \A b \in Purchase : purchase[b] # None /\ purchase[b].approvedBy # None =>
              purchase'[b].approvedBy # None,
           GroceryAt(d, "buy") => purchase'[groceryCall[d].id] = None,
           GroceryAt(d, "buy") /\ GroceryAt(c, "buy")' =>
              groceryCall'[c].id # groceryCall[d].id
    PROVE  GoodsCall(d)'
<1>1. groceryCall'[d] = groceryCall[d]
    BY DEF Others
<1>2. ASSUME NEW pc \in {"stock", "debit", "ledger"}, GroceryAt(d, pc)'
      PROVE  purchase'[groceryCall'[d].id].approvedBy # None
    <2>1. GroceryAt(d, pc) /\ pc \in OrderPc
        BY <1>1, <1>2 DEF GroceryAt, OrderPc
    <2>2. groceryCall[d].id \in Purchase /\ purchase[groceryCall[d].id] # None
        BY <2>1, OrderAt, PurchaseAssumption
    <2>3. purchase[groceryCall[d].id].approvedBy # None
        BY <1>2, <2>1 DEF GoodsCall
    <2>4. QED
        BY <1>1, <2>2, <2>3
<1>3. GroceryAt(d, "ledger")' => tx'[d] # None /\ tx'[d].ref = groceryCall'[d].id
    BY <1>1 DEF GoodsCall, GroceryAt
<1>4. ASSUME GroceryAt(d, "buy")'
      PROVE  /\ purchase'[groceryCall'[d].id] = None
             /\ \A e \in GroceryCaller \ {d} : GroceryAt(e, "buy")' =>
                   groceryCall'[e].id # groceryCall'[d].id
    <2>1. GroceryAt(d, "buy")
        BY <1>1, <1>4 DEF GroceryAt
    <2>2. ASSUME NEW e \in GroceryCaller \ {d}, GroceryAt(e, "buy")'
          PROVE  groceryCall'[e].id # groceryCall'[d].id
        <3>1. CASE e = c
            BY <1>1, <2>1, <2>2, <3>1
        <3>2. CASE e # c
            <4>1. groceryCall'[e] = groceryCall[e]
                BY <3>2 DEF Others
            <4>2. GroceryAt(e, "buy")
                BY <2>2, <4>1 DEF GroceryAt
            <4>3. QED
                BY <1>1, <2>1, <4>1, <4>2 DEF GoodsCall
        <3>3. QED
            BY <3>1, <3>2
    <2>3. QED
        BY <1>1, <2>1, <2>2
<1>5. QED
    BY <1>2, <1>3, <1>4 DEF GoodsCall

\* A step that writes no row of these tables and brings in nothing.
LEMMA QuietGoods ==
    ASSUME BaseInv, LedgerInv, GoodsInv, NEW c \in GroceryCaller, Others(c),
           UNCHANGED <<purchase, ledger>>,
           \A d \in GroceryCaller \ {c} : tx'[d] = tx[d],
           \A b : Arrivals(b)' = Arrivals(b) /\ Arrived(b)' = Arrived(b),
           \A b : Owing(b)' \subseteq Owing(b),
           \A d \in GroceryCaller \ {c} : GroceryAt(d, "buy") /\ GroceryAt(c, "buy")' =>
              groceryCall'[c].id # groceryCall[d].id,
           GoodsCall(c)'
    PROVE  GoodsInv'
<1>1. ASSUME NEW b \in Purchase
      PROVE  GoodsRow(b)'
    <2>1. GoodsRow(b)
        BY DEF GoodsInv
    <2>2. Arrivals(b)' = Arrivals(b) /\ Arrived(b)' = Arrived(b)
        OBVIOUS
    <2>3. Owing(b)' \subseteq Owing(b)
        OBVIOUS
    <2>4. QED
        BY <2>1, <2>2, <2>3, GoodsRowsStay
<1>2. ASSUME NEW d \in GroceryCaller \ {c}
      PROVE  GoodsCall(d)'
    <2>1. GoodsCall(d) /\ StoreInv
        BY DEF GoodsInv, BaseInv
    <2>2. GroceryAt(d, "buy") => purchase'[groceryCall[d].id] = None
        BY <2>1 DEF GoodsCall
    <2>3. tx'[d] = tx[d]
        OBVIOUS
    <2>4. GroceryAt(d, "buy") /\ GroceryAt(c, "buy")' =>
              groceryCall'[c].id # groceryCall[d].id
        OBVIOUS
    <2>5. \A b \in Purchase : purchase[b] # None /\ purchase[b].approvedBy # None =>
              purchase'[b].approvedBy # None
        OBVIOUS
    <2>6. QED
        BY <2>1, <2>2, <2>3, <2>4, <2>5, GoodsCallStays
<1>3. \A d \in GroceryCaller : GoodsCall(d)'
    BY <1>2
<1>4. QED
    BY <1>1, <1>3 DEF GoodsInv

\* Requests at other work than purchases, and the reads of this one.
LEMMA ReadsKeepGoods ==
    ASSUME BaseInv, LedgerInv, GoodsInv, NEW c \in GroceryCaller, Step(c),
           \/ ~ PurchaseStep(c)
           \/ \E b \in Purchase : \E lines, by : CreatePurchase(c, b, lines, by)
           \/ \E b \in Purchase, pc \in {"approve", "reject"} : \E by :
                 ReadForReview(c, b, pc, by)
    PROVE  GoodsInv'
<1>1. StoreInv /\ Others(c)
    BY StepLands DEF BaseInv
<1>2. /\ \A d \in GroceryCaller \ {c} : GroceryAt(d, "buy") /\ GroceryAt(c, "buy")' =>
            groceryCall'[c].id # groceryCall[d].id
      /\ \/ groceryCall'[c] = None
         \/ groceryCall'[c].pc \notin {"stock", "debit", "ledger", "buy"}
         \/ groceryCall'[c].pc = "buy" /\ purchase[groceryCall'[c].id] = None
      /\ UNCHANGED <<purchase, ledger, tx>>
      /\ UNCHANGED movement \/ InsertAdjust(c) \/ InsertTake(c)
    <2>1. CASE ~ PurchaseStep(c)
        <3>1. UNCHANGED movement \/ InsertAdjust(c) \/ InsertTake(c)
            BY <2>1, OthersMove
        <3>2. groceryCall'[c] # None =>
                 groceryCall'[c].pc \notin {"stock", "debit", "ledger", "buy"}
            BY <1>1, <2>1, StockLands, ProductLands, OfficerLands, MemberLands
            DEF Step, Lands, Writing, ItemPc
        <3>3. UNCHANGED <<purchase, ledger, tx>>
            BY <2>1 DEF Step, StockStep, ProductStep, OfficerStep, MemberStep
        <3>4. ~ GroceryAt(c, "buy")'
            BY <3>2 DEF GroceryAt
        <3>5. \A d \in GroceryCaller \ {c} : GroceryAt(d, "buy") /\ GroceryAt(c, "buy")' =>
                 groceryCall'[c].id # groceryCall[d].id
            BY <3>4
        <3>6. QED
            BY <3>1, <3>2, <3>3, <3>5
    <2>2. CASE \E b \in Purchase : \E lines, by : CreatePurchase(c, b, lines, by)
        <3>1. PICK b \in Purchase : \E lines, by : CreatePurchase(c, b, lines, by)
            BY <2>2
        <3>2. groceryCall'[c].pc = "buy" /\ groceryCall'[c].id = b
            BY <1>1, <3>1, PurchaseGoes
        <3>3. /\ UNCHANGED <<movement, purchase, ledger, tx>> /\ purchase[b] = None
              /\ \A d \in GroceryCaller : groceryCall[d] # None => groceryCall[d].id # b
            BY <3>1 DEF CreatePurchase, FreshId
        <3>4. QED
            BY <3>2, <3>3 DEF GroceryAt
    <2>3. CASE \E b \in Purchase, pc \in {"approve", "reject"} : \E by :
                 ReadForReview(c, b, pc, by)
        <3>1. PICK b \in Purchase, pc \in {"approve", "reject"} : \E by :
                 ReadForReview(c, b, pc, by)
            BY <2>3
        <3>2. groceryCall'[c].pc = pc
            BY <1>1, <3>1, PurchaseGoes
        <3>3. UNCHANGED <<movement, purchase, ledger, tx>>
            BY <3>1 DEF ReadForReview
        <3>4. ~ GroceryAt(c, "buy")'
            BY <3>2 DEF GroceryAt
        <3>5. \A d \in GroceryCaller \ {c} : GroceryAt(d, "buy") /\ GroceryAt(c, "buy")' =>
                 groceryCall'[c].id # groceryCall[d].id
            BY <3>4
        <3>6. groceryCall'[c].pc \notin {"stock", "debit", "ledger", "buy"}
            BY <3>2
        <3>7. QED
            BY <3>3, <3>5, <3>6
    <2>4. QED
        BY <2>1, <2>2, <2>3
<1>3. \A b : Arrivals(b)' = Arrivals(b) /\ Arrived(b)' = Arrived(b)
    BY <1>1, <1>2, NothingArrives
<1>4. \A b : Owing(b)' \subseteq Owing(b)
    BY <1>1, <1>2, OwingStays
<1>5. GoodsCall(c)'
    <2>1. \A d \in GroceryCaller \ {c} : GroceryAt(d, "buy")' => GroceryAt(d, "buy")
        BY <1>1 DEF Others, GroceryAt
    <2>2. \A d \in GroceryCaller \ {c} : groceryCall'[d] = groceryCall[d]
        BY <1>1 DEF Others
    <2>3. \A pc \in {"stock", "debit", "ledger"} : ~ GroceryAt(c, pc)'
        BY <1>2 DEF GroceryAt
    <2>4. GroceryAt(c, "buy")' => purchase'[groceryCall'[c].id] = None
        BY <1>2 DEF GroceryAt
    <2>5. QED
        BY <1>2, <2>1, <2>2, <2>3, <2>4 DEF GoodsCall
<1>6. QED
    BY <1>1, <1>2, <1>3, <1>4, <1>5, QuietGoods

\* The debit of a purchase is under way: its handler still owes it.
LEMMA StartDebitKeepsGoods ==
    ASSUME BaseInv, LedgerInv, GoodsInv, NEW c \in GroceryCaller, Step(c),
           StartPurchaseDebit(c)
    PROVE  GoodsInv'
<1>1. StoreInv /\ Others(c)
    BY StepLands DEF BaseInv
<1>2. groceryCall'[c].pc = "ledger" /\ groceryCall'[c].id = groceryCall[c].id
    BY <1>1, PurchaseGoes
<1>3. /\ GroceryAt(c, "debit") /\ UNCHANGED <<movement, purchase>>
    BY DEF StartPurchaseDebit
<1>4. /\ UNCHANGED ledger /\ tx'[c] # None /\ tx'[c].ref = groceryCall[c].id
      /\ \A d \in GroceryCaller \ {c} : tx'[d] = tx[d]
    BY StartDebitIs, CatalogueAssumption
<1>5. \A b : Owing(b)' \subseteq Owing(b)
    <2>1. ASSUME NEW b
          PROVE  groceryCall'[c].id # b \/ c \in Owing(b)
        BY <1>2, <1>3 DEF Owing, GroceryAt
    <2>2. QED
        BY <1>1, <2>1, OwingStays
<1>6. \A b : Arrivals(b)' = Arrivals(b) /\ Arrived(b)' = Arrived(b)
    BY <1>3, ArrivalsSame
<1>7. purchase[groceryCall[c].id].approvedBy # None
    BY <1>3 DEF GoodsInv, GoodsCall
<1>8. GoodsCall(c)'
    BY <1>2, <1>3, <1>4, <1>7 DEF GoodsCall, GroceryAt
<1>9. ~ GroceryAt(c, "buy")'
    BY <1>2 DEF GroceryAt
<1>10. QED
    BY <1>1, <1>3, <1>4, <1>5, <1>6, <1>8, <1>9, QuietGoods

\* Writing the row of a purchase: the others keep theirs, and this one its
\* lines and its approval.
LEMMA WriteKeepsGoods ==
    ASSUME BaseInv, LedgerInv, GoodsInv, NEW c \in GroceryCaller, Step(c),
           NEW b \in Purchase, UNCHANGED <<scene, movement, ledger, tx>>,
           \A e \in Purchase \ {b} : purchase'[e] = purchase[e],
           purchase'[b] # None,
           purchase[b] # None =>
              /\ purchase'[b].lines = purchase[b].lines
              /\ purchase[b].approvedBy # None => purchase'[b].approvedBy # None,
           \A d \in GroceryCaller \ {c} : GroceryAt(d, "buy") => groceryCall[d].id # b,
           groceryCall'[c] # None =>
              /\ groceryCall'[c].pc = "stock" /\ groceryCall'[c].id = b
              /\ purchase'[b].approvedBy # None
    PROVE  GoodsInv'
<1>1. StoreInv /\ Others(c)
    BY StepLands DEF BaseInv
<1>2. \A e : Arrivals(e)' = Arrivals(e) /\ Arrived(e)' = Arrived(e)
    BY ArrivalsSame
<1>3. \A e : Debits(e)' = Debits(e)
    BY DEF Debits
<1>4. \A e : Owing(e)' \subseteq Owing(e)
    BY <1>1, OwingStays
<1>5. ASSUME NEW e \in Purchase, e # b
      PROVE  GoodsRow(e)'
    <2>1. GoodsRow(e) /\ purchase'[e] = purchase[e]
        BY <1>5 DEF GoodsInv
    <2>2. Owing(e)' \subseteq Owing(e)
        BY <1>4
    <2>3. Arrivals(e)' = Arrivals(e) /\ Arrived(e)' = Arrived(e)
        BY <1>2
    <2>4. QED
        BY <2>1, <2>2, <2>3, GoodsRowsStay
<1>6. ASSUME purchase[b] # None
      PROVE  GoodsRow(b)'
    <2>1. GoodsRow(b)
        BY DEF GoodsInv
    <2>2. Arrivals(b)' = Arrivals(b) /\ Arrived(b)' = Arrived(b)
        BY <1>2
    <2>3. Owing(b)' \subseteq Owing(b) /\ Debits(b)' = Debits(b)
        BY <1>3, <1>4
    <2>4. /\ Outlay(b) \in Nat
          /\ Outlay(b)' \in Nat /\ Outlay(b)' <= Outlay(b)
        BY <2>3, OutlayIs, OutlayShrinks
    <2>5. QED
        BY <1>6, <2>1, <2>2, <2>4, GoodsRowSame
<1>7. ASSUME purchase[b] = None
      PROVE  GoodsRow(b)'
    <2>1. Arrivals(b) = {} /\ Debits(b) = {}
        BY <1>7 DEF GoodsInv, GoodsRow
    <2>2. Arrivals(b)' = {} /\ Arrived(b)' = 0 /\ Debits(b)' = {}
        <3>1. Arrived(b) = 0
            BY <2>1, NothingArrived
        <3>2. Arrivals(b)' = Arrivals(b) /\ Arrived(b)' = Arrived(b)
            BY <1>2
        <3>3. Debits(b)' = Debits(b)
            BY <1>3
        <3>4. QED
            BY <2>1, <3>1, <3>2, <3>3
    <2>3. Owing(b)' = {}
        <3>1. ASSUME NEW d \in Owing(b)
              PROVE  FALSE
            <4>1. /\ d \in GroceryCaller /\ groceryCall[d] # None
                  /\ groceryCall[d].pc \in {"debit", "ledger"} /\ groceryCall[d].id = b
                BY <3>1 DEF Owing
            <4>2. groceryCall[d].pc \in OrderPc
                BY <4>1 DEF OrderPc
            <4>3. purchase[b] # None
                BY <1>1, <4>1, <4>2 DEF StoreInv, CallsOK, CallRow
            <4>4. QED
                BY <1>7, <4>3
        <3>2. Owing(b)' \subseteq Owing(b)
            BY <1>4
        <3>3. QED
            BY <3>1, <3>2
    <2>4. DeliveriesCover(b)'
        <3>1. PICK lines : lines = purchase'[b].lines
            OBVIOUS
        <3>2. purchase'[b] \in PurchaseRow
            <4>1. StoreInv'
                BY StepKeepsStore DEF BaseInv
            <4>2. QED
                BY <4>1 DEF StoreInv, RowsOK
        <3>3. Cardinality(DOMAIN lines) \in Nat
            BY <3>1, <3>2, BasketIs DEF PurchaseRow
        <3>4. Arrived(b)' = 0 * Cardinality(DOMAIN lines)
            BY <2>2, <3>3
        <3>5. Cardinality(Debits(b)') + Cardinality(Owing(b)') = 0
            BY <2>2, <2>3, FS_EmptySet
        <3>6. /\ 0 \in Nat
              /\ Arrived(b)' = 0 * Cardinality(DOMAIN purchase'[b].lines)
              /\ Cardinality(Debits(b)') + Cardinality(Owing(b)') <= 0
            BY <3>1, <3>4, <3>5
        <3>7. QED
            BY <3>6 DEF DeliveriesCover
    <2>5. QED
        BY <2>2, <2>4 DEF GoodsRow
<1>8. ASSUME NEW d \in GroceryCaller \ {c}
      PROVE  GoodsCall(d)'
    <2>1. GoodsCall(d)
        BY DEF GoodsInv
    <2>2. GroceryAt(d, "buy") => purchase'[groceryCall[d].id] = None
        <3>1. GroceryAt(d, "buy") => groceryCall[d].id \in Purchase \ {b}
            BY <1>1, AtIs, CallIs
        <3>2. QED
            BY <2>1, <3>1 DEF GoodsCall
    <2>3. \A e \in Purchase : purchase[e] # None /\ purchase[e].approvedBy # None =>
              purchase'[e].approvedBy # None
        OBVIOUS
    <2>4. ~ GroceryAt(c, "buy")'
        BY DEF GroceryAt
    <2>5. tx'[d] = tx[d]
        OBVIOUS
    <2>6. QED
        BY <1>1, <2>1, <2>2, <2>3, <2>4, <2>5, GoodsCallStays
<1>9. GoodsCall(c)'
    BY DEF GoodsCall, GroceryAt
<1>10. QED
    BY <1>5, <1>6, <1>7, <1>8, <1>9 DEF GoodsInv

LEMMA OrdersKeepGoods ==
    ASSUME BaseInv, LedgerInv, GoodsInv, NEW c \in GroceryCaller, Step(c),
           UNCHANGED scene,
           InsertPurchase(c) \/ ApprovePurchase(c) \/ RejectPurchase(c)
    PROVE  GoodsInv'
<1>1. StoreInv
    BY DEF BaseInv
<1>2. UNCHANGED <<scene, movement, ledger, tx>>
    BY DEF InsertPurchase, ApprovePurchase, RejectPurchase
<1>3. PICK b \in Purchase : b = groceryCall[c].id
    BY <1>1, InsertPurchaseIs, ApprovePurchaseIs, RejectPurchaseIs
<1>4. CASE InsertPurchase(c)
    <2>1. GroceryAt(c, "buy")
        BY <1>4 DEF InsertPurchase
    <2>2. /\ purchase[b] = None
          /\ \A d \in GroceryCaller \ {c} : GroceryAt(d, "buy") => groceryCall[d].id # b
        BY <1>3, <2>1 DEF GoodsInv, GoodsCall
    <2>3. /\ purchase'[b] # None
          /\ \A e \in Purchase \ {b} : purchase'[e] = purchase[e]
          /\ groceryCall'[c] # None =>
                /\ groceryCall'[c].pc = "stock" /\ groceryCall'[c].id = b
                /\ purchase'[b].approvedBy # None
        BY <1>1, <1>3, <1>4, InsertPurchaseIs
    <2>4. QED
        BY <1>2, <2>2, <2>3, WriteKeepsGoods
<1>5. ASSUME purchase[b] # None
      PROVE  \A d \in GroceryCaller \ {c} : GroceryAt(d, "buy") => groceryCall[d].id # b
    BY <1>5 DEF GoodsInv, GoodsCall
<1>6. CASE ApprovePurchase(c)
    <2>1. /\ purchase[b] # None /\ purchase'[b] # None
          /\ purchase'[b].lines = purchase[b].lines
          /\ purchase'[b].approvedBy # None
          /\ groceryCall'[c].pc = "stock" /\ groceryCall'[c].id = b
          /\ \A e \in Purchase \ {b} : purchase'[e] = purchase[e]
        BY <1>1, <1>3, <1>6, ApprovePurchaseIs
    <2>2. QED
        BY <1>2, <1>5, <2>1, WriteKeepsGoods
<1>7. CASE RejectPurchase(c)
    <2>1. /\ purchase[b] # None /\ purchase'[b] # None
          /\ purchase'[b].lines = purchase[b].lines
          /\ purchase'[b].approvedBy = purchase[b].approvedBy
          /\ groceryCall'[c] = None
          /\ \A e \in Purchase \ {b} : purchase'[e] = purchase[e]
        BY <1>1, <1>3, <1>7, RejectPurchaseIs
    <2>2. QED
        BY <1>2, <1>5, <2>1, WriteKeepsGoods
<1>8. QED
    BY <1>4, <1>6, <1>7

\* The goods come in: one delivery more, and one handler more that will debit.
LEMMA DeliveryKeepsGoods ==
    ASSUME BaseInv, LedgerInv, GoodsInv, NEW c \in GroceryCaller, Step(c),
           ReceiveGoods(c)
    PROVE  GoodsInv'
<1>1. StoreInv /\ Others(c) /\ MovementsOK
    BY StepLands DEF BaseInv, StoreInv, RowsOK
<1>2. PICK b \in Purchase : b = groceryCall[c].id
    BY <1>1, GoodsInsert
<1>3. /\ purchase[b] \in PurchaseRow /\ purchase[b] # None /\ Insert(Receipts(b))
      /\ UNCHANGED <<purchase, ledger>> /\ GroceryAt(c, "stock")
    BY <1>1, <1>2, GoodsInsert, PurchaseAssumption DEF ReceiveGoods
<1>4. UNCHANGED tx
    BY DEF ReceiveGoods
<1>5. groceryCall'[c].pc = "debit" /\ groceryCall'[c].id = b
    BY <1>1, <1>2, PurchaseGoes
<1>6. purchase[b].approvedBy # None
    BY <1>2, <1>3 DEF GoodsInv, GoodsCall
<1>7. ASSUME NEW e \in Purchase, e # b
      PROVE  GoodsRow(e)'
    <2>1. GoodsRow(e)
        BY DEF GoodsInv
    <2>2. Arrivals(e)' = Arrivals(e) /\ Arrived(e)' = Arrived(e)
        BY <1>1, <1>2, <1>7, WhoArrives
    <2>3. Owing(e)' \subseteq Owing(e)
        BY <1>1, <1>5, <1>7, OwingStays
    <2>4. QED
        BY <1>3, <2>1, <2>2, <2>3, GoodsRowsStay
<1>8. GoodsRow(b)'
    <2>1. PICK n : n = Cardinality(DOMAIN purchase[b].lines)
        OBVIOUS
    <2>2. n \in Nat
        BY <1>3, <2>1, BasketIs DEF PurchaseRow
    <2>3. PICK k \in Nat : Arrived(b) = k * n /\ Outlay(b) <= k
        BY <1>3, <2>1 DEF GoodsInv, GoodsRow, DeliveriesCover, Outlay
    <2>4. Arrived(b)' = Arrived(b) + n
        BY <1>1, <1>3, <2>1, ArrivalsDelivered
    <2>5. Arrived(b)' = (k + 1) * n
        BY <2>2, <2>3, <2>4
    <2>6. PICK O : O = Owing(b)
        OBVIOUS
    <2>7. PICK P : P = Owing(b)'
        OBVIOUS
    <2>8. P \subseteq O \cup {c}
        BY <1>1, <2>6, <2>7 DEF Owing, Others
    <2>9. /\ IsFiniteSet(O) /\ Cardinality(O) \in Nat
          /\ Cardinality(Debits(b)) \in Nat
        BY <2>6, OutlayIs
    <2>10. /\ IsFiniteSet(O \cup {c})
           /\ Cardinality(O \cup {c}) \in Nat
           /\ Cardinality(O \cup {c}) <= Cardinality(O) + 1
        <3>1. /\ IsFiniteSet(O \cup {c})
              /\ Cardinality(O \cup {c}) = IF c \in O THEN Cardinality(O)
                                           ELSE Cardinality(O) + 1
            BY <2>9, FS_AddElement
        <3>2. QED
            BY <2>9, <3>1
    <2>11. IsFiniteSet(P) /\ Cardinality(P) <= Cardinality(O \cup {c})
        BY <2>8, <2>10, FS_Subset
    <2>12. Cardinality(P) \in Nat
        BY <2>11, FS_CardinalityType
    <2>13. Debits(b)' = Debits(b)
        BY <1>3 DEF Debits
    <2>14. Cardinality(Debits(b)) + Cardinality(O) <= k
        BY <2>3, <2>6 DEF Outlay
    <2>15. Cardinality(Debits(b)) + Cardinality(P) <= k + 1
        BY <2>9, <2>10, <2>11, <2>12, <2>14
    <2>16. Cardinality(Debits(b)') + Cardinality(Owing(b)') <= k + 1
        BY ONLY <2>7, <2>13, <2>15
    <2>17. Arrived(b)' = (k + 1) * Cardinality(DOMAIN purchase'[b].lines)
        BY <1>3, <2>1, <2>5
    <2>18. k + 1 \in Nat
        OBVIOUS
    <2>19. DeliveriesCover(b)'
        BY <2>16, <2>17, <2>18 DEF DeliveriesCover
    <2>20. QED
        BY <1>3, <1>6, <2>19 DEF GoodsRow
<1>9. ASSUME NEW d \in GroceryCaller \ {c}
      PROVE  GoodsCall(d)'
    <2>1. GoodsCall(d)
        BY DEF GoodsInv
    <2>2. GroceryAt(d, "buy") => purchase'[groceryCall[d].id] = None
        BY <1>3, <2>1 DEF GoodsCall
    <2>3. \A e \in Purchase : purchase[e] # None /\ purchase[e].approvedBy # None =>
              purchase'[e].approvedBy # None
        BY <1>3
    <2>4. ~ GroceryAt(c, "buy")'
        BY <1>5 DEF GroceryAt
    <2>5. tx'[d] = tx[d]
        BY <1>4
    <2>6. QED
        BY <1>1, <2>1, <2>2, <2>3, <2>4, <2>5, GoodsCallStays
<1>10. GoodsCall(c)'
    BY <1>3, <1>5, <1>6 DEF GoodsCall, GroceryAt
<1>11. QED
    BY <1>7, <1>8, <1>9, <1>10 DEF GoodsInv

\* The debit is through: one entry more and one handler less that will debit,
\* or it was refused.
LEMMA EndDebitKeepsGoods ==
    ASSUME BaseInv, LedgerInv, GoodsInv, NEW c \in GroceryCaller, Step(c),
           EndPurchaseDebit(c)
    PROVE  GoodsInv'
<1>1. StoreInv /\ Others(c)
    BY StepLands DEF BaseInv
<1>2. UNCHANGED <<movement, purchase>> /\ groceryCall'[c] = None
    BY <1>1, PurchaseGoes DEF EndPurchaseDebit
<1>3. \A d \in GroceryCaller \ {c} : tx'[d] = tx[d]
    BY EndDebitIs, CatalogueAssumption
<1>4. GoodsCall(c)'
    BY <1>2 DEF GoodsCall, GroceryAt
<1>5. \A b : Owing(b)' \subseteq Owing(b)
    BY <1>1, <1>2, OwingStays
<1>6. \A b : Arrivals(b)' = Arrivals(b) /\ Arrived(b)' = Arrived(b)
    BY <1>2, ArrivalsSame
<1>7. ~ GroceryAt(c, "buy")'
    BY <1>2 DEF GroceryAt
<1>8. CASE UNCHANGED ledger
    BY <1>1, <1>2, <1>3, <1>4, <1>5, <1>6, <1>7, <1>8, QuietGoods
<1>9. CASE ~ UNCHANGED ledger
    <2>1. GroceryAt(c, "ledger")
        BY DEF EndPurchaseDebit
    <2>2. PICK b \in Purchase : b = groceryCall[c].id
        BY <1>1, <2>1, OrderAt DEF OrderPc
    <2>3. tx[c].ref = b /\ purchase[b] # None
        BY <1>1, <2>1, <2>2, OrderAt, PurchaseAssumption DEF GoodsInv, GoodsCall, OrderPc
    <2>4. PICK n : n = Len(ledger)
        OBVIOUS
    <2>5. /\ n \in Nat /\ DOMAIN ledger = 1..n /\ DOMAIN ledger' = 1..(n + 1)
          /\ ledger'[n + 1].ref = b
          /\ \A i \in 1..n : ledger'[i] = ledger[i]
        BY <1>9, <2>3, <2>4, EndDebitIs
    <2>6. ASSUME NEW e \in Purchase, e # b
          PROVE  GoodsRow(e)'
        <3>1. GoodsRow(e)
            BY DEF GoodsInv
        <3>2. Arrivals(e)' = Arrivals(e) /\ Arrived(e)' = Arrived(e)
            BY <1>6
        <3>3. Owing(e)' \subseteq Owing(e)
            BY <1>5
        <3>4. Debits(e)' = Debits(e)
            BY <2>5, <2>6 DEF Debits
        <3>5. /\ Outlay(e) \in Nat
              /\ Outlay(e)' \in Nat /\ Outlay(e)' <= Outlay(e)
            BY <3>3, <3>4, OutlayIs, OutlayShrinks
        <3>6. CASE purchase[e] = None
            BY <1>2, <3>1, <3>2, <3>4, <3>6, GoodsRowNone
        <3>7. CASE purchase[e] # None
            BY <1>2, <3>1, <3>2, <3>5, <3>7, GoodsRowSame
        <3>8. QED
            BY <3>6, <3>7
    <2>7. GoodsRow(b)'
        <3>1. PICK D : D = Debits(b)
            OBVIOUS
        <3>2. PICK O : O = Owing(b)
            OBVIOUS
        <3>3. /\ IsFiniteSet(D) /\ Cardinality(D) \in Nat
              /\ IsFiniteSet(O) /\ Cardinality(O) \in Nat
            BY <3>1, <3>2, OutlayIs
        <3>4. c \in O
            BY <2>1, <2>2, <3>2 DEF Owing, GroceryAt
        <3>5. Owing(b)' = O \ {c}
            BY <1>1, <1>2, <3>2 DEF Owing, Others
        <3>6. Debits(b)' = D \cup {n + 1}
            BY <2>5, <3>1 DEF Debits
        <3>7. n + 1 \notin D
            BY <2>5, <3>1 DEF Debits
        <3>8. /\ IsFiniteSet(D \cup {n + 1})
              /\ Cardinality(D \cup {n + 1}) = Cardinality(D) + 1
            BY <3>3, <3>7, FS_AddElement
        <3>9. Cardinality(O \ {c}) = Cardinality(O) - 1
            BY <3>3, <3>4, FS_RemoveElement
        <3>10. Cardinality(D \cup {n + 1}) + Cardinality(O \ {c}) =
                  Cardinality(D) + Cardinality(O)
            BY <3>3, <3>8, <3>9
        <3>11. Outlay(b) = Cardinality(D) + Cardinality(O)
            BY <3>1, <3>2 DEF Outlay
        <3>12. Outlay(b)' = Cardinality(Debits(b)') + Cardinality(Owing(b)')
            BY DEF Outlay, Debits, Owing
        <3>13. Outlay(b)' = Cardinality(D \cup {n + 1}) + Cardinality(O \ {c})
            BY ONLY <3>5, <3>6, <3>12
        <3>14. /\ Outlay(b) \in Nat
               /\ Outlay(b)' \in Nat /\ Outlay(b)' <= Outlay(b)
            BY <3>3, <3>10, <3>11, <3>13
        <3>15. Arrivals(b)' = Arrivals(b) /\ Arrived(b)' = Arrived(b)
            BY <1>6
        <3>16. GoodsRow(b)
            BY DEF GoodsInv
        <3>17. QED
            BY <1>2, <2>3, <3>14, <3>15, <3>16, GoodsRowSame
    <2>8. ASSUME NEW d \in GroceryCaller \ {c}
          PROVE  GoodsCall(d)'
        <3>1. GoodsCall(d)
            BY DEF GoodsInv
        <3>2. GroceryAt(d, "buy") => purchase'[groceryCall[d].id] = None
            BY <1>2, <3>1 DEF GoodsCall
        <3>3. \A e \in Purchase : purchase[e] # None /\ purchase[e].approvedBy # None =>
                  purchase'[e].approvedBy # None
            BY <1>2
        <3>4. tx'[d] = tx[d]
            BY <1>3
        <3>5. QED
            BY <1>1, <1>7, <3>1, <3>2, <3>3, <3>4, GoodsCallStays
    <2>9. QED
        BY <1>4, <2>6, <2>7, <2>8 DEF GoodsInv
<1>10. QED
    BY <1>8, <1>9

LEMMA GoodsStart == ASSUME GroceryInit PROVE GoodsInv
<1>1. ASSUME NEW b \in Purchase
      PROVE  Debits(b) = {}
    <2>1. CASE ledger = <<>>
        BY <2>1 DEF Debits
    <2>2. CASE ledger # <<>>
        <3>1. PICK u \in Chair : ledger =
                 <<[type |-> "CONTRIBUTION_CREDIT", amount |-> InitialPot,
                    balanceAfter |-> InitialPot, ref |-> None, by |-> u]>>
            BY <2>2 DEF GroceryInit, PotInit
        <3>2. DOMAIN ledger = {1} /\ ledger[1].ref = None
            BY <3>1
        <3>3. b # None
            BY PurchaseAssumption
        <3>4. QED
            BY <3>2, <3>3 DEF Debits
    <2>3. QED
        BY <2>1, <2>2
<1>2. ASSUME NEW b \in Purchase
      PROVE  GoodsRow(b)
    BY <1>1, ArrivalsStart DEF GoodsRow, GroceryInit
<1>3. \A c \in GroceryCaller : GoodsCall(c)
    BY DEF GroceryInit, GoodsCall, GroceryAt
<1>4. QED
    BY <1>2, <1>3 DEF GoodsInv

LEMMA GoodsKept ==
    ASSUME BaseInv, LedgerInv, GoodsInv, [GroceryNext]_groceryVars
    PROVE  GoodsInv'
<1>1. ASSUME NEW c \in GroceryCaller, Step(c), UNCHANGED scene
      PROVE  GoodsInv'
    BY <1>1, ReadsKeepGoods, OrdersKeepGoods, DeliveryKeepsGoods,
       StartDebitKeepsGoods, EndDebitKeepsGoods DEF PurchaseStep
<1>2. CASE GroceryCrash
    <2>1. /\ UNCHANGED <<movement, purchase, ledger>>
          /\ \A c \in GroceryCaller : groceryCall'[c] = None
        BY <1>2 DEF GroceryCrash
    <2>2. ASSUME NEW b \in Purchase
          PROVE  GoodsRow(b)'
        <3>1. Owing(b)' \subseteq Owing(b)
            BY <2>1 DEF Owing
        <3>2. Arrivals(b)' = Arrivals(b) /\ Arrived(b)' = Arrived(b)
            BY <2>1, ArrivalsSame
        <3>3. GoodsRow(b)
            BY DEF GoodsInv
        <3>4. QED
            BY <2>1, <3>1, <3>2, <3>3, GoodsRowsStay
    <2>3. \A c \in GroceryCaller : GoodsCall(c)'
        BY <2>1 DEF GoodsCall, GroceryAt
    <2>4. QED
        BY <2>2, <2>3 DEF GoodsInv
<1>3. CASE UNCHANGED groceryVars
    <2>1. UNCHANGED <<movement, purchase, ledger, groceryCall, tx>>
        BY <1>3 DEF groceryVars
    <2>2. ASSUME NEW b \in Purchase
          PROVE  GoodsRow(b)'
        <3>1. Owing(b)' \subseteq Owing(b)
            BY <2>1 DEF Owing
        <3>2. Arrivals(b)' = Arrivals(b) /\ Arrived(b)' = Arrived(b)
            BY <2>1, ArrivalsSame
        <3>3. GoodsRow(b)
            BY DEF GoodsInv
        <3>4. QED
            BY <2>1, <3>1, <3>2, <3>3, GoodsRowsStay
    <2>3. \A c \in GroceryCaller : GoodsCall(c)'
        BY <2>1 DEF GoodsInv, GoodsCall, GroceryAt
    <2>4. QED
        BY <2>2, <2>3 DEF GoodsInv
<1>4. QED
    BY <1>1, <1>2, <1>3, NextIs

LEMMA GoodsInvariant == GrocerySpec => []((BaseInv /\ LedgerInv) /\ GoodsInv)
<1>1. GroceryInit => LedgerInv /\ GoodsInv
    BY MoneyStarts, GoodsStart
<1>2. BaseInv /\ LedgerInv /\ GoodsInv /\ [GroceryNext]_groceryVars =>
         LedgerInv' /\ GoodsInv'
    BY MoneyKept, GoodsKept
<1>3. QED
    BY <1>1, <1>2, BaseInvariant, PTL DEF GrocerySpec

\* So many deliveries of so many lines are so many deliveries.
LEMMA TimesIs ==
    ASSUME NEW k \in Nat, NEW n \in Nat \ {0}
    PROVE  (k * n) \div n = k
<1>1. PICK m \in Nat : m = k * n
    OBVIOUS
<1>2. PICK q \in Int : q = m \div n
    OBVIOUS
<1>3. n * q <= m /\ m < n * (q + 1)
    BY <1>1, <1>2
<1>4. n * q <= n * k /\ n * k < n * (q + 1)
    BY <1>1, <1>3
<1>5. q <= k
    <2>1. SUFFICES ASSUME q >= k + 1 PROVE FALSE
        OBVIOUS
    <2>2. n * q >= n * (k + 1)
        BY <2>1
    <2>3. n * (k + 1) = n * k + n
        OBVIOUS
    <2>4. QED
        BY <1>4, <2>2, <2>3
<1>6. k <= q
    <2>1. SUFFICES ASSUME k >= q + 1 PROVE FALSE
        OBVIOUS
    <2>2. n * k >= n * (q + 1)
        BY <2>1
    <2>3. QED
        BY <1>4, <2>2
<1>7. QED
    BY <1>1, <1>2, <1>5, <1>6

\* The pot pays for goods that came in, and that someone approved, in every
\* interleaving of officers who buy, approve and reject the same purchases and
\* with crashes between any two writes: every debit, done or under way, has a
\* delivery of its own.
THEOREM GroceryGoodsFirst == GrocerySpec => []GoodsBeforeMoney
<1>1. BaseInv /\ LedgerInv /\ GoodsInv => GoodsBeforeMoney
    <2>1. SUFFICES ASSUME BaseInv, LedgerInv, GoodsInv, NEW b \in Purchase
                   PROVE  /\ Cardinality(Debits(b)) <= TimesReceived(b)
                          /\ TimesReceived(b) > 0 => purchase[b].approvedBy # None
        BY DEF GoodsBeforeMoney
    <2>2. CASE purchase[b] = None
        <3>1. Debits(b) = {} /\ TimesReceived(b) = 0
            BY <2>1, <2>2 DEF GoodsInv, GoodsRow, TimesReceived
        <3>2. QED
            BY <3>1, FS_EmptySet
    <2>3. CASE purchase[b] # None
        <3>1. PICK n : n = Cardinality(DOMAIN purchase[b].lines)
            OBVIOUS
        <3>2. purchase[b] \in PurchaseRow
            BY <2>1, <2>3 DEF BaseInv, StoreInv, RowsOK
        <3>3. n \in Nat \ {0}
            BY <3>1, <3>2, BasketIs DEF PurchaseRow
        <3>4. PICK k \in Nat : Arrived(b) = k * n /\ Outlay(b) <= k
            BY <2>1, <2>3, <3>1 DEF GoodsInv, GoodsRow, DeliveriesCover, Outlay
        <3>5. TimesReceived(b) = k
            <4>1. TimesReceived(b) = Arrived(b) \div n
                BY <2>3, <3>1 DEF TimesReceived, Arrived, Arrivals
            <4>2. QED
                BY <3>3, <3>4, <4>1, TimesIs
        <3>6. Cardinality(Debits(b)) <= k
            BY <2>1, <3>4, OutlayIs DEF Outlay
        <3>7. Arrivals(b) = {} => k = 0
            <4>1. ASSUME Arrivals(b) = {}
                  PROVE  k = 0
                <5>1. k * n = 0
                    BY <3>4, <4>1, NothingArrived
                <5>2. QED
                    BY <3>3, <5>1
            <4>2. QED
                BY <4>1
        <3>8. Arrivals(b) # {} => purchase[b].approvedBy # None
            BY <2>1 DEF GoodsInv, GoodsRow
        <3>9. QED
            BY <3>4, <3>5, <3>6, <3>7, <3>8
    <2>4. QED
        BY <2>2, <2>3
<1>2. QED
    BY <1>1, GoodsInvariant, PTL

\* The pot of a grocery group keeps the ledger's promises: the stored balances
\* are the sums of the movements and never negative.
COROLLARY GroceryPotSound == GrocerySpec => [](RunningBalance /\ NeverNegative)
<1>1. LedgerInv => RunningBalance /\ NeverNegative
    BY DEF LedgerInv
<1>2. QED
    BY <1>1, GoodsInvariant, PTL

-----------------------------------------------------------------------------
(* Products that are deleted. *)

\* The only movements on a product without a look at what was deleted are
\* those of purchases and of distributions.
LEMMA AdjustedIsLive ==
    ASSUME BaseInv, DeletedInv, Alone, NEW c \in GroceryCaller, Step(c),
           NEW m \in DOMAIN movement', m.type = "ADJUSTMENT"
    PROVE  m \in DOMAIN movement \/ (Live(m.product) /\ UNCHANGED product)
<1>1. StoreInv /\ MovementsOK /\ DeletedCall(c)
    BY DEF BaseInv, StoreInv, RowsOK, DeletedInv
<1>2. ASSUME NEW R, IsFiniteSet(R), \A x \in R : MovementRow(x), Insert(R)
      PROVE  DOMAIN movement' = DOMAIN movement \cup R
    BY <1>1, <1>2, InsertKeeps
<1>3. CASE UNCHANGED movement
    BY <1>3
<1>4. CASE InsertAdjust(c)
    <2>1. PICK x : /\ MovementRow(x) /\ x.product = groceryCall[c].id
                   /\ Insert({x})
        BY <1>1, <1>4, AdjustInserts
    <2>2. PICK R : R = {x}
        OBVIOUS
    <2>3. DOMAIN movement' = DOMAIN movement \cup R
        BY <1>2, <2>1, <2>2, FS_Singleton
    <2>4. Live(x.product) /\ UNCHANGED product
        BY <1>1, <1>4, <2>1 DEF InsertAdjust, GroceryAt, DeletedCall
    <2>5. QED
        BY <2>2, <2>3, <2>4
<1>5. CASE ReceiveGoods(c)
    <2>1. PICK R : R = Receipts(groceryCall[c].id)
        OBVIOUS
    <2>2. /\ IsFiniteSet(R) /\ Insert(R)
          /\ \A x \in R : MovementRow(x) /\ x.type = "IN"
        BY <1>1, <1>5, <2>1, GoodsInsert, ReceiptsAre
    <2>3. QED
        BY <1>2, <2>2
<1>6. CASE InsertTake(c)
    <2>1. PICK x : MovementRow(x) /\ x.type = "OUT" /\ Insert({x})
        BY <1>1, <1>6, TakeInserts
    <2>2. PICK R : R = {x}
        OBVIOUS
    <2>3. DOMAIN movement' = DOMAIN movement \cup R
        BY <1>2, <2>1, <2>2, FS_Singleton
    <2>4. QED
        BY <2>1, <2>2, <2>3
<1>7. QED
    BY <1>3, <1>4, <1>5, <1>6, WhoMoves

\* The handler of a caller after a step of his.
LEMMA DeletedKept ==
    ASSUME BaseInv, DeletedInv, Alone, NEW c \in GroceryCaller, Step(c),
           UNCHANGED scene, DeletedCall(c)',
           \A p \in Product : HasMoved(p) /\ Live(p) => Live(p)'
    PROVE  DeletedInv'
<1>1. StoreInv /\ OnlyOne
    BY DEF BaseInv
<1>2. \A b \in GroceryCaller \ {c} : groceryCall'[b] = None
    BY <1>1, StepAlone
<1>3. \A b \in GroceryCaller : DeletedCall(b)'
    BY <1>2 DEF DeletedCall
<1>4. ASSUME NEW m \in DOMAIN movement', m.type = "ADJUSTMENT"
      PROVE  Live(m.product)'
    <2>1. CASE m \in DOMAIN movement
        <3>1. m.product \in Product /\ Live(m.product) /\ HasMoved(m.product)
            BY <1>1, <1>4, <2>1
            DEF DeletedInv, HasMoved, StoreInv, RowsOK, MovementsOK, MovementRow
        <3>2. QED
            BY <3>1 DEF Live
    <2>2. CASE Live(m.product) /\ UNCHANGED product
        BY <2>2 DEF Live
    <2>3. QED
        BY <1>4, <2>1, <2>2, AdjustedIsLive
<1>5. QED
    BY <1>3, <1>4 DEF DeletedInv

LEMMA StockKeepsDeleted ==
    ASSUME BaseInv, DeletedInv, Alone, NEW c \in GroceryCaller, StockStep(c),
           UNCHANGED scene
    PROVE  DeletedInv'
<1>1. StoreInv /\ Step(c) /\ DeletedCall(c)
    BY DEF BaseInv, Step, DeletedInv
<1>2. UNCHANGED product
    BY DEF StockStep, ReadForAdjust, WeighAdjust, InsertAdjust
<1>3. \A p \in Product : Live(p) => Live(p)'
    BY <1>2 DEF Live
<1>4. ASSUME NEW p \in Product, NEW change \in Change, ReadForAdjust(c, p, change)
      PROVE  DeletedCall(c)'
    <2>1. /\ groceryCall'[c].pc \in {"weigh", "adjust"}
          /\ groceryCall'[c].id = p
        BY <1>1, <1>4, StartIs DEF ReadForAdjust
    <2>2. Live(p)'
        BY <1>2, <1>4 DEF ReadForAdjust, Live
    <2>3. QED
        BY <2>1, <2>2 DEF DeletedCall, Live
<1>5. ASSUME WeighAdjust(c)
      PROVE  DeletedCall(c)'
    <2>1. GroceryAt(c, "weigh")
        BY <1>5 DEF WeighAdjust
    <2>2. GroceryReturn(c) \/ GroceryGoto(c, "adjust")
        BY <1>5 DEF WeighAdjust
    <2>3. GroceryGoto(c, "adjust") =>
             groceryCall'[c].pc = "adjust" /\ groceryCall'[c].id = groceryCall[c].id
        BY <1>1, <2>1, GotoIs
    <2>4. GroceryReturn(c) => groceryCall'[c] = None
        BY <1>1, ReturnIs
    <2>5. Live(groceryCall[c].id)
        BY <1>1, <2>1 DEF GroceryAt, DeletedCall
    <2>6. QED
        BY <1>2, <2>2, <2>3, <2>4, <2>5 DEF DeletedCall, Live
<1>6. ASSUME InsertAdjust(c)
      PROVE  DeletedCall(c)'
    BY <1>1, <1>6, ReturnIs DEF InsertAdjust, DeletedCall
<1>7. DeletedCall(c)'
    BY <1>4, <1>5, <1>6, DealtIs DEF StockStep
<1>8. QED
    BY <1>1, <1>3, <1>7, DeletedKept

\* Only a product that never moved is deleted.
LEMMA ProductKeepsDeleted ==
    ASSUME BaseInv, DeletedInv, Alone, NEW c \in GroceryCaller, ProductStep(c),
           UNCHANGED scene
    PROVE  DeletedInv'
<1>1. StoreInv /\ Step(c) /\ DeletedCall(c)
    BY DEF BaseInv, Step, DeletedInv
<1>2. UNCHANGED movement
    BY DEF ProductStep, ReadForCreate, ReadForUpdate, ReadForDelete,
       InsertProduct, ApplyUpdate, Deactivate, Delete
<1>3. ASSUME UNCHANGED product, NEW x, GroceryStart(c, x),
             \/ x.pc \in {"create", "rename", "deactivate"}
             \/ x.pc = "delete" /\ ~ HasMoved(x.id)
      PROVE  DeletedInv'
    <2>1. \A p \in Product : Live(p) => Live(p)'
        BY <1>3 DEF Live
    <2>2. groceryCall'[c] = x
        BY <1>1, <1>3, StartIs
    <2>3. x.pc = "delete" => ~ HasMoved(x.id)'
        BY <1>2, <1>3 DEF HasMoved
    <2>4. DeletedCall(c)'
        BY <1>3, <2>2, <2>3 DEF DeletedCall, HasMoved
    <2>5. QED
        BY <1>1, <2>1, <2>4, DeletedKept
<1>4. ASSUME GroceryReturn(c),
             \A p \in Product : HasMoved(p) /\ Live(p) => Live(p)'
      PROVE  DeletedInv'
    <2>1. DeletedCall(c)'
        BY <1>1, <1>4, ReturnIs DEF DeletedCall
    <2>2. QED
        BY <1>1, <1>4, <2>1, DeletedKept
<1>5. ASSUME NEW p \in Product, NEW row \in ProductRow, GroceryReturn(c),
             UNCHANGED product \/ product' = [product EXCEPT ![p] = row],
             row.deleted => ~ HasMoved(p) \/ ~ Live(p)
      PROVE  DeletedInv'
    <2>1. row # None
        BY CatalogueAssumption
    <2>2. \A q \in Product : HasMoved(q) /\ Live(q) => Live(q)'
        BY <1>1, <1>5, <2>1 DEF Live, StoreInv, RowsOK
    <2>3. QED
        BY <1>4, <1>5, <2>2
<1>6. CASE InsertProduct(c)
    <2>1. /\ groceryCall[c].id \in Product /\ groceryCall[c].name \in ProductName
          /\ GroceryReturn(c)
        BY <1>1, <1>6, AtIs, CallIs DEF InsertProduct, ProductRec
    <2>2. PICK row : row = [name |-> groceryCall[c].name, active |-> TRUE,
                            deleted |-> FALSE]
        OBVIOUS
    <2>3. row \in ProductRow /\ ~ row.deleted
        BY <2>1, <2>2 DEF ProductRow
    <2>4. UNCHANGED product \/ product' = [product EXCEPT ![groceryCall[c].id] = row]
        BY <1>6, <2>2 DEF InsertProduct
    <2>5. QED
        BY <1>5, <2>1, <2>3, <2>4
<1>7. ASSUME NEW pc \in {"rename", "deactivate", "delete"}, GroceryAt(c, pc)
      PROVE  groceryCall[c].id \in Product /\ product[groceryCall[c].id] \in ProductRow
    <2>1. /\ groceryCall[c].id \in Product
          /\ product[groceryCall[c].id] # None
        BY <1>1, <1>7, AtIs, CallIs DEF ProductRec, CallRow
    <2>2. QED
        BY <1>1, <2>1 DEF StoreInv, RowsOK
<1>8. CASE ApplyUpdate(c)
    <2>1. PICK p \in Product : p = groceryCall[c].id /\ product[p] \in ProductRow
        BY <1>7, <1>8 DEF ApplyUpdate
    <2>2. /\ groceryCall[c].name \in ProductName \cup {None}
          /\ groceryCall[c].active \in BOOLEAN \cup {None}
        BY <1>1, <1>8, AtIs, CallIs DEF ApplyUpdate, ProductRec
    <2>3. PICK stored \in ProductRow : stored = product[p]
        BY <2>1
    <2>4. PICK row : row = [stored EXCEPT
                               !.name = Given(groceryCall[c].name, @),
                               !.active = Given(groceryCall[c].active, @)]
        OBVIOUS
    <2>5. row \in ProductRow /\ row.deleted = product[p].deleted
        BY <2>2, <2>3, <2>4 DEF ProductRow, Given
    <2>6. UNCHANGED product \/ product' = [product EXCEPT ![p] = row]
        <3>1. CASE product' = [product EXCEPT
                      ![p].name = Given(groceryCall[c].name, @),
                      ![p].active = Given(groceryCall[c].active, @)]
            BY <1>1, <2>1, <2>3, <2>4, <3>1 DEF ProductRow, StoreInv, RowsOK
        <3>2. QED
            BY <1>8, <2>1, <3>1 DEF ApplyUpdate
    <2>7. row.deleted => ~ Live(p)
        BY <2>5 DEF Live
    <2>8. QED
        BY <1>5, <1>8, <2>5, <2>6, <2>7 DEF ApplyUpdate
<1>9. CASE Deactivate(c)
    <2>1. PICK p \in Product : p = groceryCall[c].id /\ product[p] \in ProductRow
        BY <1>7, <1>9 DEF Deactivate
    <2>2. PICK row : row = [product[p] EXCEPT !.active = FALSE]
        OBVIOUS
    <2>3. row \in ProductRow /\ row.deleted = product[p].deleted
        BY <2>1, <2>2 DEF ProductRow
    <2>4. product' = [product EXCEPT ![p] = row] /\ GroceryReturn(c)
        BY <1>9, <2>1, <2>2 DEF Deactivate
    <2>5. row.deleted => ~ Live(p)
        BY <2>3 DEF Live
    <2>6. QED
        BY <1>5, <2>3, <2>4, <2>5
<1>10. CASE Delete(c)
    <2>1. PICK p \in Product : p = groceryCall[c].id /\ product[p] \in ProductRow
        BY <1>7, <1>10 DEF Delete
    <2>2. ~ HasMoved(p)
        BY <1>1, <1>10, <2>1 DEF Delete, GroceryAt, DeletedCall
    <2>3. PICK row : row = [product[p] EXCEPT !.deleted = TRUE]
        OBVIOUS
    <2>4. row \in ProductRow
        BY <2>1, <2>3 DEF ProductRow
    <2>5. product' = [product EXCEPT ![p] = row] /\ GroceryReturn(c)
        BY <1>10, <2>1, <2>3 DEF Delete
    <2>6. QED
        BY <1>5, <2>2, <2>4, <2>5
<1>11. QED
    <2>1. ASSUME NEW p, NEW name, ReadForCreate(c, p, name)
          PROVE  DeletedInv'
        BY <1>3, <2>1 DEF ReadForCreate
    <2>2. ASSUME NEW p, NEW name, NEW active, ReadForUpdate(c, p, name, active)
          PROVE  DeletedInv'
        BY <1>3, <2>2 DEF ReadForUpdate
    <2>3. ASSUME NEW p, ReadForDelete(c, p)
          PROVE  DeletedInv'
        <3>1. PICK x : x = [pc |-> IF HasMoved(p) THEN "deactivate" ELSE "delete",
                            id |-> p]
            OBVIOUS
        <3>2. x.pc = "deactivate" \/ (x.pc = "delete" /\ ~ HasMoved(x.id))
            BY <3>1
        <3>3. QED
            BY <1>3, <2>3, <3>1, <3>2 DEF ReadForDelete
    <2>4. QED
        BY <1>6, <1>8, <1>9, <1>10, <2>1, <2>2, <2>3 DEF ProductStep

\* Purchases and distributions leave the products alone.
LEMMA OthersKeepDeleted ==
    ASSUME BaseInv, DeletedInv, Alone, NEW c \in GroceryCaller, UNCHANGED scene,
           PurchaseStep(c) \/ OfficerStep(c) \/ MemberStep(c)
    PROVE  DeletedInv'
<1>1. StoreInv /\ Step(c)
    BY DEF BaseInv, Step
<1>2. PurchaseStep(c) => UNCHANGED product
    BY DEF PurchaseStep, CreatePurchase, ReadForReview, InsertPurchase,
       ApprovePurchase, RejectPurchase, ReceiveGoods, StartPurchaseDebit,
       EndPurchaseDebit
<1>3. OfficerStep(c) => UNCHANGED product
    <2>1. CheckAvailable(c) \/ InsertDistribution(c) => UNCHANGED product
        BY DEF CheckAvailable, InsertDistribution
    <2>2. WriteStatus(c) \/ WriteItemStatus(c) => UNCHANGED product
        BY DEF WriteStatus, WriteItemStatus
    <2>3. QED
        BY <2>1, <2>2
        DEF OfficerStep, CreateDistribution, ReadForStatus, ReadForItemStatus
<1>4. MemberStep(c) => UNCHANGED product
    BY DEF MemberStep, ReadForConfirm, ConfirmItem, CheckTake, InsertTake,
       StoreAnswer, CountConfirmed, Complete
<1>5. \A p \in Product : Live(p) => Live(p)'
    BY <1>2, <1>3, <1>4 DEF Live
<1>6. DeletedCall(c)'
    <2>1. \/ Lands(c, OrderPc \cup {"buy"})
          \/ Lands(c, {"available", "share", "status", "set", "take"})
          \/ Lands(c, ItemPc \ {"set"})
        BY <1>1, PurchaseLands, OfficerLands, MemberLands
    <2>2. QED
        BY <2>1 DEF Lands, DeletedCall, OrderPc, ItemPc
<1>7. QED
    BY <1>1, <1>5, <1>6, DeletedKept

\* The shelves are full of goods that nobody has deleted.
LEMMA DeletedStart == ASSUME GroceryInit PROVE DeletedInv
<1>1. \A c \in GroceryCaller : groceryCall[c] = None
    BY DEF GroceryInit
<1>2. CASE FromScratch
    <2>1. movement = SetToBag({})
        BY <1>2 DEF GroceryInit, EmptyBag
    <2>2. DOMAIN movement = {}
        BY <2>1 DEF SetToBag
    <2>3. QED
        BY <1>1, <2>2 DEF DeletedInv, DeletedCall
<1>3. CASE ~ FromScratch
    <2>1. ASSUME NEW p \in Shelf
          PROVE  Live(p)
        <3>1. product[p] = Stocked(p)
            BY <1>3, GroceryAssumption DEF GroceryInit
        <3>2. ~ product[p].deleted
            BY <3>1 DEF Stocked
        <3>3. NameOnShelf \in [Shelf -> Word]
            BY GroceryAssumption DEF NameOnShelf, Injection
        <3>4. Stocked(p) \in ProductRow
            BY <3>3 DEF Stocked, ProductRow, ProductName
        <3>5. QED
            BY <3>1, <3>2, <3>4, CatalogueAssumption DEF Live
    <2>2. \A m \in DOMAIN movement : m.product \in Shelf
        BY <1>3, ShelvesFilled DEF GroceryInit
    <2>3. QED
        BY <1>1, <2>1, <2>2 DEF DeletedInv, DeletedCall
<1>4. QED
    BY <1>2, <1>3

LEMMA DeletedInvariant == GrocerySpec => [](BaseInv /\ DeletedInv)
<1>1. GroceryInit => DeletedInv
    BY DeletedStart
<1>2. BaseInv /\ DeletedInv /\ [GroceryNext]_groceryVars => DeletedInv'
    <2>1. SUFFICES ASSUME BaseInv, DeletedInv, [GroceryNext]_groceryVars, Alone'
                   PROVE  DeletedInv'
        BY DEF DeletedInv
    <2>2. UNCHANGED scene /\ Alone
        BY <2>1, NextIs DEF groceryVars, Alone
    <2>3. CASE GroceryCrash
        <3>1. /\ UNCHANGED <<product, movement>>
              /\ \A c \in GroceryCaller : groceryCall'[c] = None
            BY <2>3 DEF GroceryCrash
        <3>2. QED
            BY <2>1, <2>2, <3>1 DEF DeletedInv, DeletedCall, Live
    <2>4. CASE UNCHANGED groceryVars
        BY <2>1, <2>4 DEF groceryVars, DeletedInv, DeletedCall, Live, HasMoved, Alone
    <2>5. CASE \E c \in GroceryCaller : Step(c)
        BY <2>1, <2>2, <2>5, StockKeepsDeleted, ProductKeepsDeleted,
           OthersKeepDeleted DEF Step
    <2>6. QED
        BY <2>1, <2>3, <2>4, <2>5, NextIs
<1>3. QED
    BY <1>1, <1>2, BaseInvariant, PTL DEF GrocerySpec

\* With one request at a time, and across crashes, a deleted product was never
\* adjusted, and what distributions take of it never exceeds what purchases
\* brought: update deletes only what has no movements and an adjustment finds
\* its product live, while a purchase entered before still comes in and create
\* of a distribution asks for the stock alone.
THEOREM GroceryDeletedOnlyBought == GrocerySpec => []DeletedOnlyBought
<1>1. BaseInv /\ DeletedInv /\ StockInv => DeletedOnlyBought
    BY DEF DeletedInv, StockInv, DeletedOnlyBought, Live
<1>2. QED
    BY <1>1, DeletedInvariant, StockInvariant, PTL

-----------------------------------------------------------------------------
(* What a distribution hands out. *)

\* The shares of a product: n equal shares, rounded half up.
LEMMA ShareRoundsUp ==
    ASSUME NEW n \in Nat \ {0}, NEW r \in Int, NEW s \in Int,
           s = (2 * r + n) \div (2 * n)
    PROVE  2 * (s * n - r) <= n
<1>1. PICK m \in Nat \ {0} : m = 2 * n
    OBVIOUS
<1>2. PICK a \in Int : a = 2 * r + n
    OBVIOUS
<1>3. s * m <= a
    BY <1>1, <1>2
<1>4. s * m = 2 * (s * n)
    BY <1>1
<1>5. PICK t \in Int : t = s * n
    OBVIOUS
<1>6. 2 * t <= 2 * r + n
    BY <1>2, <1>3, <1>4, <1>5
<1>7. 2 * (t - r) <= n
    BY <1>6
<1>8. QED
    BY <1>5, <1>7

\* Members with an override get it, the others share what is left.
LEMMA HandedOut ==
    ASSUME NEW call \in ShareRow, ShareCall(call), NEW items,
           items = Allocations(call.wanted, call.overrides), Storable(items),
           NEW p \in DOMAIN call.wanted, NEW f,
           f = [i \in {j \in DOMAIN items : j[2] = p} |-> TakenQuantity(items[i])]
    PROVE  2 * (SumFunctionOnSet(f, DOMAIN f) - call.wanted[p])
              <= Cardinality(Sharers(call.overrides, p))
<1>1. PICK D : D = {j \in DOMAIN items : j[2] = p}
    OBVIOUS
<1>2. PICK O : O = {i \in DOMAIN call.overrides : i[2] = p}
    OBVIOUS
<1>3. PICK S : S = Sharers(call.overrides, p)
    OBVIOUS
<1>4. PICK s : s = EqualShare(call.wanted, call.overrides, p)
    OBVIOUS
<1>5. PICK g : g = call.overrides
    OBVIOUS
<1>6. /\ D = Recipient \X {p} /\ DOMAIN f = D
      /\ IsFiniteSet(Recipient) /\ Recipient # {}
    <2>1. DOMAIN items = Recipient \X DOMAIN call.wanted
        BY DEF Allocations
    <2>2. QED
        BY <1>1, <2>1, DistributionAssumption, GroceryAssumption
<1>7. IsFiniteSet(D) /\ IsFiniteSet(O) /\ IsFiniteSet(S) /\ IsFiniteSet(D \cap O)
      /\ IsFiniteSet(D \ O) /\ IsFiniteSet(O \ D)
    <2>1. IsFiniteSet({p})
        BY FS_Singleton
    <2>2. IsFiniteSet(D)
        BY <1>6, <2>1, FS_Product
    <2>3. IsFiniteSet(O)
        BY <1>2, SharingIs, FS_Subset
    <2>4. IsFiniteSet(S)
        BY <1>3, <1>6, FS_Subset DEF Sharers
    <2>5. QED
        BY <2>2, <2>3, <2>4, FS_Subset
<1>8. s \in Int /\ Remaining(call.wanted, call.overrides, p) \in Int
    BY <1>4, ShareIsInt
<1>9. \A i \in O : g[i] \in Nat
    BY <1>2, <1>5, SharingIs
\* What the items are.
<1>10. ASSUME NEW i \in D
       PROVE  /\ items[i].allocated = s /\ s > 0
              /\ f[i] = IF i \in O THEN g[i] ELSE s
    <2>1. i \in DOMAIN items /\ i[2] = p
        BY <1>1, <1>10
    <2>2. items[i] = [status |-> "PENDING", allocated |-> s,
                      override |-> OverrideOf(g, i), key |-> None]
        BY <1>4, <1>5, <2>1 DEF Allocations
    <2>3. s > 0
        BY <2>1, <2>2 DEF Storable
    <2>4. f[i] = TakenQuantity(items[i])
        BY <1>1, <1>10
    <2>5. CASE i \in O
        <3>1. g[i] \in Quantity /\ OverrideOf(g, i) = g[i]
            BY <1>2, <1>5, <2>5, SharingIs DEF OverrideOf
        <3>2. g[i] # None
            BY <3>1, DistributionAssumption
        <3>3. QED
            BY <2>2, <2>3, <2>4, <2>5, <3>1, <3>2 DEF TakenQuantity
    <2>6. CASE i \notin O
        <3>1. OverrideOf(g, i) = None
            BY <1>2, <1>5, <2>1, <2>6 DEF OverrideOf
        <3>2. QED
            BY <2>2, <2>3, <2>4, <2>6, <3>1 DEF TakenQuantity
    <2>7. QED
        BY <2>2, <2>3, <2>5, <2>6
<1>11. \A i \in D : f[i] \in Int
    BY <1>8, <1>9, <1>10
\* The overrides handed out are some of those asked for.
<1>12. PICK a \in Int : a = SumFunctionOnSet(f, D \cap O)
    BY <1>7, <1>11, SumInt
<1>13. PICK o \in Int : o = SumFunctionOnSet(g, O)
    BY <1>7, <1>9, SumInt
<1>14. a <= o
    <2>1. SumFunctionOnSet(f, D \cap O) = SumFunctionOnSet(g, D \cap O)
        <3>1. \A i \in D \cap O : f[i] = g[i]
            BY <1>10
        <3>2. QED
            BY <1>7, <3>1, SumSame
    <2>2. PICK b \in Int : b = SumFunctionOnSet(g, O \ D)
        BY <1>7, <1>9, SumInt
    <2>3. b >= 0
        <3>1. PICK R : R = O \ D
            OBVIOUS
        <3>2. PICK z : z = [i \in R |-> 0]
            OBVIOUS
        <3>3. SumFunctionOnSet(z, R) = 0 * Cardinality(R)
            <4>1. IsFiniteSet(R) /\ 0 \in Int /\ \A i \in R : z[i] = 0
                BY <1>7, <3>1, <3>2
            <4>2. QED
                BY <4>1, SumConstant
        <3>4. Cardinality(R) \in Nat
            BY <1>7, <3>1, FS_CardinalityType
        <3>5. SumFunctionOnSet(z, R) <= SumFunctionOnSet(g, R)
            <4>1. /\ IsFiniteSet(R)
                  /\ \A i \in R : z[i] \in Int /\ g[i] \in Int /\ z[i] <= g[i]
                BY <1>7, <1>9, <3>1, <3>2
            <4>2. QED
                BY <4>1, SumOrder
        <3>6. QED
            BY <2>2, <3>1, <3>3, <3>4, <3>5
    <2>4. SumFunctionOnSet(g, O) = SumFunctionOnSet(g, D \cap O)
                                      + SumFunctionOnSet(g, O \ D)
        <3>1. PICK P : P = D \cap O
            OBVIOUS
        <3>2. PICK R : R = O \ D
            OBVIOUS
        <3>3. /\ IsFiniteSet(P) /\ IsFiniteSet(R) /\ P \cap R = {} /\ O = P \cup R
              /\ \A i \in P \cup R : g[i] \in Int
            BY <1>7, <1>9, <3>1, <3>2
        <3>4. SumFunctionOnSet(g, P \cup R) = SumFunctionOnSet(g, P)
                                                 + SumFunctionOnSet(g, R)
            BY <3>3, SumUnion
        <3>5. QED
            BY <3>1, <3>2, <3>3, <3>4
    <2>5. QED
        BY <1>12, <1>13, <2>1, <2>2, <2>3, <2>4
\* The others get equal shares.
<1>15. PICK n \in Nat : n = Cardinality(S)
    BY <1>7, FS_CardinalityType
<1>16. SumFunctionOnSet(f, D \ O) = s * n
    <2>1. PICK R : R = D \ O
        OBVIOUS
    <2>2. R = S \X {p}
        BY <1>2, <1>3, <1>6, <2>1 DEF Sharers
    <2>3. Cardinality(R) = n
        <3>1. IsFiniteSet({p}) /\ Cardinality({p}) = 1
            BY FS_Singleton
        <3>2. Cardinality(S \X {p}) = Cardinality(S) * Cardinality({p})
            BY <1>7, <3>1, FS_Product
        <3>3. QED
            BY <1>15, <2>2, <3>1, <3>2
    <2>4. IsFiniteSet(R) /\ \A i \in R : f[i] = s
        BY <1>7, <1>10, <2>1
    <2>5. SumFunctionOnSet(f, R) = s * Cardinality(R)
        BY <1>8, <2>4, SumConstant
    <2>6. QED
        BY <2>1, <2>3, <2>5
<1>17. SumFunctionOnSet(f, D) = a + s * n
    <2>1. PICK P : P = D \cap O
        OBVIOUS
    <2>2. PICK R : R = D \ O
        OBVIOUS
    <2>3. /\ IsFiniteSet(P) /\ IsFiniteSet(R) /\ P \cap R = {} /\ D = P \cup R
          /\ \A i \in P \cup R : f[i] \in Int
        BY <1>7, <1>11, <2>1, <2>2
    <2>4. SumFunctionOnSet(f, P \cup R) = SumFunctionOnSet(f, P)
                                             + SumFunctionOnSet(f, R)
        BY <2>3, SumUnion
    <2>5. QED
        BY <1>12, <1>16, <2>1, <2>2, <2>3, <2>4
<1>18. PICK r \in Int : r = Remaining(call.wanted, call.overrides, p)
    BY <1>8
<1>19. PICK w \in Int : w = call.wanted[p]
    BY SharingIs
<1>20. r = w - o
    BY <1>2, <1>5, <1>13, <1>18, <1>19 DEF Remaining
\* Somebody shares: the CHECK refuses empty shares.
<1>21. n # 0 /\ s = (2 * r + n) \div (2 * n)
    <2>1. PICK m \in Recipient : TRUE
        BY <1>6
    <2>2. <<m, p>> \in D
        BY <1>6
    <2>3. s > 0
        BY <1>10, <2>2
    <2>4. QED
        BY <1>3, <1>4, <1>15, <1>18, <2>3 DEF EqualShare
<1>22. 2 * (s * n - r) <= n
    BY <1>8, <1>21, ShareRoundsUp
<1>23. PICK t \in Int : t = s * n
    BY <1>8
<1>24. 2 * ((a + t) - w) <= n
    BY <1>14, <1>20, <1>22, <1>23
<1>25. QED
    BY <1>3, <1>6, <1>15, <1>17, <1>19, <1>23, <1>24

\* The items of a distribution never hand out more of a product than was
\* wanted but for the rounding, half a unit for every member who shares, for
\* any quantities, overrides and number of members: an override larger than
\* the quantity leaves the others a share the CHECK of the table refuses, and
\* so do overrides for everyone.
THEOREM GroceryAllocationWithinTotal == GrocerySpec => []AllocationWithinTotal
<1>1. ASSUME BaseInv, NEW c \in GroceryCaller, GroceryAt(c, "share"),
             Storable(Allocations(groceryCall[c].wanted, groceryCall[c].overrides)),
             NEW p \in DOMAIN groceryCall[c].wanted
      PROVE  2 * (SumFunction([i \in {j \in DOMAIN Allocations(groceryCall[c].wanted,
                                                    groceryCall[c].overrides) :
                                         j[2] = p} |->
                     TakenQuantity(Allocations(groceryCall[c].wanted,
                                               groceryCall[c].overrides)[i])])
                     - groceryCall[c].wanted[p])
                <= Cardinality(Sharers(groceryCall[c].overrides, p))
    <2>1. groceryCall[c] \in ShareRow /\ ShareCall(groceryCall[c])
        BY <1>1, AtIs, CallIs DEF BaseInv
    <2>2. PICK call \in ShareRow : call = groceryCall[c] /\ ShareCall(call)
        BY <2>1
    <2>3. PICK items : items = Allocations(call.wanted, call.overrides)
        OBVIOUS
    <2>4. PICK f : f = [i \in {j \in DOMAIN items : j[2] = p} |->
                           TakenQuantity(items[i])]
        OBVIOUS
    <2>5. Storable(items) /\ p \in DOMAIN call.wanted
        BY <1>1, <2>2, <2>3
    <2>6. 2 * (SumFunctionOnSet(f, DOMAIN f) - call.wanted[p])
             <= Cardinality(Sharers(call.overrides, p))
        BY <2>2, <2>3, <2>4, <2>5, HandedOut
    <2>7. QED
        BY <2>2, <2>3, <2>4, <2>6 DEF SumFunction
<1>2. BaseInv => AllocationWithinTotal
    BY <1>1 DEF AllocationWithinTotal
<1>3. QED
    BY <1>2, BaseInvariant, PTL

=============================================================================
