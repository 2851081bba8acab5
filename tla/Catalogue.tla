------------------------------ MODULE Catalogue ------------------------------
(***************************************************************************)
(* The products of one grocery group and the movements of their stock:     *)
(* ProductService and StockService of backend-nest.  No stock level is     *)
(* stored: it is the sum of the movement rows, which are only ever         *)
(* inserted.  Their order tells nothing apart, so they are kept as a bag.  *)
(***************************************************************************)
EXTENDS SavingsGroup, Bags

CONSTANTS
    Product,        \* ids of grocery_products rows
    Word,           \* product names up to case
    Quantity,       \* quantities in play, in the smallest unit
    GroceryCaller,  \* requests to the grocery services in flight at once
    MaxMovements    \* bound on the movements adjustments add up to

VARIABLES
    product,        \* rows of grocery_products
    movement,       \* rows of grocery_stock_movements
    groceryCall     \* the handler each caller is running

catalogueVars == <<product, movement, groceryCall>>

\* A name is a word in one of two spellings.
ProductName == Word \X {"lower", "upper"}

ProductRow == [name : ProductName, active : BOOLEAN, deleted : BOOLEAN]

Change == Quantity \cup {-q : q \in Quantity}

ASSUME CatalogueAssumption ==
    /\ Quantity \subseteq Nat \ {0}
    /\ IsFiniteSet(Product)
    /\ GroceryCaller \subseteq Caller
    /\ IsFiniteSet(GroceryCaller)
    /\ MaxMovements \in Nat
    /\ None \notin ProductRow

-----------------------------------------------------------------------------

GroceryAt(c, pc) == groceryCall[c] # None /\ groceryCall[c].pc = pc

GroceryGoto(c, pc) == groceryCall' = [groceryCall EXCEPT ![c].pc = pc]

\* The handler returns or throws.
GroceryReturn(c) == groceryCall' = [groceryCall EXCEPT ![c] = None]

\* A request has passed its first checks and goes on as the given record.
GroceryStart(c, call) ==
    /\ groceryCall[c] = None
    /\ groceryCall' = [groceryCall EXCEPT ![c] = call]

\* No row has this id and no request under way will give it to one.
FreshId(table, id) ==
    /\ table[id] = None
    /\ \A d \in GroceryCaller :
          groceryCall[d] # None => groceryCall[d].id # id

\* Every route that writes lets a treasurer or chairperson of the group pass.
MayManage(u) == u \in Officer

-----------------------------------------------------------------------------
(* Stock. *)

\* What a movement does to the stock, as the CASE of getProductStock says.
StockDelta(m) == IF m.type = "OUT" THEN -m.quantity ELSE m.quantity

\* getProductStock: active or not, deleted or not.
Stock(p) ==
    SumFunctionOnSet([m \in DOMAIN movement |-> movement[m] * StockDelta(m)],
                     {m \in DOMAIN movement : m.product = p})

\* getCurrentStock lists the active products that have ever moved.
CurrentStock ==
    [p \in {m.product : m \in DOMAIN movement}
             \cap {p \in Product : product[p] # None /\ product[p].active}
        |-> Stock(p)]

\* Faulty variant: only a stock already below zero is noticed.
AvailableUnlessNegative(p, quantity) == Stock(p) >= 0

\* checkAvailability
Available(p, quantity) == Stock(p) >= quantity

\* A row of grocery_stock_movements; the quantity is stored without its sign.
\* That the row was asked for as a loss is history, no column says it.
Movement(p, type, quantity, ref) ==
    [product |-> p, type |-> type, ref |-> ref, loss |-> quantity < 0,
     quantity |-> IF quantity < 0 THEN -quantity ELSE quantity]

\* createMovement and createPurchaseMovements insert rows.
Insert(movements) == movement' = movement (+) SetToBag(movements)

\* A row that is not deleted, as findFirst with deletedAt: null returns it.
Live(p) == product[p] # None /\ ~ product[p].deleted

\* createAdjustment: the product exists; a decrease is checked first.
ReadForAdjust(c, p, change) ==
    /\ BagCardinality(movement) < MaxMovements
    /\ Live(p)
    /\ GroceryStart(c, [pc |-> IF change < 0 THEN "weigh" ELSE "adjust",
                        id |-> p, change |-> change])
    /\ UNCHANGED <<product, movement>>

\* createMovement refuses a decrease below zero.
WeighAdjust(c) ==
    /\ GroceryAt(c, "weigh")
    /\ IF Stock(groceryCall[c].id) + groceryCall[c].change < 0
       THEN GroceryReturn(c)
       ELSE GroceryGoto(c, "adjust")
    /\ UNCHANGED <<product, movement>>

InsertAdjust(c) ==
    /\ GroceryAt(c, "adjust")
    /\ Insert({Movement(groceryCall[c].id, "ADJUSTMENT",
                        groceryCall[c].change, None)})
    /\ GroceryReturn(c)
    /\ UNCHANGED product

-----------------------------------------------------------------------------
(* Products.  Two lookups in a row that both only refuse are one step. *)

\* Faulty variant: names are compared as they are spelled.
DuplicateExact(p, name) ==
    \E q \in Product \ {p} : Live(q) /\ product[q].name = name

\* The lookup for another product of the name, case ignored.
Duplicate(p, name) ==
    \E q \in Product \ {p} : Live(q) /\ product[q].name[1] = name[1]

\* The unique index over group and name compares spellings, of deleted rows too.
NameStored(p, name) ==
    \E q \in Product \ {p} : product[q] # None /\ product[q].name = name

ReadForCreate(c, p, name) ==
    /\ FreshId(product, p)
    /\ ~ Duplicate(p, name)
    /\ GroceryStart(c, [pc |-> "create", id |-> p, name |-> name])
    /\ UNCHANGED <<product, movement>>

InsertProduct(c) ==
    LET call == groceryCall[c] IN
    /\ GroceryAt(c, "create")
    /\ product' = IF NameStored(call.id, call.name) THEN product
                  ELSE [product EXCEPT ![call.id] =
                          [name |-> call.name, active |-> TRUE,
                           deleted |-> FALSE]]
    /\ GroceryReturn(c)
    /\ UNCHANGED movement

\* A name that changes is looked up first; both fields may be left out.
ReadForUpdate(c, p, name, active) ==
    /\ Live(p)
    /\ name \notin {None, product[p].name} => ~ Duplicate(p, name)
    /\ GroceryStart(c, [pc |-> "rename", id |-> p, name |-> name,
                        active |-> active])
    /\ UNCHANGED <<product, movement>>

ApplyUpdate(c) ==
    LET call == groceryCall[c] IN
    /\ GroceryAt(c, "rename")
    /\ product' = IF call.name # None /\ NameStored(call.id, call.name)
                  THEN product
                  ELSE [product EXCEPT
                          ![call.id].name = Given(call.name, @),
                          ![call.id].active = Given(call.active, @)]
    /\ GroceryReturn(c)
    /\ UNCHANGED movement

\* Faulty variant: only goods that were bought or taken count as a history.
HasReference(p) == \E m \in DOMAIN movement : m.product = p /\ m.ref # None

\* softDelete looks for any movement of the product.
HasMoved(p) == \E m \in DOMAIN movement : m.product = p

ReadForDelete(c, p) ==
    /\ Live(p)
    /\ GroceryStart(c, [pc |-> IF HasMoved(p) THEN "deactivate" ELSE "delete",
                        id |-> p])
    /\ UNCHANGED <<product, movement>>

\* A product with a history is only switched off, and the handler throws.
Deactivate(c) ==
    /\ GroceryAt(c, "deactivate")
    /\ product' = [product EXCEPT ![groceryCall[c].id].active = FALSE]
    /\ GroceryReturn(c)
    /\ UNCHANGED movement

Delete(c) ==
    /\ GroceryAt(c, "delete")
    /\ product' = [product EXCEPT ![groceryCall[c].id].deleted = TRUE]
    /\ GroceryReturn(c)
    /\ UNCHANGED movement

=============================================================================
