------------------------------- MODULE Grocery -------------------------------
(***************************************************************************)
(* One grocery group: its catalogue and stock, its purchases and its       *)
(* distributions, over the ledger of its pot.  One scene mixes all that    *)
(* people do with a group, one request at a time.  In the others requests  *)
(* may overlap: keeping the shop (products, adjustments and purchases),    *)
(* sharing (officers create and work through distributions) and collecting *)
(* (members confirm the items of one).  A scene also says how many run at  *)
(* once and whether the process may crash.                                 *)
(***************************************************************************)
EXTENDS Purchases, Distributions

CONSTANTS
    Shelf,          \* the products explored when requests overlap or all
                    \* operations mix
    MixedQuantity,  \* the quantities explored where all operations mix
    InitialStock,   \* the goods of each where distributions are the subject
    InitialPot,     \* the money of a pot that is not empty
    MaxOverrides,   \* bound on the overrides of a distribution
    MixedOverrides  \* the same where all operations mix

VARIABLES
    scene           \* what this run is about; it never changes

groceryVars == <<scene, product, movement, purchase, distribution, answered,
                 groceryCall, ledger, tx>>

Scene ==
    [desk : {"shop", "share", "collect"}, together : {1, 2}, crashes : BOOLEAN]
    \cup [desk : {"whole"}, together : {1}, crashes : {TRUE}]

\* These scenes begin with an empty catalogue and maybe a filled pot.
FromScratch == scene.desk \in {"shop", "whole"}

\* There is something to share and someone to share it among, as create
\* demands of a distribution, and the names suffice.
ASSUME GroceryAssumption ==
    /\ Shelf \subseteq Product /\ Shelf # {}
    /\ MixedQuantity \subseteq Quantity
    /\ Recipient # {}
    /\ Injection(Shelf, Word) # {}
    /\ InitialStock \in Nat \ {0}
    /\ InitialPot \in Amount
    /\ MaxOverrides \in Nat /\ MixedOverrides \in Nat

-----------------------------------------------------------------------------

\* The products the other scenes find, each with its own name.
NameOnShelf == CHOOSE f \in Injection(Shelf, Word) : TRUE

Stocked(p) ==
    [name |-> <<NameOnShelf[p], "lower">>, active |-> TRUE, deleted |-> FALSE]

\* The distribution the members collect: one unit of every product each.
Ready ==
    [status |-> "ACTIVE",
     items |-> [i \in Recipient \X Shelf |->
                  [status |-> "PENDING", allocated |-> 1, override |-> None,
                   key |-> None]]]

\* The pot of a grocery group: no entry, or the credit of a contribution.
PotInit ==
    ledger \in {<<>>} \cup
        {<<[type |-> "CONTRIBUTION_CREDIT", amount |-> InitialPot,
            balanceAfter |-> InitialPot, ref |-> None, by |-> u]>> : u \in Chair}

GroceryInit ==
    /\ scene \in Scene
    /\ IF FromScratch THEN PotInit ELSE ledger = <<>>
    /\ tx = [c \in Caller |-> None]
    /\ groceryCall = [c \in GroceryCaller |-> None]
    /\ purchase = [b \in Purchase |-> None]
    /\ answered = {}
    /\ IF FromScratch
       THEN /\ product = [p \in Product |-> None]
            /\ movement = EmptyBag
       ELSE /\ product = [p \in Product |-> IF p \in Shelf THEN Stocked(p) ELSE None]
            /\ movement = SetToBag({Movement(p, "ADJUSTMENT", InitialStock, None) :
                                       p \in Shelf})
    /\ \E d \in Distribution :
          distribution = [e \in Distribution |->
              IF e = d /\ scene.desk = "collect" THEN Ready ELSE None]

Alone == scene.together = 1

\* No more requests than the scene allows are under way.
Room == Cardinality({c \in GroceryCaller : groceryCall[c] # None}) < scene.together

-----------------------------------------------------------------------------

\* The quantities of the requests of this scene.
Dealt == IF scene.desk = "whole" THEN MixedQuantity ELSE Quantity

StockStep(c) ==
    /\ \/ /\ Room
          /\ \E p \in Product, change \in Dealt \cup {-q : q \in Dealt} :
                ReadForAdjust(c, p, change)
       \/ WeighAdjust(c)
       \/ InsertAdjust(c)
    /\ UNCHANGED <<purchase, distribution, answered, ledger, tx>>

\* The products beyond the shelf are explored where nothing else mixes in.
Offered == IF scene.desk = "shop" /\ Alone THEN Product ELSE Shelf

ProductStep(c) ==
    /\ \/ /\ Room
          /\ \E p \in Offered :
                \/ \E name \in ProductName : ReadForCreate(c, p, name)
                \/ \E name \in ProductName \cup {None},
                      active \in BOOLEAN \cup {None} :
                      ReadForUpdate(c, p, name, active)
                \/ ReadForDelete(c, p)
       \/ InsertProduct(c)
       \/ ApplyUpdate(c)
       \/ Deactivate(c)
       \/ Delete(c)
    /\ UNCHANGED <<purchase, distribution, answered, ledger, tx>>

PurchaseStep(c) ==
    /\ \/ /\ Room
          /\ \E b \in Purchase, by \in User :
                \/ \E lines \in Basket :
                      /\ \A p \in DOMAIN lines : lines[p][1] \in Dealt
                      /\ CreatePurchase(c, b, lines, by)
                \/ \E pc \in {"approve", "reject"} : ReadForReview(c, b, pc, by)
       \/ InsertPurchase(c)
       \/ ApprovePurchase(c)
       \/ RejectPurchase(c)
       \/ ReceiveGoods(c)
       \/ StartPurchaseDebit(c)
       \/ EndPurchaseDebit(c)
    /\ UNCHANGED <<distribution, answered>>

\* Overrides, also for users who are no members any more.
Overrides(products) ==
    UNION {[s -> Quantity] :
              s \in {s \in SUBSET (User \X products) :
                        IsFiniteSet(s) /\ Cardinality(s) <= MaxOverrides}}

\* The overrides of the distributions of this scene.
OverrideBound == IF scene.desk = "whole" THEN MixedOverrides ELSE MaxOverrides

OfficerStep(c) ==
    /\ \/ /\ Room
          /\ \E d \in Distribution, by \in User :
                \/ \E products \in (SUBSET Offered) \ {{}} :
                      \E wanted \in [products -> Dealt],
                         overrides \in Overrides(products) :
                            /\ Cardinality(DOMAIN overrides) <= OverrideBound
                            /\ CreateDistribution(c, d, wanted, overrides, by)
                \/ \E status \in DistributionStatus : ReadForStatus(c, d, status, by)
                \/ \E i \in Item, status \in ItemStatus :
                      ReadForItemStatus(c, d, i, status, by)
       \/ CheckAvailable(c)
       \/ InsertDistribution(c)
       \/ WriteStatus(c)
       \/ WriteItemStatus(c)
    /\ UNCHANGED <<purchase, ledger, tx>>

\* Keys and their retries are explored in the scene that is about them.
KeyOffered == IF scene.desk = "collect" THEN Key \cup {None} ELSE {None}

MemberStep(c) ==
    /\ \/ /\ Room
          /\ \E d \in Distribution, i \in Item, key \in KeyOffered :
                ReadForConfirm(c, d, i, key, i[1])
       \/ ConfirmItem(c)
       \/ CheckTake(c)
       \/ InsertTake(c)
       \/ StoreAnswer(c)
       \/ CountConfirmed(c)
       \/ Complete(c)
    /\ UNCHANGED <<purchase, ledger, tx>>

\* The process dies: every request and every open transaction with it.
GroceryCrash ==
    /\ scene.crashes
    /\ \E c \in GroceryCaller : groceryCall[c] # None
    /\ groceryCall' = [c \in GroceryCaller |-> None]
    /\ tx' = [c \in Caller |-> None]
    /\ UNCHANGED <<product, movement, purchase, distribution, answered, ledger>>

GroceryNext ==
    /\ \/ GroceryCrash
       \/ \E c \in GroceryCaller :
             \/ FromScratch /\ (ProductStep(c) \/ PurchaseStep(c))
             \/ (FromScratch \/ (scene.desk = "share" /\ Alone)) /\ StockStep(c)
             \/ scene.desk \in {"whole", "share"} /\ OfficerStep(c)
             \/ scene.desk \in {"whole", "share", "collect"} /\ MemberStep(c)
    /\ UNCHANGED scene

GrocerySpec == GroceryInit /\ [][GroceryNext]_groceryVars

-----------------------------------------------------------------------------
(* Properties. *)

CatalogueCall ==
    [pc : {"weigh", "adjust"}, id : Product, change : Change]
    \cup [pc : {"create"}, id : Product, name : ProductName]
    \cup [pc : {"rename"}, id : Product, name : ProductName \cup {None},
          active : BOOLEAN \cup {None}]
    \cup [pc : {"deactivate", "delete"}, id : Product]

PurchaseCall ==
    [pc : {"buy"}, id : Purchase, lines : Basket, by : Officer]
    \cup [pc : {"approve", "reject", "stock", "debit", "ledger"},
          id : Purchase, by : Officer]

ShareCall(call) ==
    /\ call.pc \in {"available", "share"}
    /\ call.id \in Distribution
    /\ \E products \in SUBSET Product : call.wanted \in [products -> Quantity]
    /\ call.overrides \in Overrides(DOMAIN call.wanted)
    /\ call.left \subseteq DOMAIN call.wanted

\* Every row and every request has its type; an item is never stored with
\* nothing in it.
GroceryTypeOK ==
    /\ product \in [Product -> ProductRow \cup {None}]
    /\ purchase \in [Purchase -> PurchaseRow \cup {None}]
    /\ answered \subseteq Key
    /\ IsABag(movement)
    /\ \A m \in DOMAIN movement :
          m.product \in Product /\ m.type \in {"IN", "OUT", "ADJUSTMENT"}
                                /\ m.quantity > 0
    /\ \A d \in Distribution : distribution[d] # None =>
          /\ distribution[d].status \in DistributionStatus
          /\ \A i \in DOMAIN distribution[d].items :
                i \in Item /\ distribution[d].items[i] \in ItemRow
                           /\ distribution[d].items[i].allocated > 0
    /\ \A c \in GroceryCaller : groceryCall[c] # None =>
          \/ groceryCall[c] \in CatalogueCall \cup PurchaseCall \cup DistributionCall
          \/ ShareCall(groceryCall[c])

\* What the losses entered for a product come to.
WrittenOff(p) ==
    SumFunctionOnSet([m \in DOMAIN movement |-> movement[m] * m.quantity],
                     {m \in DOMAIN movement : m.product = p /\ m.loss})

\* What is there of a product: the recorded stock counts its losses as gains.
OnHand(p) == Stock(p) - 2 * WrittenOff(p)

\* With one request at a time nobody takes goods that are not there, across
\* crashes and in every mix of purchases, adjustments, distributions and
\* confirmations, although a distribution reserves nothing and the stock is
\* taken long after it was created: as long as no loss of the product was
\* entered.
NeverOversold ==
    Alone => \A p \in Product : WrittenOff(p) = 0 => OnHand(p) >= 0

\* The same when losses were entered ("Negative = remove stock.  But we still
\* need to prevent going negative").
OnHandNeverNegative == Alone => \A p \in Product : OnHand(p) >= 0

\* The pot pays for goods that are there: a purchase is debited at most as
\* often as its goods came in, and only once someone approved it, even when
\* officers approve and reject it at the same time and the process dies
\* between the writes.  The converse fails: the debit may be refused.
GoodsBeforeMoney ==
    \A b \in Purchase :
        /\ Cardinality(Debits(b)) <= TimesReceived(b)
        /\ TimesReceived(b) > 0 => purchase[b].approvedBy # None

\* With one request at a time a purchase comes into stock and is debited at
\* most once, and never if it was rejected.
PurchaseBookedOnce ==
    Alone => \A b \in Purchase :
        /\ TimesReceived(b) <= 1
        /\ TimesReceived(b) = 1 => purchase[b].status = "APPROVED"

\* With one request at a time a deleted product has no history but purchases
\* entered before it was deleted and approved later, and distributions that
\* hand out no more than those brought.
DeletedOnlyBought ==
    Alone => \A p \in Product : product[p] # None /\ product[p].deleted =>
        /\ \A m \in DOMAIN movement : m.product = p => m.type # "ADJUSTMENT"
        /\ Stock(p) >= 0

\* With one request at a time no two products of the group have names that
\* differ in case only; the unique index alone would admit them.
NamesUnambiguous ==
    Alone => \A p, q \in Product :
        Live(p) /\ Live(q) /\ product[p].name[1] = product[q].name[1] => p = q

\* With one request at a time a confirmed item stays confirmed and leaves the
\* stock no more once its confirmation is through, whatever officers set and
\* members repeat, across crashes.
ConfirmedIsFinal ==
    [][\A d \in Distribution, i \in Item :
          /\ Alone
          /\ HasItem(d, i)
          /\ distribution[d].items[i].status = "CONFIRMED"
          /\ \A c \in GroceryCaller : ~ GroceryAt(c, "take") /\ ~ GroceryAt(c, "out")
          => /\ distribution'[d].items[i].status = "CONFIRMED"
             /\ TimesTaken(d, i)' = TimesTaken(d, i)]_groceryVars

\* The members' last confirmations complete the distribution, whoever comes
\* last and however they overlap: each looks only after its own was written.
\* (Confirmations whose stock movement threw do not look.)
CompletesWhenConfirmed ==
    \A d \in Distribution :
        /\ scene.desk = "collect" /\ ~ scene.crashes
        /\ distribution[d] # None
        /\ \A c \in GroceryCaller : groceryCall[c] = None
        /\ \A i \in DOMAIN distribution[d].items :
              WasTaken(d, i) /\ ~ Uncollected(i[1], d, i)
        => distribution[d].status = "COMPLETED"

\* What members alone take out of the stock is in their history, even while
\* confirmations overlap and crash; and a member who confirms again, with the
\* same key, another or none, after an answer or after a crash, takes the item
\* at most once as long as the requests do not overlap.
MemberTakesOnce ==
    scene.desk = "collect" =>
        \A d \in Distribution, i \in Item :
            /\ WasTaken(d, i) => Received(i[1], d, i)
            /\ Alone => TimesTaken(d, i) <= 1

\* The items of a distribution hand out no more of a product than was asked
\* for, up to the rounding of the shares: overrides that exceed the quantity
\* are refused only by the CHECK on the shares of the others.
AllocationWithinTotal ==
    \A c \in GroceryCaller : GroceryAt(c, "share") =>
        LET call == groceryCall[c]
            items == Allocations(call.wanted, call.overrides)
            Handed(p) == SumFunction([i \in {j \in DOMAIN items : j[2] = p} |->
                                         TakenQuantity(items[i])])
        IN Storable(items) => \A p \in DOMAIN call.wanted :
              2 * (Handed(p) - call.wanted[p])
                 <= Cardinality(Sharers(call.overrides, p))

\* The stock officers are shown is never negative ("Distribution quantities
\* validated against available stock").
ShownStockNeverNegative == \A p \in DOMAIN CurrentStock : CurrentStock[p] >= 0

=============================================================================
