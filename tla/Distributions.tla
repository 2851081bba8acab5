---------------------------- MODULE Distributions ----------------------------
(***************************************************************************)
(* Sharing out the stock of one grocery group: DistributionService of      *)
(* backend-nest.  Creating a distribution looks at the stock and takes     *)
(* nothing; an item leaves the stock when an officer marks it collected    *)
(* or its member confirms it, after its status was written.                *)
(***************************************************************************)
EXTENDS Catalogue

CONSTANTS
    Distribution,   \* ids of grocery_distributions rows
    Recipient       \* the users with an ACTIVE membership of the group

VARIABLES
    distribution,   \* rows of grocery_distributions, with their items
    answered        \* the keys in grocery_idempotency_keys

distributionVars == <<distribution, answered, product, movement, groceryCall>>

\* PACKED is left out: the service treats it as PENDING everywhere.
ItemStatus == {"PENDING", "COLLECTED", "CONFIRMED", "CANCELLED"}

\* Statuses an officer may ask for that take the item out of the stock.
Taken == {"COLLECTED", "CONFIRMED"}

\* An item is the share of a member in a product.
Item == Recipient \X Product

ItemRow == [status : ItemStatus, allocated : Int,
            override : Quantity \cup {None}, key : Key \cup {None}]

DistributionStatus == {"ACTIVE", "COMPLETED", "CANCELLED"}

DistributionRow == [status : DistributionStatus,
                    items : UNION {[s -> ItemRow] : s \in SUBSET Item}]

\* A handler at work on an item, or on the status of a distribution.
DistributionCall ==
    [pc : {"set", "confirm", "take", "out", "answer", "count", "complete"},
     op : {"set", "confirm", "answer"}, id : Distribution, item : Item,
     status : ItemStatus, key : Key \cup {None}, collected : BOOLEAN]
    \cup [pc : {"status"}, id : Distribution, status : DistributionStatus]

ASSUME DistributionAssumption ==
    /\ Recipient \subseteq User
    /\ IsFiniteSet(Recipient)
    /\ None \notin Quantity \cup DistributionRow \cup DistributionCall

-----------------------------------------------------------------------------
(* calculateAllocations *)

\* The override a member has for a product, None if there is none.
OverrideOf(overrides, i) == IF i \in DOMAIN overrides THEN overrides[i] ELSE None

Sharers(overrides, p) == {m \in Recipient : <<m, p>> \notin DOMAIN overrides}

\* What the overrides for a product leave of its quantity.  An override for a
\* user who has left the group counts as well.
Remaining(wanted, overrides, p) ==
    wanted[p] - SumFunctionOnSet(overrides, {i \in DOMAIN overrides : i[2] = p})

\* Faulty variant: the quantity is shared as if there were no overrides.
EqualShareOfAll(wanted, overrides, p) ==
    LET n == Cardinality(Sharers(overrides, p)) IN
    IF n = 0 THEN 0 ELSE (2 * wanted[p] + n) \div (2 * n)

\* The rest in equal shares, rounded half up when it is stored; nothing if
\* every member has an override.
EqualShare(wanted, overrides, p) ==
    LET n == Cardinality(Sharers(overrides, p)) IN
    IF n = 0 THEN 0 ELSE (2 * Remaining(wanted, overrides, p) + n) \div (2 * n)

\* The items of a new distribution: every member has one for every product.
Allocations(wanted, overrides) ==
    [i \in Recipient \X DOMAIN wanted |->
        [status |-> "PENDING", allocated |-> EqualShare(wanted, overrides, i[2]),
         override |-> OverrideOf(overrides, i), key |-> None]]

\* Faulty variant: empty shares are stored as well.
StorableEmpty(items) == \A i \in DOMAIN items : items[i].allocated >= 0

\* The CHECK of the table: quantity_allocated > 0.
Storable(items) == \A i \in DOMAIN items : items[i].allocated > 0

\* The quantity that leaves the stock: the override if there is one.
TakenQuantity(item) ==
    IF item.override # None THEN item.override ELSE item.allocated

-----------------------------------------------------------------------------
(* create *)

\* There are active members to share among.
CreateDistribution(c, d, wanted, overrides, by) ==
    /\ FreshId(distribution, d)
    /\ MayManage(by)
    /\ Recipient # {}
    /\ GroceryStart(c, [pc |-> "available", id |-> d, wanted |-> wanted,
                        overrides |-> overrides, left |-> DOMAIN wanted])
    /\ UNCHANGED <<product, movement, distribution, answered>>

\* Product by product the stock is compared with what is to be shared.
CheckAvailable(c) ==
    LET call == groceryCall[c] IN
    /\ GroceryAt(c, "available")
    /\ \E p \in call.left :
          groceryCall' = [groceryCall EXCEPT ![c] =
             IF ~ Available(p, call.wanted[p]) THEN None
             ELSE [call EXCEPT !.left = @ \ {p},
                               !.pc = IF call.left = {p} THEN "share" ELSE @]]
    /\ UNCHANGED <<product, movement, distribution, answered>>

\* The rows are inserted in one transaction, or the CHECK throws.
InsertDistribution(c) ==
    LET call == groceryCall[c]
        items == Allocations(call.wanted, call.overrides)
    IN
    /\ GroceryAt(c, "share")
    /\ distribution' = IF ~ Storable(items) THEN distribution
                       ELSE [distribution EXCEPT ![call.id] =
                               [status |-> "ACTIVE", items |-> items]]
    /\ GroceryReturn(c)
    /\ UNCHANGED <<product, movement, answered>>

-----------------------------------------------------------------------------
(* updateStatus *)

\* Only an active distribution has transitions: to completed or cancelled.
ReadForStatus(c, d, status, by) ==
    /\ distribution[d] # None
    /\ distribution[d].status = "ACTIVE"
    /\ status \in {"COMPLETED", "CANCELLED"}
    /\ MayManage(by)
    /\ GroceryStart(c, [pc |-> "status", id |-> d, status |-> status])
    /\ UNCHANGED <<product, movement, distribution, answered>>

WriteStatus(c) ==
    /\ GroceryAt(c, "status")
    /\ distribution' = [distribution EXCEPT ![groceryCall[c].id].status =
                           groceryCall[c].status]
    /\ GroceryReturn(c)
    /\ UNCHANGED <<product, movement, answered>>

-----------------------------------------------------------------------------
(* updateItemStatus and confirmItem *)

\* The handler keeps the item as it read it: whether it was collected decides
\* later whether stock is taken.
ItemCall(pc, d, i, status, key) ==
    [pc |-> pc, op |-> pc, id |-> d, item |-> i, status |-> status, key |-> key,
     collected |-> distribution[d].items[i].status = "COLLECTED"]

HasItem(d, i) == distribution[d] # None /\ i \in DOMAIN distribution[d].items

\* Faulty variant: a confirmed item may be set to another status.
ReadForItemStatusAlways(c, d, i, status, by) ==
    /\ HasItem(d, i)
    /\ MayManage(by)
    /\ GroceryStart(c, ItemCall("set", d, i, status, None))
    /\ UNCHANGED <<product, movement, distribution, answered>>

\* An officer sets any status on an item that is not confirmed, whatever the
\* status of its distribution.
ReadForItemStatus(c, d, i, status, by) ==
    /\ HasItem(d, i)
    /\ MayManage(by)
    /\ distribution[d].items[i].status # "CONFIRMED"
    /\ GroceryStart(c, ItemCall("set", d, i, status, None))
    /\ UNCHANGED <<product, movement, distribution, answered>>

\* Faulty variant: only the key tells a confirmation that was made before.
ReadForConfirmByKey(c, d, i, key, by) ==
    /\ HasItem(d, i)
    /\ i[1] = by
    /\ key \notin answered
    /\ GroceryStart(c, ItemCall("confirm", d, i, "CONFIRMED", key))
    /\ UNCHANGED <<product, movement, distribution, answered>>

\* The key is not answered yet and the item belongs to the member who asks; an
\* item already confirmed only has its answer stored.
ReadForConfirm(c, d, i, key, by) ==
    /\ HasItem(d, i)
    /\ i[1] = by
    /\ key \notin answered
    /\ distribution[d].items[i].status = "CONFIRMED" => key # None
    /\ GroceryStart(c, ItemCall(
          IF distribution[d].items[i].status = "CONFIRMED" THEN "answer"
          ELSE "confirm", d, i, "CONFIRMED", key))
    /\ UNCHANGED <<product, movement, distribution, answered>>

\* The unique index on the items' idempotency_key.
ItemKeyFree(d, i, key) ==
    key # None =>
        \A e \in Distribution : distribution[e] # None =>
            \A j \in DOMAIN distribution[e].items :
                distribution[e].items[j].key = key => e = d /\ j = i

\* The item a handler works on, as it is stored by now.
TheItem(call) == distribution[call.id].items[call.item]

SetItem(d, i, item) ==
    distribution' = [distribution EXCEPT ![d].items[i] = item]

\* Stock is still to be taken, by the status that was read.
TakesStock(call) == call.status \in Taken /\ ~ call.collected

\* The officer's update, unconditional on the status the row has by now.
WriteItemStatus(c) ==
    LET call == groceryCall[c] IN
    /\ GroceryAt(c, "set")
    /\ SetItem(call.id, call.item, [TheItem(call) EXCEPT !.status = call.status])
    /\ IF TakesStock(call) THEN GroceryGoto(c, "take") ELSE GroceryReturn(c)
    /\ UNCHANGED <<product, movement, answered>>

\* The member's update; the unique index on the key may throw.
ConfirmItem(c) ==
    LET call == groceryCall[c] IN
    /\ GroceryAt(c, "confirm")
    /\ IF ~ ItemKeyFree(call.id, call.item, call.key)
       THEN UNCHANGED distribution /\ GroceryReturn(c)
       ELSE /\ SetItem(call.id, call.item,
                       [TheItem(call) EXCEPT !.status = "CONFIRMED",
                                             !.key = Given(call.key, @)])
            /\ GroceryGoto(c, IF TakesStock(call) THEN "take" ELSE "answer")
    /\ UNCHANGED <<product, movement, answered>>

\* createMovement looks at the stock once more and throws if it is short; the
\* status stays as written.
CheckTake(c) ==
    LET call == groceryCall[c] IN
    /\ GroceryAt(c, "take")
    /\ IF Available(call.item[2], TakenQuantity(TheItem(call)))
       THEN GroceryGoto(c, "out")
       ELSE GroceryReturn(c)
    /\ UNCHANGED <<product, movement, distribution, answered>>

\* The OUT movement; a confirmation goes on to store its answer.
InsertTake(c) ==
    LET call == groceryCall[c] IN
    /\ GroceryAt(c, "out")
    /\ Insert({Movement(call.item[2], "OUT",
                        TakenQuantity(TheItem(call)),
                        <<call.id, call.item>>)})
    /\ IF call.op = "set" THEN GroceryReturn(c) ELSE GroceryGoto(c, "answer")
    /\ UNCHANGED <<product, distribution, answered>>

\* storeIdempotencyKey upserts the answer under the key, if there is one.
StoreAnswer(c) ==
    LET call == groceryCall[c] IN
    /\ GroceryAt(c, "answer")
    /\ answered' = answered \cup ({call.key} \ {None})
    /\ IF call.op = "answer" THEN GroceryReturn(c) ELSE GroceryGoto(c, "count")
    /\ UNCHANGED <<product, movement, distribution>>

\* Faulty variant: the items collected are counted.
AllCollected(d) ==
    \A i \in DOMAIN distribution[d].items :
        distribution[d].items[i].status = "COLLECTED"

\* Every item of the distribution is confirmed.
AllConfirmed(d) ==
    \A i \in DOMAIN distribution[d].items :
        distribution[d].items[i].status = "CONFIRMED"

\* checkDistributionCompletion counts the items by status.
CountConfirmed(c) ==
    /\ GroceryAt(c, "count")
    /\ IF AllConfirmed(groceryCall[c].id)
       THEN GroceryGoto(c, "complete")
       ELSE GroceryReturn(c)
    /\ UNCHANGED <<product, movement, distribution, answered>>

\* The distribution is completed, even one that was cancelled meanwhile.
Complete(c) ==
    /\ GroceryAt(c, "complete")
    /\ distribution' = [distribution EXCEPT ![groceryCall[c].id].status =
                           "COMPLETED"]
    /\ GroceryReturn(c)
    /\ UNCHANGED <<product, movement, answered>>

-----------------------------------------------------------------------------
(* Reads. *)

\* getMemberAllocations lists the item as one the member still has to collect.
Uncollected(m, d, i) ==
    /\ HasItem(d, i)
    /\ i[1] = m
    /\ distribution[d].status = "ACTIVE"
    /\ distribution[d].items[i].status \notin {"CONFIRMED", "CANCELLED"}

\* getMemberHistory lists the item as one the member has confirmed.
Received(m, d, i) ==
    /\ HasItem(d, i)
    /\ i[1] = m
    /\ distribution[d].items[i].status = "CONFIRMED"

\* An item was taken out of the stock.
WasTaken(d, i) ==
    \E m \in DOMAIN movement : m.type = "OUT" /\ m.ref = <<d, i>>

\* How often an item was taken out of the stock.
TimesTaken(d, i) ==
    SumFunctionOnSet(movement, {m \in DOMAIN movement :
                                   m.type = "OUT" /\ m.ref = <<d, i>>})

=============================================================================
