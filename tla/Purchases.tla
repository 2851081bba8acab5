------------------------------ MODULE Purchases ------------------------------
(***************************************************************************)
(* Purchases of one grocery group: PurchaseService of backend-nest.  A     *)
(* purchase within the group's rules is approved as it is entered, a       *)
(* larger one by an officer.  Approval is three writes in a row, the       *)
(* status, the goods that come into stock and the debit of the pot; only   *)
(* the ledger's own transaction guards the last one.                       *)
(***************************************************************************)
EXTENDS Catalogue

CONSTANTS
    Purchase,     \* ids of grocery_purchases rows
    Price,        \* unit prices
    Threshold,    \* rules.grocery.purchaseApprovalThreshold, 0 if unset
    AutoBelow     \* rules.grocery.autoApproveBelow, 0 if unset

VARIABLES
    purchase      \* rows of grocery_purchases, with their line items

\* The lines of a purchase, one per product: quantity and unit price.
Basket == UNION {[lines -> Quantity \X Price] : lines \in (SUBSET Product) \ {{}}}

PurchaseRow == [status : {"PENDING_APPROVAL", "APPROVED", "REJECTED"},
                lines : Basket, approvedBy : User \cup {None}]

ASSUME PurchaseAssumption ==
    /\ Purchase \subseteq Ref
    /\ Price \subseteq Nat \ {0}
    /\ Threshold \in Nat /\ AutoBelow \in Nat
    /\ None \notin PurchaseRow \cup Purchase \cup User

-----------------------------------------------------------------------------

\* calculatedTotal: the sum of quantity times unit price.
Total(lines) ==
    SumFunction([p \in DOMAIN lines |-> lines[p][1] * lines[p][2]])

\* The status rule of create.
NeedsApproval(lines) ==
    Total(lines) > AutoBelow /\ Threshold > 0 /\ Total(lines) > Threshold

\* The products exist, are active and not deleted.
CreatePurchase(c, b, lines, by) ==
    /\ FreshId(purchase, b)
    /\ MayManage(by)
    /\ \A p \in DOMAIN lines : Live(p) /\ product[p].active
    /\ GroceryStart(c, [pc |-> "buy", id |-> b, lines |-> lines, by |-> by])
    /\ UNCHANGED <<product, movement, purchase, ledger, tx>>

\* The row and its lines are inserted; an approved purchase is processed.
InsertPurchase(c) ==
    LET call == groceryCall[c]
        pending == NeedsApproval(call.lines)
    IN
    /\ GroceryAt(c, "buy")
    /\ purchase' = [purchase EXCEPT ![call.id] =
          [status |-> IF pending THEN "PENDING_APPROVAL" ELSE "APPROVED",
           lines |-> call.lines,
           approvedBy |-> IF pending THEN None ELSE call.by]]
    /\ groceryCall' = [groceryCall EXCEPT ![c] =
          IF pending THEN None
          ELSE [pc |-> "stock", id |-> call.id, by |-> call.by]]
    /\ UNCHANGED <<product, movement, ledger, tx>>

\* approve and reject read the row and its status.
ReadForReview(c, b, pc, by) ==
    /\ purchase[b] # None
    /\ purchase[b].status = "PENDING_APPROVAL"
    /\ MayManage(by)
    /\ GroceryStart(c, [pc |-> pc, id |-> b, by |-> by])
    /\ UNCHANGED <<product, movement, purchase, ledger, tx>>

\* The status is written without another look at it.
ApprovePurchase(c) ==
    LET call == groceryCall[c] IN
    /\ GroceryAt(c, "approve")
    /\ purchase' = [purchase EXCEPT ![call.id].status = "APPROVED",
                                    ![call.id].approvedBy = call.by]
    /\ GroceryGoto(c, "stock")
    /\ UNCHANGED <<product, movement, ledger, tx>>

\* Faulty variant: a rejected purchase is processed like an approved one.
RejectPurchaseOn(c) ==
    /\ GroceryAt(c, "reject")
    /\ purchase' = [purchase EXCEPT ![groceryCall[c].id].status = "REJECTED"]
    /\ GroceryGoto(c, "stock")
    /\ UNCHANGED <<product, movement, ledger, tx>>

RejectPurchase(c) ==
    /\ GroceryAt(c, "reject")
    /\ purchase' = [purchase EXCEPT ![groceryCall[c].id].status = "REJECTED"]
    /\ GroceryReturn(c)
    /\ UNCHANGED <<product, movement, ledger, tx>>

-----------------------------------------------------------------------------
(* processPurchaseApproval *)

\* The IN movements of a purchase's lines.
Receipts(b) ==
    {Movement(p, "IN", purchase[b].lines[p][1], b) :
        p \in DOMAIN purchase[b].lines}

\* Faulty variant: the goods come in only after the pot was debited.
ReceiveGoodsLater(c) ==
    /\ GroceryAt(c, "stock")
    /\ GroceryGoto(c, "debit")
    /\ UNCHANGED <<product, movement, purchase, ledger, tx>>

\* All the goods come in together, in one transaction.
ReceiveGoods(c) ==
    /\ GroceryAt(c, "stock")
    /\ Insert(Receipts(groceryCall[c].id))
    /\ GroceryGoto(c, "debit")
    /\ UNCHANGED <<product, purchase, ledger, tx>>

\* createEntry opens the ledger transaction.
StartPurchaseDebit(c) ==
    LET call == groceryCall[c] IN
    /\ GroceryAt(c, "debit")
    /\ DebitPurchase(c, call.id, Total(purchase[call.id].lines), call.by)
    /\ GroceryGoto(c, "ledger")
    /\ UNCHANGED <<product, movement, purchase>>

\* createEntry returns or throws; either way the other writes stay.
EndPurchaseDebit(c) ==
    /\ GroceryAt(c, "ledger")
    /\ CommitEntry(c) \/ AbortEntry(c)
    /\ GroceryReturn(c)
    /\ UNCHANGED <<product, movement, purchase>>

-----------------------------------------------------------------------------
(* What the rows say of a purchase. *)

Debits(b) == {i \in DOMAIN ledger : ledger[i].ref = b}

\* How often the goods of a purchase came in.
TimesReceived(b) ==
    IF purchase[b] = None THEN 0
    ELSE SumFunctionOnSet(movement,
            {m \in DOMAIN movement : m.type = "IN" /\ m.ref = b})
         \div Cardinality(DOMAIN purchase[b].lines)

=============================================================================
