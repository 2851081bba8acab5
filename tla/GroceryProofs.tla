---------------------------- MODULE GroceryProofs ----------------------------
(***************************************************************************)
(* Collecting a distribution: the members' confirmations complete it, and  *)
(* what they take is in their history.  Keeping the shop: names stay       *)
(* unambiguous.  For any members, products, keys and requests in flight.   *)
(***************************************************************************)
EXTENDS Grocery, FiniteSetTheorems, TLAPS

\* A distribution and its items while only members work on them.
CollectItem == [status : {"PENDING", "CONFIRMED"}, allocated : {1},
                override : {None}, key : Key \cup {None}]

CollectRow == [status : {"ACTIVE", "COMPLETED"},
               items : [Recipient \X Shelf -> CollectItem]]

\* The handlers that go on to look whether the distribution is complete.
Looking == {"answer", "count", "complete"}

CollectCall ==
    [pc : {"confirm", "take", "out"} \cup Looking, op : {"confirm", "answer"},
     id : Distribution, item : Recipient \X Shelf, status : {"CONFIRMED"},
     key : Key \cup {None}, collected : {FALSE}]

CollectTypeOK ==
    /\ distribution \in [Distribution -> CollectRow \cup {None}]
    /\ groceryCall \in [GroceryCaller -> CollectCall \cup {None}]

Confirmed(d, i) == distribution[d].items[i].status = "CONFIRMED"

\* The row a handler read is there, and is confirmed once it has written it.
CallFits(call) ==
    /\ distribution[call.id] # None
    /\ call.pc # "confirm" => Confirmed(call.id, call.item)
    /\ call.op = "answer" => call.pc = "answer"

CallsFit ==
    \A c \in GroceryCaller : groceryCall[c] # None => CallFits(groceryCall[c])

\* What is taken is in the member's history.
TakenIsConfirmed ==
    \A d \in Distribution, i \in Item :
        WasTaken(d, i) => Received(i[1], d, i)

Looks(c, d) ==
    /\ groceryCall[c] # None
    /\ groceryCall[c].op = "confirm"
    /\ groceryCall[c].pc \in Looking
    /\ groceryCall[c].id = d

\* A distribution with every item confirmed and taken is completed, or some
\* handler is about to look.
SomeoneLooks ==
    \A d \in Distribution :
        distribution[d] # None /\ AllConfirmed(d) =>
            \/ distribution[d].status = "COMPLETED"
            \/ \E c \in GroceryCaller : Looks(c, d)
            \/ \E i \in Recipient \X Shelf : ~ WasTaken(d, i)

CollectInv ==
    scene.desk = "collect" =>
        /\ CollectTypeOK
        /\ CallsFit
        /\ TakenIsConfirmed
        /\ ~ scene.crashes => SomeoneLooks

-----------------------------------------------------------------------------

LEMMA Assumed ==
    /\ None \notin CollectCall
    /\ None \notin CollectRow
    /\ Recipient \X Shelf \subseteq Item
<1>1. Recipient \X Shelf \subseteq Item
    BY GroceryAssumption DEF Item
<1>2. CollectItem \subseteq ItemRow
    BY DEF CollectItem, ItemRow, ItemStatus
<1>3. ASSUME NEW r \in CollectRow
      PROVE  r \in DistributionRow
    <2>1. r.items \in [Recipient \X Shelf -> ItemRow]
        BY <1>2, <1>3 DEF CollectRow
    <2>2. r.items \in UNION {[s -> ItemRow] : s \in SUBSET Item}
        BY <2>1, <1>1
    <2>3. QED
        BY <2>2 DEF CollectRow, DistributionRow, DistributionStatus
<1>4. CollectCall \subseteq DistributionCall
    BY <1>1 DEF CollectCall, DistributionCall, Looking, ItemStatus
<1>5. QED
    BY <1>1, <1>3, <1>4, DistributionAssumption

\* Inserting a movement adds it and takes none away.
LEMMA InsertAdds ==
    ASSUME NEW x, Insert({x})
    PROVE  DOMAIN movement' = DOMAIN movement \cup {x}
BY DEF Insert, (+), SetToBag

\* What a handler that only moves on leaves for the others to look at.
MovesOn(c, x) ==
    /\ x \in CollectCall \cup {None}
    /\ x # None => CallFits(x)
    /\ groceryCall' = [groceryCall EXCEPT ![c] = x]
    /\ UNCHANGED <<scene, distribution, movement>>
    /\ \A d \in Distribution :
          Looks(c, d) =>
             \/ x # None /\ x.op = "confirm" /\ x.pc \in Looking /\ x.id = d
             \/ ~ AllConfirmed(d)

LEMMA MovingOn ==
    ASSUME CollectInv, scene.desk = "collect", NEW c \in GroceryCaller, NEW x,
           MovesOn(c, x)
    PROVE  CollectInv'
<1>1. CollectTypeOK'
    BY DEF CollectInv, CollectTypeOK, MovesOn
<1>2. CallsFit'
    BY DEF CollectInv, CollectTypeOK, CallsFit, CallFits, Confirmed, MovesOn
<1>3. TakenIsConfirmed'
    BY DEF CollectInv, TakenIsConfirmed, WasTaken, Received, HasItem, MovesOn
<1>4. ASSUME ~ scene'.crashes
      PROVE  SomeoneLooks'
    <2>1. SomeoneLooks
        BY <1>4 DEF CollectInv, MovesOn
    <2>2. ASSUME NEW d \in Distribution, NEW b \in GroceryCaller, Looks(b, d),
                 AllConfirmed(d)
          PROVE  Looks(b, d)'
        BY <2>2 DEF CollectInv, CollectTypeOK, Looks, MovesOn
    <2>3. QED
        BY <2>1, <2>2 DEF SomeoneLooks, AllConfirmed, WasTaken, MovesOn
<1>5. QED
    BY <1>1, <1>2, <1>3, <1>4 DEF CollectInv

-----------------------------------------------------------------------------
(* One lemma per step of confirmItem. *)

\* What all the steps start from, for the handler of caller c.
LEMMA HandlerAt ==
    ASSUME CollectInv, scene.desk = "collect", NEW c \in GroceryCaller, NEW pc,
           GroceryAt(c, pc)
    PROVE  /\ groceryCall[c] \in CollectCall
           /\ groceryCall[c].pc = pc
           /\ CallFits(groceryCall[c])
           /\ distribution[groceryCall[c].id] \in CollectRow
BY DEF CollectInv, CollectTypeOK, CallsFit, CallFits, GroceryAt, CollectCall

LEMMA ReadForConfirmKeeps ==
    ASSUME CollectInv, scene.desk = "collect", UNCHANGED scene,
           NEW c \in GroceryCaller, NEW d \in Distribution, NEW i \in Item,
           NEW key \in Key \cup {None}, ReadForConfirm(c, d, i, key, i[1])
    PROVE  CollectInv'
<1>1. distribution[d] \in CollectRow /\ i \in Recipient \X Shelf
    BY DEF CollectInv, CollectTypeOK, CollectRow, ReadForConfirm, HasItem
<1>2. (distribution[d].items[i].status = "COLLECTED") = FALSE
    BY <1>1 DEF CollectRow, CollectItem
<1>3. PICK x : x = [pc |-> IF Confirmed(d, i) THEN "answer" ELSE "confirm",
                    op |-> IF Confirmed(d, i) THEN "answer" ELSE "confirm",
                    id |-> d, item |-> i, status |-> "CONFIRMED",
                    key |-> key, collected |-> FALSE]
    OBVIOUS
<1>4. groceryCall[c] = None /\ groceryCall' = [groceryCall EXCEPT ![c] = x]
    BY <1>2, <1>3 DEF ReadForConfirm, GroceryStart, ItemCall, Confirmed
<1>5. x \in CollectCall
    BY <1>1, <1>3 DEF CollectCall, Looking
<1>6. CallFits(x)
    BY <1>3 DEF CallFits, ReadForConfirm, HasItem
<1>7. MovesOn(c, x)
    BY <1>4, <1>5, <1>6 DEF MovesOn, Looks, ReadForConfirm
<1>8. QED
    BY <1>7, MovingOn

LEMMA CheckTakeKeeps ==
    ASSUME CollectInv, scene.desk = "collect", UNCHANGED scene,
           NEW c \in GroceryCaller, CheckTake(c)
    PROVE  CollectInv'
<1>1. /\ groceryCall[c] \in CollectCall
      /\ groceryCall[c].pc = "take"
      /\ CallFits(groceryCall[c])
    BY HandlerAt DEF CheckTake
<1>2. \A d : ~ Looks(c, d)
    BY <1>1 DEF Looks, Looking
<1>3. CASE groceryCall' = [groceryCall EXCEPT ![c].pc = "out"]
    <2>1. PICK x : x = [groceryCall[c] EXCEPT !.pc = "out"]
        OBVIOUS
    <2>2. x \in CollectCall /\ CallFits(x)
        BY <1>1, <2>1 DEF CollectCall, CallFits, Confirmed
    <2>3. groceryCall' = [groceryCall EXCEPT ![c] = x]
        BY <1>3, <2>1
    <2>4. MovesOn(c, x)
        BY <1>2, <2>2, <2>3 DEF MovesOn, CheckTake
    <2>5. QED
        BY <2>4, MovingOn
<1>4. CASE groceryCall' = [groceryCall EXCEPT ![c] = None]
    <2>1. MovesOn(c, None)
        BY <1>2, <1>4 DEF MovesOn, CheckTake
    <2>2. QED
        BY <2>1, MovingOn
<1>5. QED
    BY <1>3, <1>4 DEF CheckTake, GroceryGoto, GroceryReturn

LEMMA StoreAnswerKeeps ==
    ASSUME CollectInv, scene.desk = "collect", UNCHANGED scene,
           NEW c \in GroceryCaller, StoreAnswer(c)
    PROVE  CollectInv'
<1>1. /\ groceryCall[c] \in CollectCall
      /\ groceryCall[c].pc = "answer"
      /\ CallFits(groceryCall[c])
    BY HandlerAt DEF StoreAnswer
<1>2. CASE groceryCall[c].op = "answer"
    <2>1. groceryCall' = [groceryCall EXCEPT ![c] = None]
        BY <1>2 DEF StoreAnswer, GroceryReturn
    <2>2. MovesOn(c, None)
        BY <1>2, <2>1 DEF MovesOn, StoreAnswer, Looks
    <2>3. QED
        BY <2>2, MovingOn
<1>3. CASE groceryCall[c].op # "answer"
    <2>1. PICK x : x = [groceryCall[c] EXCEPT !.pc = "count"]
        OBVIOUS
    <2>2. x \in CollectCall /\ CallFits(x) /\ x.op = "confirm"
        BY <1>1, <1>3, <2>1 DEF CollectCall, CallFits, Confirmed, Looking
    <2>3. groceryCall' = [groceryCall EXCEPT ![c] = x]
        BY <1>3, <2>1 DEF StoreAnswer, GroceryGoto
    <2>4. x # None /\ x.pc = "count" /\ x.id = groceryCall[c].id
        BY <1>1, <2>1, <2>2, Assumed DEF CollectCall
    <2>5. MovesOn(c, x)
        BY <2>2, <2>3, <2>4 DEF MovesOn, StoreAnswer, Looks, Looking
    <2>6. QED
        BY <2>5, MovingOn
<1>4. QED
    BY <1>2, <1>3

\* Only a handler that finds an item open goes without completing.
LEMMA CountConfirmedKeeps ==
    ASSUME CollectInv, scene.desk = "collect", UNCHANGED scene,
           NEW c \in GroceryCaller, CountConfirmed(c)
    PROVE  CollectInv'
<1>1. /\ groceryCall[c] \in CollectCall
      /\ groceryCall[c].pc = "count"
      /\ CallFits(groceryCall[c])
    BY HandlerAt DEF CountConfirmed
<1>2. CASE ~ AllConfirmed(groceryCall[c].id)
    <2>1. groceryCall' = [groceryCall EXCEPT ![c] = None]
        BY <1>2 DEF CountConfirmed, GroceryReturn
    <2>2. MovesOn(c, None)
        BY <1>2, <2>1 DEF MovesOn, CountConfirmed, Looks
    <2>3. QED
        BY <2>2, MovingOn
<1>3. CASE AllConfirmed(groceryCall[c].id)
    <2>1. PICK x : x = [groceryCall[c] EXCEPT !.pc = "complete"]
        OBVIOUS
    <2>2. x \in CollectCall /\ CallFits(x) /\ x.op = "confirm"
        BY <1>1, <2>1 DEF CollectCall, CallFits, Confirmed, Looking
    <2>3. groceryCall' = [groceryCall EXCEPT ![c] = x]
        BY <1>3, <2>1 DEF CountConfirmed, GroceryGoto
    <2>4. x # None /\ x.pc = "complete" /\ x.id = groceryCall[c].id
        BY <1>1, <2>1, <2>2, Assumed DEF CollectCall
    <2>5. MovesOn(c, x)
        BY <2>2, <2>3, <2>4 DEF MovesOn, CountConfirmed, Looks, Looking
    <2>6. QED
        BY <2>5, MovingOn
<1>4. QED
    BY <1>2, <1>3

\* The write of a confirmation: its item may be the last one to be confirmed,
\* but then nothing was taken for it yet.
LEMMA ConfirmingKeeps ==
    ASSUME CollectInv, scene.desk = "collect",
           UNCHANGED <<scene, movement>>, NEW c \in GroceryCaller,
           GroceryAt(c, "confirm"), NEW d \in Distribution,
           NEW i \in Recipient \X Shelf, NEW key \in Key \cup {None},
           NEW item \in CollectItem, item.status = "CONFIRMED",
           d = groceryCall[c].id, i = groceryCall[c].item, SetItem(d, i, item),
           groceryCall' = [groceryCall EXCEPT ![c].pc = "take"]
    PROVE  CollectInv'
<1>1. /\ groceryCall[c] \in CollectCall /\ groceryCall[c].pc = "confirm"
      /\ distribution[d] \in CollectRow
      /\ groceryCall[c].op = "confirm" /\ distribution[d] # None
    BY HandlerAt, Assumed DEF CollectCall, CallFits
<1>2. PICK items : items = [distribution[d].items EXCEPT ![i] = item]
    OBVIOUS
<1>3. /\ items \in [Recipient \X Shelf -> CollectItem]
      /\ items[i] = item
      /\ \A j \in Recipient \X Shelf : j # i => items[j] = distribution[d].items[j]
    BY <1>1, <1>2 DEF CollectRow
<1>4. PICK row : row = [distribution[d] EXCEPT !.items = items]
    OBVIOUS
<1>5. /\ row \in CollectRow /\ row # None
      /\ row.status = distribution[d].status
      /\ row.items = items
    BY <1>1, <1>3, <1>4, Assumed DEF CollectRow
<1>6. distribution' = [distribution EXCEPT ![d] = row]
    BY <1>2, <1>4 DEF SetItem
<1>7. PICK x : x = [groceryCall[c] EXCEPT !.pc = "take"]
    OBVIOUS
<1>8. x \in CollectCall /\ x.pc = "take" /\ x.op = "confirm" /\ x.id = d /\ x.item = i
    BY <1>1, <1>7 DEF CollectCall
<1>9. groceryCall' = [groceryCall EXCEPT ![c] = x]
    BY <1>7
<1>10. CollectTypeOK'
    BY <1>5, <1>6, <1>8, <1>9 DEF CollectInv, CollectTypeOK
<1>11. /\ distribution'[d] = row
       /\ \A e \in Distribution \ {d} : distribution'[e] = distribution[e]
    BY <1>6 DEF CollectInv, CollectTypeOK
<1>12. \A e \in Distribution, j \in Recipient \X Shelf :
          distribution[e] # None =>
             distribution'[e] # None /\ (Confirmed(e, j) => Confirmed(e, j)')
    <2>1. ASSUME NEW j \in Recipient \X Shelf, Confirmed(d, j)
          PROVE  Confirmed(d, j)'
        BY <1>1, <1>3, <1>5, <1>11, <2>1 DEF Confirmed, CollectRow
    <2>2. QED
        BY <1>5, <1>11, <2>1 DEF Confirmed
<1>13. Confirmed(d, i)'
    BY <1>1, <1>3, <1>5, <1>11 DEF Confirmed, CollectRow
<1>14. CallsFit'
    <2>1. SUFFICES ASSUME NEW b \in GroceryCaller, groceryCall'[b] # None
                   PROVE  CallFits(groceryCall[b])'
        BY DEF CallsFit
    <2>2. CASE b = c
        BY <1>5, <1>8, <1>9, <1>11, <1>13, <2>2
        DEF CollectInv, CollectTypeOK, CallFits
    <2>3. CASE b # c
        <3>1. groceryCall'[b] = groceryCall[b] /\ groceryCall[b] \in CollectCall
            BY <1>9, <2>1, <2>3 DEF CollectInv, CollectTypeOK
        <3>2. CallFits(groceryCall[b])
            BY <2>1, <3>1 DEF CollectInv, CallsFit
        <3>3. QED
            BY <1>12, <3>1, <3>2 DEF CallFits, CollectCall
    <2>4. QED
        BY <2>2, <2>3
<1>15. TakenIsConfirmed'
    <2>1. SUFFICES ASSUME NEW e \in Distribution, NEW j \in Item, WasTaken(e, j)
                   PROVE  Received(j[1], e, j)'
        BY DEF TakenIsConfirmed, WasTaken
    <2>2. Received(j[1], e, j)
        BY <2>1 DEF CollectInv, TakenIsConfirmed
    <2>3. distribution[e] \in CollectRow /\ distribution'[e] \in CollectRow
        BY <1>10, <1>12, <2>2 DEF CollectInv, CollectTypeOK, Received, HasItem
    <2>4. j \in Recipient \X Shelf
        BY <2>2, <2>3 DEF Received, HasItem, CollectRow
    <2>5. QED
        BY <1>12, <2>2, <2>3, <2>4 DEF Received, HasItem, CollectRow, Confirmed
<1>16. ASSUME ~ scene'.crashes
       PROVE  SomeoneLooks'
    <2>1. SUFFICES ASSUME NEW e \in Distribution, distribution'[e] # None,
                          AllConfirmed(e)'
                   PROVE  \/ distribution'[e].status = "COMPLETED"
                          \/ \E b \in GroceryCaller : Looks(b, e)'
                          \/ \E j \in Recipient \X Shelf : ~ WasTaken(e, j)'
        BY DEF SomeoneLooks
    <2>2. CASE distribution[e] # None /\ AllConfirmed(e)
        <3>1. \/ distribution[e].status = "COMPLETED"
              \/ \E b \in GroceryCaller : Looks(b, e)
              \/ \E j \in Recipient \X Shelf : ~ WasTaken(e, j)
            BY <1>16, <2>2 DEF CollectInv, SomeoneLooks
        <3>2. ASSUME NEW b \in GroceryCaller, Looks(b, e)
              PROVE  Looks(b, e)'
            <4>1. b # c
                BY <1>1, <3>2 DEF Looks, Looking
            <4>2. QED
                BY <1>9, <3>2, <4>1 DEF Looks, CollectInv, CollectTypeOK
        <3>3. distribution'[e].status = distribution[e].status
            BY <1>5, <1>11
        <3>4. QED
            BY <3>1, <3>2, <3>3 DEF WasTaken
    <2>3. CASE ~ (distribution[e] # None /\ AllConfirmed(e))
        <3>1. e = d /\ ~ AllConfirmed(d)
            BY <1>1, <1>11, <2>1, <2>3 DEF AllConfirmed
        <3>2. ~ Confirmed(d, i)
            <4>1. PICK j \in DOMAIN distribution[d].items : ~ Confirmed(d, j)
                BY <3>1 DEF AllConfirmed, Confirmed
            <4>2. j \in Recipient \X Shelf
                BY <1>1, <4>1 DEF CollectRow
            <4>3. j \in DOMAIN distribution'[d].items
                BY <1>5, <1>11, <4>2 DEF CollectRow
            <4>4. items[j].status = "CONFIRMED"
                BY <1>5, <1>11, <2>1, <3>1, <4>3 DEF AllConfirmed
            <4>5. QED
                BY <1>3, <4>1, <4>2, <4>4 DEF Confirmed
        <3>3. ~ WasTaken(d, i)
            BY <3>2, Assumed DEF CollectInv, TakenIsConfirmed, Received, Confirmed
        <3>4. QED
            BY <3>1, <3>3 DEF WasTaken
    <2>4. QED
        BY <2>2, <2>3
<1>17. QED
    BY <1>10, <1>14, <1>15, <1>16 DEF CollectInv

LEMMA ConfirmItemKeeps ==
    ASSUME CollectInv, scene.desk = "collect", UNCHANGED scene,
           NEW c \in GroceryCaller, ConfirmItem(c)
    PROVE  CollectInv'
<1>1. /\ groceryCall[c] \in CollectCall /\ groceryCall[c].pc = "confirm"
      /\ GroceryAt(c, "confirm")
    BY HandlerAt DEF ConfirmItem
<1>2. CASE UNCHANGED distribution /\ groceryCall' = [groceryCall EXCEPT ![c] = None]
    <2>1. MovesOn(c, None)
        BY <1>1, <1>2 DEF MovesOn, ConfirmItem, Looks, Looking
    <2>2. QED
        BY <2>1, MovingOn
<1>3. CASE ItemKeyFree(groceryCall[c].id, groceryCall[c].item, groceryCall[c].key)
    <2>1. TakesStock(groceryCall[c])
        BY <1>1 DEF TakesStock, Taken, CollectCall
    <2>2. groceryCall' = [groceryCall EXCEPT ![c].pc = "take"]
        BY <1>3, <2>1 DEF ConfirmItem, GroceryGoto
    <2>3. PICK d \in Distribution, i \in Recipient \X Shelf, key \in Key \cup {None} :
             d = groceryCall[c].id /\ i = groceryCall[c].item /\ key = groceryCall[c].key
        BY <1>1 DEF CollectCall
    <2>4. PICK old : old = distribution[d].items[i]
        OBVIOUS
    <2>5. old \in CollectItem
        BY <1>1, <2>3, <2>4, HandlerAt DEF CollectRow
    <2>6. PICK item : item = [old EXCEPT !.status = "CONFIRMED",
                                       !.key = Given(key, old.key)]
        OBVIOUS
    <2>7. item \in CollectItem /\ item.status = "CONFIRMED"
        BY <2>5, <2>6 DEF CollectItem, Given
    <2>8. SetItem(d, i, item)
        BY <1>3, <2>3, <2>4, <2>6 DEF ConfirmItem, TheItem
    <2>9. QED
        BY <1>1, <2>2, <2>3, <2>7, <2>8, ConfirmingKeeps DEF ConfirmItem
<1>4. QED
    BY <1>2, <1>3 DEF ConfirmItem, GroceryReturn

\* The handler whose movement is in goes on to look.
LEMMA InsertTakeKeeps ==
    ASSUME CollectInv, scene.desk = "collect", UNCHANGED scene,
           NEW c \in GroceryCaller, InsertTake(c)
    PROVE  CollectInv'
<1>1. /\ groceryCall[c] \in CollectCall /\ groceryCall[c].pc = "out"
      /\ CallFits(groceryCall[c])
      /\ distribution[groceryCall[c].id] \in CollectRow
    BY HandlerAt DEF InsertTake
<1>2. PICK d \in Distribution, i \in Recipient \X Shelf :
         d = groceryCall[c].id /\ i = groceryCall[c].item
    BY <1>1 DEF CollectCall
<1>3. groceryCall[c].op = "confirm"
    BY <1>1 DEF CollectCall, CallFits
<1>4. PICK x : x = [groceryCall[c] EXCEPT !.pc = "answer"]
    OBVIOUS
<1>5. /\ x \in CollectCall /\ x # None
      /\ x.pc = "answer" /\ x.op = "confirm" /\ x.id = d /\ x.item = i
    BY <1>1, <1>2, <1>3, <1>4, Assumed DEF CollectCall, Looking
<1>6. groceryCall' = [groceryCall EXCEPT ![c] = x]
    BY <1>3, <1>4 DEF InsertTake, GroceryGoto
<1>7. UNCHANGED distribution
    BY DEF InsertTake
<1>8. PICK m : m = Movement(i[2], "OUT", TakenQuantity(distribution[d].items[i]),
                            <<d, i>>)
    OBVIOUS
<1>9. DOMAIN movement' = DOMAIN movement \cup {m}
    BY <1>2, <1>8, InsertAdds DEF InsertTake, TheItem
<1>10. m.ref = <<d, i>>
    BY <1>8 DEF Movement
<1>11. \A e \in Distribution, j \in Item :
          WasTaken(e, j)' => WasTaken(e, j) \/ (e = d /\ j = i)
    BY <1>9, <1>10 DEF WasTaken
<1>12. CollectTypeOK'
    BY <1>5, <1>6, <1>7 DEF CollectInv, CollectTypeOK
<1>13. CallsFit'
    <2>1. CallFits(x)
        BY <1>1, <1>2, <1>5 DEF CallFits
    <2>2. QED
        BY <1>6, <1>7, <2>1
        DEF CollectInv, CollectTypeOK, CallsFit, CallFits, Confirmed
<1>14. TakenIsConfirmed'
    <2>1. Received(i[1], d, i)
        BY <1>1, <1>2 DEF CallFits, Confirmed, Received, HasItem, CollectRow
    <2>2. QED
        BY <1>7, <1>11, <2>1
        DEF CollectInv, TakenIsConfirmed, Received, HasItem
<1>15. ASSUME ~ scene'.crashes
       PROVE  SomeoneLooks'
    <2>1. SomeoneLooks
        BY <1>15 DEF CollectInv
    <2>2. Looks(c, d)'
        BY <1>5, <1>6 DEF Looks, Looking, CollectInv, CollectTypeOK
    <2>3. \A b \in GroceryCaller, e \in Distribution : Looks(b, e) => Looks(b, e)'
        BY <1>1, <1>6 DEF Looks, Looking, CollectInv, CollectTypeOK
    <2>4. \A e \in Distribution, j \in Recipient \X Shelf :
             ~ WasTaken(e, j) => e = d \/ ~ WasTaken(e, j)'
        BY <1>11, Assumed
    <2>5. QED
        BY <1>7, <2>1, <2>2, <2>3, <2>4 DEF SomeoneLooks, AllConfirmed
<1>16. QED
    BY <1>12, <1>13, <1>14, <1>15 DEF CollectInv

LEMMA CompleteKeeps ==
    ASSUME CollectInv, scene.desk = "collect", UNCHANGED scene,
           NEW c \in GroceryCaller, Complete(c)
    PROVE  CollectInv'
<1>1. /\ groceryCall[c] \in CollectCall
      /\ distribution[groceryCall[c].id] \in CollectRow
    BY HandlerAt DEF Complete
<1>2. PICK d \in Distribution : d = groceryCall[c].id
    BY <1>1 DEF CollectCall
<1>3. PICK row : row = [distribution[d] EXCEPT !.status = "COMPLETED"]
    OBVIOUS
<1>4. /\ row \in CollectRow /\ row # None /\ row.status = "COMPLETED"
      /\ row.items = distribution[d].items
    BY <1>1, <1>2, <1>3, Assumed DEF CollectRow
<1>5. /\ distribution' = [distribution EXCEPT ![d] = row]
      /\ groceryCall' = [groceryCall EXCEPT ![c] = None]
      /\ UNCHANGED movement
    BY <1>2, <1>3 DEF Complete, GroceryReturn
<1>6. CollectTypeOK'
    BY <1>4, <1>5 DEF CollectInv, CollectTypeOK
<1>7. /\ distribution'[d] = row /\ distribution[d] # None
      /\ \A e \in Distribution \ {d} : distribution'[e] = distribution[e]
    BY <1>1, <1>2, <1>5, Assumed DEF CollectInv, CollectTypeOK
<1>8. CallsFit'
    <2>1. SUFFICES ASSUME NEW b \in GroceryCaller, groceryCall'[b] # None
                   PROVE  CallFits(groceryCall[b])'
        BY DEF CallsFit
    <2>2. /\ groceryCall'[b] = groceryCall[b] /\ groceryCall[b] \in CollectCall
          /\ CallFits(groceryCall[b])
        BY <1>5, <2>1 DEF CollectInv, CollectTypeOK, CallsFit
    <2>3. PICK e \in Distribution : e = groceryCall[b].id
        BY <2>2 DEF CollectCall
    <2>4. distribution'[e] # None /\ distribution'[e].items = distribution[e].items
        BY <1>4, <1>7, <2>2, <2>3 DEF CallFits
    <2>5. QED
        BY <2>2, <2>3, <2>4 DEF CallFits, Confirmed
<1>9. TakenIsConfirmed'
    BY <1>4, <1>5, <1>7
    DEF CollectInv, TakenIsConfirmed, WasTaken, Received, HasItem
<1>10. ASSUME ~ scene'.crashes
       PROVE  SomeoneLooks'
    <2>1. SUFFICES ASSUME NEW e \in Distribution, e # d, distribution'[e] # None,
                          AllConfirmed(e)'
                   PROVE  \/ distribution'[e].status = "COMPLETED"
                          \/ \E b \in GroceryCaller : Looks(b, e)'
                          \/ \E j \in Recipient \X Shelf : ~ WasTaken(e, j)'
        BY <1>4, <1>7 DEF SomeoneLooks
    <2>2. distribution'[e] = distribution[e]
        BY <1>7, <2>1
    <2>3. ASSUME NEW b \in GroceryCaller, Looks(b, e)
          PROVE  Looks(b, e)'
        BY <1>2, <1>5, <2>1, <2>3 DEF Looks, CollectInv, CollectTypeOK
    <2>4. QED
        BY <1>5, <1>10, <2>1, <2>2, <2>3
        DEF CollectInv, SomeoneLooks, AllConfirmed, WasTaken
<1>11. QED
    BY <1>6, <1>8, <1>9, <1>10 DEF CollectInv

-----------------------------------------------------------------------------

\* Only members move while a distribution is collected.
LEMMA CollectStepKeeps ==
    ASSUME CollectInv, scene.desk = "collect", GroceryNext
    PROVE  CollectInv'
<1>1. UNCHANGED scene
    BY DEF GroceryNext
<1>2. CASE GroceryCrash
    <2>1. /\ groceryCall' = [c \in GroceryCaller |-> None] /\ scene.crashes
          /\ UNCHANGED <<movement, distribution>>
        BY <1>2 DEF GroceryCrash
    <2>2. CollectTypeOK' /\ CallsFit'
        BY <2>1 DEF CollectInv, CollectTypeOK, CallsFit
    <2>3. TakenIsConfirmed'
        BY <2>1 DEF CollectInv, TakenIsConfirmed, WasTaken, Received, HasItem
    <2>4. QED
        BY <1>1, <2>1, <2>2, <2>3 DEF CollectInv
<1>3. ASSUME NEW c \in GroceryCaller, MemberStep(c)
      PROVE  CollectInv'
    <2>1. ASSUME NEW d \in Distribution, NEW i \in Item, NEW key \in KeyOffered,
                 ReadForConfirm(c, d, i, key, i[1])
          PROVE  CollectInv'
        BY <1>1, <2>1, ReadForConfirmKeeps DEF KeyOffered
    <2>2. CASE ConfirmItem(c)
        BY <1>1, <2>2, ConfirmItemKeeps
    <2>3. CASE CheckTake(c)
        BY <1>1, <2>3, CheckTakeKeeps
    <2>4. CASE InsertTake(c)
        BY <1>1, <2>4, InsertTakeKeeps
    <2>5. CASE StoreAnswer(c)
        BY <1>1, <2>5, StoreAnswerKeeps
    <2>6. CASE CountConfirmed(c)
        BY <1>1, <2>6, CountConfirmedKeeps
    <2>7. CASE Complete(c)
        BY <1>1, <2>7, CompleteKeeps
    <2>8. QED
        BY <1>3, <2>1, <2>2, <2>3, <2>4, <2>5, <2>6, <2>7 DEF MemberStep
<1>4. QED
    BY <1>2, <1>3 DEF GroceryNext, FromScratch

LEMMA GroceryStartsCollectable == GroceryInit => CollectInv
<1>1. SUFFICES ASSUME GroceryInit, scene.desk = "collect"
               PROVE  CollectInv
    BY DEF CollectInv
<1>2. Ready \in CollectRow
    BY DEF Ready, CollectRow, CollectItem
<1>3. PICK open \in Distribution :
         distribution = [e \in Distribution |-> IF e = open THEN Ready ELSE None]
    BY <1>1 DEF GroceryInit
<1>4. \A c \in GroceryCaller : groceryCall[c] = None
    BY <1>1 DEF GroceryInit
<1>5. CollectTypeOK /\ CallsFit
    BY <1>1, <1>2, <1>3, <1>4 DEF GroceryInit, CollectTypeOK, CallsFit
<1>6. ASSUME NEW d \in Distribution, NEW i \in Item
      PROVE  ~ WasTaken(d, i)
    <2>1. \A m \in DOMAIN movement : m.type = "ADJUSTMENT"
        BY <1>1 DEF GroceryInit, FromScratch, SetToBag, Movement
    <2>2. QED
        BY <2>1 DEF WasTaken
<1>7. SomeoneLooks
    <2>1. SUFFICES ASSUME NEW d \in Distribution, distribution[d] # None,
                          AllConfirmed(d)
                   PROVE  \E i \in Recipient \X Shelf : ~ WasTaken(d, i)
        BY DEF SomeoneLooks
    <2>2. PICK m \in Recipient, p \in Shelf : TRUE
        BY GroceryAssumption
    <2>3. <<m, p>> \in Recipient \X Shelf /\ <<m, p>> \in Item
        BY <2>2, Assumed
    <2>4. QED
        BY <1>6, <2>3
<1>8. QED
    BY <1>1, <1>5, <1>6, <1>7 DEF CollectInv, TakenIsConfirmed

LEMMA CollectInvariant == GrocerySpec => []CollectInv
<1>1. CollectInv /\ [GroceryNext]_groceryVars => CollectInv'
    <2>1. SUFFICES ASSUME CollectInv, [GroceryNext]_groceryVars
                   PROVE  CollectInv'
        OBVIOUS
    <2>2. CASE GroceryNext
        <3>1. UNCHANGED scene
            BY <2>2 DEF GroceryNext
        <3>2. CASE scene.desk = "collect"
            BY <2>1, <2>2, <3>2, CollectStepKeeps
        <3>3. CASE scene.desk # "collect"
            BY <3>1, <3>3 DEF CollectInv
        <3>4. QED
            BY <3>2, <3>3
    <2>3. CASE UNCHANGED groceryVars
        BY <2>1, <2>3
        DEF groceryVars, CollectInv, CollectTypeOK, CallsFit, CallFits, Confirmed,
            TakenIsConfirmed, WasTaken, Received, HasItem, SomeoneLooks,
            AllConfirmed, Looks
    <2>4. QED
        BY <2>1, <2>2, <2>3
<1>2. QED
    BY <1>1, GroceryStartsCollectable, PTL DEF GrocerySpec

\* Once every item of a distribution is confirmed and taken and nobody is at
\* work, it is completed, in whatever order and however closely the members
\* came: a handler looks only after its own confirmation is written, so the
\* last one to look sees them all.
THEOREM ConfirmationsComplete == GrocerySpec => []CompletesWhenConfirmed
<1>1. CollectInv => CompletesWhenConfirmed
    <2>1. SUFFICES ASSUME CollectInv, scene.desk = "collect", ~ scene.crashes,
                          NEW d \in Distribution, distribution[d] # None,
                          \A c \in GroceryCaller : groceryCall[c] = None,
                          \A i \in DOMAIN distribution[d].items :
                             WasTaken(d, i) /\ ~ Uncollected(i[1], d, i)
                   PROVE  distribution[d].status = "COMPLETED"
        BY DEF CompletesWhenConfirmed
    <2>2. distribution[d] \in CollectRow
        BY <2>1 DEF CollectInv, CollectTypeOK
    <2>3. AllConfirmed(d)
        <3>1. \A i \in DOMAIN distribution[d].items : i \in Item /\ WasTaken(d, i)
            BY <2>1, <2>2, Assumed DEF CollectRow
        <3>2. QED
            BY <2>1, <3>1 DEF CollectInv, TakenIsConfirmed, Received, AllConfirmed
    <2>4. \A i \in Recipient \X Shelf : WasTaken(d, i)
        BY <2>1, <2>2 DEF CollectRow
    <2>5. QED
        BY <2>1, <2>3, <2>4 DEF CollectInv, SomeoneLooks, Looks
<1>2. QED
    BY <1>1, CollectInvariant, PTL

\* What members take is in their history, also while confirmations overlap and
\* the process dies between the writes.
THEOREM TakenIsReceived ==
    GrocerySpec => [](scene.desk = "collect" => TakenIsConfirmed)
<1>1. CollectInv => (scene.desk = "collect" => TakenIsConfirmed)
    BY DEF CollectInv
<1>2. QED
    BY <1>1, CollectInvariant, PTL

-----------------------------------------------------------------------------
(* The names of the products. *)

\* A handler about to write a name has looked for another product of it.
HasLooked(call) ==
    /\ "pc" \in DOMAIN call
    /\ call.pc \in {"create", "rename", "deactivate", "delete"} => call.id \in Product
    /\ call.pc = "create" \/ (call.pc = "rename" /\ call.name # None) =>
          call.name \in ProductName /\ ~ Duplicate(call.id, call.name)
    /\ call.pc = "rename" => call.active \in BOOLEAN \cup {None}
    /\ call.pc \in {"rename", "deactivate", "delete"} => product[call.id] # None

OneRequest ==
    \A a, b \in GroceryCaller :
        groceryCall[a] # None /\ groceryCall[b] # None => a = b

AllLooked ==
    \A c \in GroceryCaller : groceryCall[c] # None => HasLooked(groceryCall[c])

NamesInv ==
    /\ NamesUnambiguous
    /\ FromScratch /\ Alone =>
          /\ product \in [Product -> ProductRow \cup {None}]
          /\ DOMAIN groceryCall = GroceryCaller
          /\ OneRequest
          /\ AllLooked

\* With one request at a time a request starts only when none is under way.
LEMMA RoomMeansNone ==
    ASSUME Alone, Room
    PROVE  \A c \in GroceryCaller : groceryCall[c] = None
<1>1. PICK busy : busy = {c \in GroceryCaller : groceryCall[c] # None}
    OBVIOUS
<1>2. IsFiniteSet(busy) /\ Cardinality(busy) < 1
    BY <1>1, CatalogueAssumption, FS_Subset DEF Room, Alone
<1>3. busy = {}
    BY <1>2, FS_EmptySet, FS_CardinalityType
<1>4. QED
    BY <1>1, <1>3

\* A step of the only request that leaves the products alone.
Looked(c, x) ==
    /\ groceryCall' = [groceryCall EXCEPT ![c] = x]
    /\ \A b \in GroceryCaller \ {c} : groceryCall[b] = None
    /\ x # None => HasLooked(x)
    /\ UNCHANGED <<scene, product>>

LEMMA LookedKeeps ==
    ASSUME NamesInv, FromScratch, Alone, NEW c \in GroceryCaller, NEW x,
           Looked(c, x)
    PROVE  NamesInv'
BY DEF NamesInv, OneRequest, AllLooked, HasLooked, Duplicate, Live,
       NamesUnambiguous, Alone, FromScratch, Looked

\* A step that ends the only request and writes its product.
LEMMA WrittenKeeps ==
    ASSUME NamesInv, FromScratch, Alone, UNCHANGED scene,
           NEW c \in GroceryCaller, NEW p \in Product, NEW row \in ProductRow,
           \A b \in GroceryCaller \ {c} : groceryCall[b] = None,
           groceryCall' = [groceryCall EXCEPT ![c] = None],
           product' = [product EXCEPT ![p] = row],
           ~ row.deleted => ~ Duplicate(p, row.name)
    PROVE  NamesInv'
<1>1. product' \in [Product -> ProductRow \cup {None}]
    BY DEF NamesInv
<1>2. \A b \in GroceryCaller : groceryCall'[b] = None
    BY DEF NamesInv
<1>3. NamesUnambiguous'
    <2>1. SUFFICES ASSUME NEW q \in Product, NEW r \in Product,
                          Live(q)', Live(r)',
                          product'[q].name[1] = product'[r].name[1]
                   PROVE  q = r
        BY DEF NamesUnambiguous
    <2>2. \A s \in Product \ {p} : product'[s] = product[s]
        BY DEF NamesInv
    <2>3. product'[p] = row
        BY DEF NamesInv
    <2>4. CASE q # p /\ r # p
        BY <2>1, <2>2, <2>4 DEF NamesInv, NamesUnambiguous, Live
    <2>5. CASE q = p
        BY <2>1, <2>2, <2>3, <2>5 DEF Live, Duplicate, ProductRow
    <2>6. CASE r = p
        BY <2>1, <2>2, <2>3, <2>6 DEF Live, Duplicate, ProductRow
    <2>7. QED
        BY <2>4, <2>5, <2>6
<1>4. QED
    BY <1>1, <1>2, <1>3 DEF NamesInv, OneRequest, AllLooked

\* The handlers that write products.
Writing == {"create", "rename", "deactivate", "delete"}

\* A step of the only request that has nothing to do with names.
Plain(c) ==
    \/ Room /\ \E x : "pc" \in DOMAIN x /\ x.pc \notin Writing /\ GroceryStart(c, x)
    \/ /\ groceryCall[c] # None
       /\ \/ \E x : /\ x # None => "pc" \in DOMAIN x /\ x.pc \notin Writing
                    /\ groceryCall' = [groceryCall EXCEPT ![c] = x]
          \/ \E pc : pc \notin Writing /\ GroceryGoto(c, pc)

LEMMA PlainKeeps ==
    ASSUME NamesInv, FromScratch, Alone, UNCHANGED <<scene, product>>,
           NEW c \in GroceryCaller, Plain(c)
    PROVE  NamesInv'
<1>1. \A b \in GroceryCaller \ {c} : groceryCall[b] = None
    BY RoomMeansNone DEF Plain, NamesInv, OneRequest
<1>2. ASSUME NEW x, groceryCall' = [groceryCall EXCEPT ![c] = x],
             x # None => "pc" \in DOMAIN x /\ x.pc \notin Writing
      PROVE  NamesInv'
    <2>1. Looked(c, x)
        BY <1>1, <1>2 DEF Looked, HasLooked, Writing
    <2>2. QED
        BY <2>1, LookedKeeps
<1>3. ASSUME groceryCall[c] # None, NEW pc, pc \notin Writing, GroceryGoto(c, pc)
      PROVE  NamesInv'
    <2>1. PICK x : x = [groceryCall[c] EXCEPT !.pc = pc]
        OBVIOUS
    <2>2. "pc" \in DOMAIN groceryCall[c]
        BY <1>3 DEF NamesInv, AllLooked, HasLooked
    <2>3. "pc" \in DOMAIN x /\ x.pc = pc
        BY <2>1, <2>2
    <2>4. groceryCall' = [groceryCall EXCEPT ![c] = x]
        BY <1>3, <2>1 DEF GroceryGoto
    <2>5. QED
        BY <1>2, <1>3, <2>3, <2>4
<1>4. QED
    BY <1>2, <1>3 DEF Plain, GroceryStart

LEMMA PlainReturn ==
    ASSUME NEW c, groceryCall[c] # None, GroceryReturn(c)
    PROVE  Plain(c)
<1>1. PICK x : x = None
    OBVIOUS
<1>2. groceryCall' = [groceryCall EXCEPT ![c] = x]
    BY <1>1 DEF GroceryReturn
<1>3. QED
    BY <1>1, <1>2 DEF Plain

LEMMA PlainGoto ==
    ASSUME NEW c, NEW pc, pc \notin Writing, groceryCall[c] # None,
           GroceryGoto(c, pc)
    PROVE  Plain(c)
BY DEF Plain

LEMMA StockKeepsNames ==
    ASSUME NamesInv, FromScratch, Alone, UNCHANGED scene,
           NEW c \in GroceryCaller, StockStep(c)
    PROVE  NamesInv'
<1>1. UNCHANGED product
    BY DEF StockStep, ReadForAdjust, WeighAdjust, InsertAdjust
<1>2. ASSUME Room, NEW p \in Product, NEW change, ReadForAdjust(c, p, change)
      PROVE  Plain(c)
    <2>1. PICK x : x = [pc |-> IF change < 0 THEN "weigh" ELSE "adjust",
                        id |-> p, change |-> change]
        OBVIOUS
    <2>2. "pc" \in DOMAIN x /\ x.pc \notin Writing
        BY <2>1 DEF Writing
    <2>3. QED
        BY <1>2, <2>1, <2>2 DEF Plain, ReadForAdjust
<1>3. WeighAdjust(c) => Plain(c)
    BY PlainReturn, PlainGoto DEF WeighAdjust, GroceryAt, Writing
<1>4. InsertAdjust(c) => Plain(c)
    BY PlainReturn DEF InsertAdjust, GroceryAt
<1>5. QED
    BY <1>1, <1>2, <1>3, <1>4, PlainKeeps DEF StockStep

LEMMA SharingKeepsProducts ==
    ASSUME NEW c \in GroceryCaller, OfficerStep(c) \/ MemberStep(c)
    PROVE  UNCHANGED product
BY DEF OfficerStep, CreateDistribution, ReadForStatus, ReadForItemStatus,
       CheckAvailable, InsertDistribution, WriteStatus, WriteItemStatus,
       MemberStep, ReadForConfirm, ConfirmItem, CheckTake, InsertTake,
       StoreAnswer, CountConfirmed, Complete

\* A request that starts and has nothing to do with names.
LEMMA PlainStart ==
    ASSUME NEW c, NEW x, Room, GroceryStart(c, x), "pc" \in DOMAIN x,
           x.pc \notin Writing
    PROVE  Plain(c)
BY DEF Plain

LEMMA SharingKeepsNames ==
    ASSUME NamesInv, FromScratch, Alone, UNCHANGED scene,
           NEW c \in GroceryCaller, OfficerStep(c) \/ MemberStep(c)
    PROVE  NamesInv'
<1>1. UNCHANGED product
    BY SharingKeepsProducts
<1>2. ASSUME Room, NEW d \in Distribution, NEW wanted, NEW overrides, NEW by,
             CreateDistribution(c, d, wanted, overrides, by)
      PROVE  Plain(c)
    <2>1. PICK x : x = [pc |-> "available", id |-> d, wanted |-> wanted,
                        overrides |-> overrides, left |-> DOMAIN wanted]
        OBVIOUS
    <2>2. "pc" \in DOMAIN x /\ x.pc \notin Writing
        BY <2>1 DEF Writing
    <2>3. QED
        BY <1>2, <2>1, <2>2, PlainStart DEF CreateDistribution
<1>3. ASSUME Room, NEW d \in Distribution, NEW status, NEW by,
             ReadForStatus(c, d, status, by)
      PROVE  Plain(c)
    <2>1. PICK x : x = [pc |-> "status", id |-> d, status |-> status]
        OBVIOUS
    <2>2. "pc" \in DOMAIN x /\ x.pc \notin Writing
        BY <2>1 DEF Writing
    <2>3. QED
        BY <1>3, <2>1, <2>2, PlainStart DEF ReadForStatus
<1>4. ASSUME Room, NEW d \in Distribution, NEW i, NEW status, NEW key,
             NEW pc \in {"set", "answer", "confirm"},
             GroceryStart(c, ItemCall(pc, d, i, status, key))
      PROVE  Plain(c)
    <2>1. PICK x : x = ItemCall(pc, d, i, status, key)
        OBVIOUS
    <2>2. "pc" \in DOMAIN x /\ x.pc \notin Writing
        BY <2>1 DEF Writing, ItemCall
    <2>3. QED
        BY <1>4, <2>1, <2>2, PlainStart
<1>5. ASSUME Room, NEW d \in Distribution, NEW i, NEW status, NEW by,
             ReadForItemStatus(c, d, i, status, by)
      PROVE  Plain(c)
    BY <1>4, <1>5 DEF ReadForItemStatus
<1>6. ASSUME Room, NEW d \in Distribution, NEW i \in Item,
             NEW key \in KeyOffered, ReadForConfirm(c, d, i, key, i[1])
      PROVE  Plain(c)
    BY <1>4, <1>6 DEF ReadForConfirm
<1>7. ASSUME CheckAvailable(c)
      PROVE  Plain(c)
    <2>1. PICK p \in groceryCall[c].left :
             groceryCall' = [groceryCall EXCEPT ![c] =
                IF ~ Available(p, groceryCall[c].wanted[p]) THEN None
                ELSE [groceryCall[c] EXCEPT
                        !.left = @ \ {p},
                        !.pc = IF groceryCall[c].left = {p} THEN "share" ELSE @]]
        BY <1>7 DEF CheckAvailable
    <2>2. PICK x :
             x = [groceryCall[c] EXCEPT
                    !.left = @ \ {p},
                    !.pc = IF groceryCall[c].left = {p} THEN "share" ELSE @]
        OBVIOUS
    <2>3. groceryCall[c] # None /\ groceryCall[c].pc = "available"
        BY <1>7 DEF CheckAvailable, GroceryAt
    <2>4. "pc" \in DOMAIN groceryCall[c]
        BY <2>3 DEF NamesInv, AllLooked, HasLooked
    <2>5. "pc" \in DOMAIN x /\ x.pc \notin Writing
        BY <2>2, <2>3, <2>4 DEF Writing
    <2>6. \/ groceryCall' = [groceryCall EXCEPT ![c] = None]
          \/ groceryCall' = [groceryCall EXCEPT ![c] = x]
        BY <2>1, <2>2
    <2>7. QED
        BY <2>3, <2>5, <2>6, PlainReturn DEF Plain, GroceryReturn
<1>8. \/ InsertDistribution(c) \/ WriteStatus(c) \/ WriteItemStatus(c)
      => Plain(c)
    BY PlainReturn, PlainGoto
    DEF InsertDistribution, WriteStatus, WriteItemStatus, GroceryAt, Writing
<1>9. \/ ConfirmItem(c) \/ CheckTake(c) \/ InsertTake(c) \/ StoreAnswer(c)
      \/ CountConfirmed(c) \/ Complete(c)
      => Plain(c)
    BY PlainReturn, PlainGoto
    DEF ConfirmItem, CheckTake, InsertTake, StoreAnswer, CountConfirmed,
        Complete, GroceryAt, Writing
<1>10. OfficerStep(c) => Plain(c)
    BY <1>2, <1>3, <1>5, <1>7, <1>8 DEF OfficerStep
<1>11. MemberStep(c) => Plain(c)
    BY <1>6, <1>9 DEF MemberStep
<1>12. QED
    BY <1>1, <1>10, <1>11, PlainKeeps

LEMMA PurchaseKeepsNames ==
    ASSUME NamesInv, FromScratch, Alone, UNCHANGED scene,
           NEW c \in GroceryCaller, PurchaseStep(c)
    PROVE  NamesInv'
<1>1. UNCHANGED product
    BY DEF PurchaseStep, CreatePurchase, ReadForReview, InsertPurchase,
           ApprovePurchase, RejectPurchase, ReceiveGoods, StartPurchaseDebit,
           EndPurchaseDebit
<1>2. ASSUME Room, NEW b \in Purchase, NEW by \in User, NEW lines \in Basket,
             CreatePurchase(c, b, lines, by)
      PROVE  Plain(c)
    <2>1. PICK x : x = [pc |-> "buy", id |-> b, lines |-> lines, by |-> by]
        OBVIOUS
    <2>2. "pc" \in DOMAIN x /\ x.pc \notin Writing
        BY <2>1 DEF Writing
    <2>3. QED
        BY <1>2, <2>1, <2>2 DEF Plain, CreatePurchase
<1>3. ASSUME Room, NEW b \in Purchase, NEW by \in User,
             NEW pc \in {"approve", "reject"}, ReadForReview(c, b, pc, by)
      PROVE  Plain(c)
    <2>1. PICK x : x = [pc |-> pc, id |-> b, by |-> by]
        OBVIOUS
    <2>2. "pc" \in DOMAIN x /\ x.pc \notin Writing
        BY <2>1 DEF Writing
    <2>3. QED
        BY <1>3, <2>1, <2>2 DEF Plain, ReadForReview
<1>4. ASSUME InsertPurchase(c)
      PROVE  Plain(c)
    <2>1. PICK x : x = [pc |-> "stock", id |-> groceryCall[c].id,
                        by |-> groceryCall[c].by]
        OBVIOUS
    <2>2. "pc" \in DOMAIN x /\ x.pc \notin Writing
        BY <2>1 DEF Writing
    <2>3. \/ groceryCall' = [groceryCall EXCEPT ![c] = None]
          \/ groceryCall' = [groceryCall EXCEPT ![c] = x]
        BY <1>4, <2>1 DEF InsertPurchase
    <2>4. groceryCall[c] # None
        BY <1>4 DEF InsertPurchase, GroceryAt
    <2>5. CASE groceryCall' = [groceryCall EXCEPT ![c] = None]
        BY <2>4, <2>5, PlainReturn DEF GroceryReturn
    <2>6. CASE groceryCall' = [groceryCall EXCEPT ![c] = x]
        BY <2>2, <2>4, <2>6 DEF Plain
    <2>7. QED
        BY <2>3, <2>5, <2>6
<1>5. ApprovePurchase(c) => Plain(c)
    BY PlainGoto DEF ApprovePurchase, GroceryAt, Writing
<1>6. RejectPurchase(c) => Plain(c)
    BY PlainReturn DEF RejectPurchase, GroceryAt
<1>7. ReceiveGoods(c) => Plain(c)
    BY PlainGoto DEF ReceiveGoods, GroceryAt, Writing
<1>8. StartPurchaseDebit(c) => Plain(c)
    BY PlainGoto DEF StartPurchaseDebit, GroceryAt, Writing
<1>9. EndPurchaseDebit(c) => Plain(c)
    BY PlainReturn DEF EndPurchaseDebit, GroceryAt
<1>10. QED
    BY <1>1, <1>2, <1>3, <1>4, <1>5, <1>6, <1>7, <1>8, <1>9, PlainKeeps
    DEF PurchaseStep

\* A request to write a product has looked for its name, or keeps its own.
LEMMA LookingKeepsNames ==
    ASSUME NamesInv, FromScratch, Alone, UNCHANGED scene, Room,
           NEW c \in GroceryCaller, NEW p \in Product,
           \/ \E name \in ProductName : ReadForCreate(c, p, name)
           \/ \E name \in ProductName \cup {None}, active \in BOOLEAN \cup {None} :
                 ReadForUpdate(c, p, name, active)
           \/ ReadForDelete(c, p)
    PROVE  NamesInv'
<1>1. \A b \in GroceryCaller \ {c} : groceryCall[b] = None
    BY RoomMeansNone
<1>2. ASSUME NEW x, HasLooked(x), GroceryStart(c, x), UNCHANGED product
      PROVE  NamesInv'
    BY <1>1, <1>2, LookedKeeps DEF Looked, GroceryStart
<1>3. ASSUME NEW name \in ProductName, ReadForCreate(c, p, name)
      PROVE  NamesInv'
    <2>1. PICK x : x = [pc |-> "create", id |-> p, name |-> name]
        OBVIOUS
    <2>2. HasLooked(x)
        BY <1>3, <2>1 DEF HasLooked, ReadForCreate
    <2>3. QED
        BY <1>2, <1>3, <2>1, <2>2 DEF ReadForCreate
<1>4. ASSUME NEW name \in ProductName \cup {None}, NEW active \in BOOLEAN \cup {None},
             ReadForUpdate(c, p, name, active)
      PROVE  NamesInv'
    <2>1. PICK x : x = [pc |-> "rename", id |-> p, name |-> name, active |-> active]
        OBVIOUS
    <2>2. name # None => ~ Duplicate(p, name)
        BY <1>4 DEF ReadForUpdate, Duplicate, NamesInv, NamesUnambiguous
    <2>3. x.active \in BOOLEAN \cup {None}
        BY <2>1
    <2>4. HasLooked(x)
        BY <1>4, <2>1, <2>2, <2>3 DEF HasLooked, ReadForUpdate, Live
    <2>5. QED
        BY <1>2, <1>4, <2>1, <2>4 DEF ReadForUpdate
<1>5. ASSUME ReadForDelete(c, p)
      PROVE  NamesInv'
    <2>1. PICK x : x = [pc |-> IF HasMoved(p) THEN "deactivate" ELSE "delete",
                        id |-> p]
        OBVIOUS
    <2>2. HasLooked(x)
        BY <1>5, <2>1 DEF HasLooked, ReadForDelete, Live
    <2>3. QED
        BY <1>2, <1>5, <2>1, <2>2 DEF ReadForDelete
<1>6. QED
    BY <1>3, <1>4, <1>5

\* What a handler writes is what it has looked for: nobody else was at work.
LEMMA WritingKeepsNames ==
    ASSUME NamesInv, FromScratch, Alone, UNCHANGED scene,
           NEW c \in GroceryCaller,
           InsertProduct(c) \/ ApplyUpdate(c) \/ Deactivate(c) \/ Delete(c)
    PROVE  NamesInv'
<1>1. /\ groceryCall[c] # None /\ HasLooked(groceryCall[c])
      /\ groceryCall[c].pc \in Writing
      /\ groceryCall' = [groceryCall EXCEPT ![c] = None]
    BY DEF NamesInv, AllLooked, InsertProduct, ApplyUpdate, Deactivate, Delete,
           GroceryAt, GroceryReturn, Writing
<1>2. \A b \in GroceryCaller \ {c} : groceryCall[b] = None
    BY <1>1 DEF NamesInv, OneRequest
<1>3. PICK p \in Product : p = groceryCall[c].id
    BY <1>1 DEF HasLooked, Writing
<1>4. CASE UNCHANGED product
    BY <1>1, <1>2, <1>4, LookedKeeps DEF Looked
<1>5. ASSUME NEW row \in ProductRow, product' = [product EXCEPT ![p] = row],
             ~ row.deleted => ~ Duplicate(p, row.name)
      PROVE  NamesInv'
    BY <1>1, <1>2, <1>5, WrittenKeeps
<1>6. groceryCall[c].pc # "create" => product[p] \in ProductRow
    BY <1>1, <1>3 DEF NamesInv, HasLooked, Writing
<1>7. ASSUME product[p] \in ProductRow, ~ product[p].deleted
      PROVE  ~ Duplicate(p, product[p].name)
    BY <1>7, CatalogueAssumption DEF NamesInv, NamesUnambiguous, Duplicate, Live
<1>8. CASE InsertProduct(c)
    <2>1. PICK row : row = [name |-> groceryCall[c].name, active |-> TRUE,
                            deleted |-> FALSE]
        OBVIOUS
    <2>2. groceryCall[c].name \in ProductName /\ ~ Duplicate(p, groceryCall[c].name)
        BY <1>1, <1>3, <1>8 DEF InsertProduct, GroceryAt, HasLooked
    <2>3. row \in ProductRow /\ row.name = groceryCall[c].name
        BY <2>1, <2>2 DEF ProductRow
    <2>4. product' = product \/ product' = [product EXCEPT ![p] = row]
        BY <1>3, <1>8, <2>1 DEF InsertProduct
    <2>5. QED
        BY <1>4, <1>5, <2>2, <2>3, <2>4
<1>9. CASE ApplyUpdate(c)
    <2>1. PICK row :
             row = [product[p] EXCEPT !.name = Given(groceryCall[c].name, @),
                                      !.active = Given(groceryCall[c].active, @)]
        OBVIOUS
    <2>2. /\ groceryCall[c].name # None =>
                 /\ groceryCall[c].name \in ProductName
                 /\ ~ Duplicate(p, groceryCall[c].name)
          /\ product[p] \in ProductRow
        BY <1>1, <1>3, <1>6, <1>9 DEF ApplyUpdate, GroceryAt, HasLooked
    <2>3. groceryCall[c].active \in BOOLEAN \cup {None}
        BY <1>1, <1>9 DEF ApplyUpdate, GroceryAt, HasLooked
    <2>4. /\ row \in ProductRow /\ row.deleted = product[p].deleted
          /\ row.name = Given(groceryCall[c].name, product[p].name)
        BY <2>1, <2>2, <2>3 DEF ProductRow, Given
    <2>5. product' = product \/ product' = [product EXCEPT ![p] = row]
        BY <1>3, <1>9, <2>1 DEF ApplyUpdate, Given
    <2>6. ~ row.deleted => ~ Duplicate(p, row.name)
        BY <1>7, <2>2, <2>4 DEF Given
    <2>7. QED
        BY <1>4, <1>5, <2>4, <2>5, <2>6
<1>10. CASE Deactivate(c)
    <2>1. PICK row : row = [product[p] EXCEPT !.active = FALSE]
        OBVIOUS
    <2>2. product[p] \in ProductRow
        BY <1>6, <1>10 DEF Deactivate, GroceryAt
    <2>3. /\ row \in ProductRow /\ row.name = product[p].name
          /\ row.deleted = product[p].deleted
        BY <2>1, <2>2 DEF ProductRow
    <2>4. product' = [product EXCEPT ![p] = row]
        BY <1>3, <1>10, <2>1 DEF Deactivate
    <2>5. QED
        BY <1>5, <1>7, <2>2, <2>3, <2>4
<1>11. CASE Delete(c)
    <2>1. PICK row : row = [product[p] EXCEPT !.deleted = TRUE]
        OBVIOUS
    <2>2. product[p] \in ProductRow
        BY <1>6, <1>11 DEF Delete, GroceryAt
    <2>3. row \in ProductRow /\ row.deleted
        BY <2>1, <2>2 DEF ProductRow
    <2>4. product' = [product EXCEPT ![p] = row]
        BY <1>3, <1>11, <2>1 DEF Delete
    <2>5. QED
        BY <1>5, <2>3, <2>4
<1>12. QED
    BY <1>8, <1>9, <1>10, <1>11

LEMMA NamesInvariant == GrocerySpec => []NamesInv
<1>1. GroceryInit => NamesInv
    <2>1. SUFFICES ASSUME GroceryInit
                   PROVE  NamesInv
        OBVIOUS
    <2>2. CASE FromScratch
        BY <2>1, <2>2
        DEF GroceryInit, NamesInv, NamesUnambiguous, Live, OneRequest, AllLooked
    <2>3. CASE ~ FromScratch
        <3>1. product = [p \in Product |-> IF p \in Shelf THEN Stocked(p) ELSE None]
            BY <2>1, <2>3 DEF GroceryInit
        <3>2. NameOnShelf \in Injection(Shelf, Word)
            BY GroceryAssumption DEF NameOnShelf
        <3>3. /\ NameOnShelf \in [Shelf -> Word]
              /\ \A p, q \in Shelf : NameOnShelf[p] = NameOnShelf[q] => p = q
            BY <3>2 DEF Injection, IsInjective
        <3>4. \A p \in Shelf : Stocked(p) \in ProductRow
            BY <3>3 DEF Stocked, ProductRow, ProductName
        <3>5. \A p \in Shelf : Stocked(p).name[1] = NameOnShelf[p]
            BY DEF Stocked
        <3>6. NamesUnambiguous
            BY <3>1, <3>3, <3>5 DEF NamesUnambiguous, Live
        <3>7. QED
            BY <2>3, <3>1, <3>4, <3>6 DEF NamesInv
    <2>4. QED
        BY <2>2, <2>3
<1>2. NamesInv /\ [GroceryNext]_groceryVars => NamesInv'
    <2>1. SUFFICES ASSUME NamesInv, [GroceryNext]_groceryVars
                   PROVE  NamesInv'
        OBVIOUS
    <2>2. CASE UNCHANGED groceryVars
        BY <2>1, <2>2
        DEF groceryVars, NamesInv, NamesUnambiguous, Live, Alone, FromScratch,
            OneRequest, AllLooked, HasLooked, Duplicate
    <2>3. ASSUME UNCHANGED scene, UNCHANGED product,
                 FromScratch /\ Alone =>
                    groceryCall' = [c \in GroceryCaller |-> None]
          PROVE  NamesInv'
        BY <2>1, <2>3
        DEF NamesInv, NamesUnambiguous, Live, Alone, FromScratch, OneRequest,
            AllLooked
    <2>4. CASE GroceryCrash /\ UNCHANGED scene
        BY <2>3, <2>4 DEF GroceryCrash
    <2>5. CASE GroceryNext /\ ~ FromScratch
        <3>1. \A c \in GroceryCaller : StockStep(c) => UNCHANGED product
            BY DEF StockStep, ReadForAdjust, WeighAdjust, InsertAdjust
        <3>2. \A c \in GroceryCaller :
                 OfficerStep(c) \/ MemberStep(c) => UNCHANGED product
            BY SharingKeepsProducts
        <3>3. UNCHANGED product
            BY <2>5, <3>1, <3>2 DEF GroceryNext, GroceryCrash, FromScratch
        <3>4. QED
            BY <2>3, <2>5, <3>3 DEF GroceryNext
    <2>6. CASE GroceryNext /\ FromScratch /\ ~ Alone
        BY <2>6 DEF NamesInv, NamesUnambiguous, Alone, GroceryNext
    <2>7. ASSUME NEW c \in GroceryCaller, FromScratch, Alone, UNCHANGED scene,
                 \/ StockStep(c) \/ ProductStep(c) \/ PurchaseStep(c)
                 \/ OfficerStep(c) \/ MemberStep(c)
          PROVE  NamesInv'
        <3>1. ASSUME Room, NEW p \in Offered,
                     \/ \E name \in ProductName : ReadForCreate(c, p, name)
                     \/ \E name \in ProductName \cup {None},
                           active \in BOOLEAN \cup {None} :
                           ReadForUpdate(c, p, name, active)
                     \/ ReadForDelete(c, p)
              PROVE  NamesInv'
            BY <2>1, <2>7, <3>1, LookingKeepsNames, GroceryAssumption DEF Offered
        <3>2. ProductStep(c) => NamesInv'
            BY <2>1, <2>7, <3>1, WritingKeepsNames DEF ProductStep
        <3>3. QED
            BY <2>1, <2>7, <3>2, StockKeepsNames, PurchaseKeepsNames,
               SharingKeepsNames
    <2>8. QED
        BY <2>1, <2>2, <2>4, <2>5, <2>6, <2>7 DEF GroceryNext
<1>3. QED
    BY <1>1, <1>2, PTL DEF GrocerySpec

\* No two products of a group have names that differ in case only, as long as
\* the requests do not overlap: a handler writes the name that it has looked
\* for, or the one its product has.
THEOREM NamesStayUnambiguous == GrocerySpec => []NamesUnambiguous
<1>1. NamesInv => NamesUnambiguous
    BY DEF NamesInv
<1>2. QED
    BY <1>1, NamesInvariant, PTL

=============================================================================
