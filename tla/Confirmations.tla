---------------------------- MODULE Confirmations ----------------------------
(***************************************************************************)
(* Receipts a member confirms on the phone: GroceryRepository, the table   *)
(* pending_confirmations, and the two starters of a sync, the connectivity *)
(* listener of GrocerySyncService and the button, which nothing keeps      *)
(* apart.  Connection and sign-in are those of the offline queue.          *)
(***************************************************************************)
EXTENDS OfflineQueue

CONSTANTS
    Goods,          \* distribution items allocated to the member
    Recipient,      \* that member
    Tap,            \* taps on Confirm, each with its own idempotency key
    Sweep           \* syncs of confirmations under way at once

VARIABLES
    tap,            \* the call each tap has started
    receipt,        \* rows of pending_confirmations
    sweep,          \* the syncs under way
    taken,          \* server: the items confirmed
    told            \* history: taps answered with COLLECTED

receiptVars == <<tap, receipt, sweep, taken, told>>

TapRow == [goods : Goods, pc : {"call", "queue", "over"}]

ReceiptRow == [goods : Goods, synced : BOOLEAN]

SweepRow ==
    [pc : {"send", "synced", "failed"}, todo : SUBSET Tap, now : Tap \cup {None}]

ASSUME ConfirmationAssumption ==
    /\ Recipient \in Person
    /\ None \notin TapRow \cup ReceiptRow

-----------------------------------------------------------------------------

TapGoto(t, pc) == tap' = [tap EXCEPT ![t].pc = pc]

SweepAt(s, pc) == sweep[s] # None /\ sweep[s].pc = pc

\* The server lets the member confirm, and answers in the same way when the
\* item is confirmed already, whatever the key.
Confirmable == online /\ signed = Recipient

Take(goods) == taken' = taken \cup {goods}

Unsynced == {t \in Tap : receipt[t] # None /\ ~ receipt[t].synced}

\* confirmItem: online the server is asked, otherwise the tap is queued.
ConfirmTap(t, goods) ==
    /\ signed = Recipient
    /\ tap[t] = None
    /\ tap' = [tap EXCEPT ![t] =
          [goods |-> goods, pc |-> IF online THEN "call" ELSE "queue"]]
    /\ UNCHANGED <<receipt, sweep, taken, told>>

\* An error of any kind queues the tap too.  The answer may be lost, and the
\* error may come after the confirmation: when the stock is short, or when the
\* phone cannot read an answer that names its fields otherwise.
CallConfirm(t) ==
    /\ tap[t] # None /\ tap[t].pc = "call"
    /\ \/ /\ Confirmable
          /\ Take(tap[t].goods)
          /\ \/ TapGoto(t, "over") /\ told' = told \cup {t}
             \/ TapGoto(t, "queue") /\ UNCHANGED told
       \/ TapGoto(t, "queue") /\ UNCHANGED <<taken, told>>
    /\ UNCHANGED <<receipt, sweep>>

\* The member sees the item as collected from here on.
QueueConfirmation(t) ==
    /\ tap[t] # None /\ tap[t].pc = "queue"
    /\ receipt' = [receipt EXCEPT ![t] =
          [goods |-> tap[t].goods, synced |-> FALSE]]
    /\ TapGoto(t, "over")
    /\ told' = told \cup {t}
    /\ UNCHANGED <<sweep, taken>>

-----------------------------------------------------------------------------
(* syncPendingConfirmations *)

StartSweep(s) ==
    /\ sweep[s] = None
    /\ online
    /\ sweep' = [sweep EXCEPT ![s] =
          [pc |-> "send", todo |-> Unsynced, now |-> None]]
    /\ UNCHANGED <<tap, receipt, taken, told>>

\* The next row of those read, in an order that tells nothing apart.
SendReceipt(s, t) ==
    LET SweepNow(pc) ==
            sweep' = [sweep EXCEPT ![s].pc = pc, ![s].now = t,
                                   ![s].todo = @ \ {t}]
    IN
    /\ SweepAt(s, "send") /\ t \in sweep[s].todo
    /\ \/ /\ Confirmable
          /\ Take(tap[t].goods)
          /\ \E pc \in {"synced", "failed"} : SweepNow(pc)
       \/ SweepNow("failed") /\ UNCHANGED taken
    /\ UNCHANGED <<tap, receipt, told>>

SweepOn(s) == sweep' = [sweep EXCEPT ![s].pc = "send", ![s].now = None]

\* The row may be gone: another sync has marked and removed it.
MarkSynced(s) ==
    LET t == sweep[s].now IN
    /\ SweepAt(s, "synced")
    /\ receipt' = IF receipt[t] = None THEN receipt
                  ELSE [receipt EXCEPT ![t].synced = TRUE]
    /\ SweepOn(s)
    /\ UNCHANGED <<tap, taken, told>>

\* Faulty variant: a confirmation the server refuses is done with.
UpdateRetryInfoSynced(s) ==
    LET t == sweep[s].now IN
    /\ SweepAt(s, "failed")
    /\ receipt' = IF receipt[t] = None THEN receipt
                  ELSE [receipt EXCEPT ![t].synced = TRUE]
    /\ SweepOn(s)
    /\ UNCHANGED <<tap, taken, told>>

\* The retry count grows and limits nothing: the row stays to be sent again.
UpdateRetryInfo(s) ==
    /\ SweepAt(s, "failed")
    /\ SweepOn(s)
    /\ UNCHANGED <<tap, receipt, taken, told>>

\* cleanupSynced removes the synced rows older than a day.
EndSweep(s) ==
    /\ SweepAt(s, "send") /\ sweep[s].todo = {}
    /\ \E old \in SUBSET {t \in Tap : receipt[t] # None /\ receipt[t].synced} :
          receipt' = [t \in Tap |-> IF t \in old THEN None ELSE receipt[t]]
    /\ sweep' = [sweep EXCEPT ![s] = None]
    /\ UNCHANGED <<tap, taken, told>>

\* The app stops; neither this nor a sign-out touches the rows.
StopSweeps ==
    /\ sweep' = [s \in Sweep |-> None]
    /\ tap' = [t \in Tap |->
          IF tap[t] = None THEN None ELSE [tap[t] EXCEPT !.pc = "over"]]

CrashReceipts ==
    /\ CrashPhone
    /\ StopSweeps
    /\ UNCHANGED <<online, signed, queueVars, receipt, taken, told>>

-----------------------------------------------------------------------------

ReceiptInit ==
    /\ tap = [t \in Tap |-> None] /\ receipt = [t \in Tap |-> None]
    /\ sweep = [s \in Sweep |-> None]
    /\ taken = {}
    /\ told = {}

ReceiptStep ==
    \/ \E t \in Tap :
          \/ \E goods \in Goods : ConfirmTap(t, goods)
          \/ CallConfirm(t) \/ QueueConfirmation(t)
    \/ \E s \in Sweep :
          \/ StartSweep(s)
          \/ \E t \in Tap : SendReceipt(s, t)
          \/ MarkSynced(s) \/ UpdateRetryInfo(s) \/ EndSweep(s)

\* The phone of a member who confirms receipts and queues nothing else.
ReceiptNext ==
    \/ ReceiptStep /\ UNCHANGED offlineVars
    \/ /\ \/ Disconnected \/ SignOut \/ Wipe
          \/ \E u \in Person : SignIn(u)
       /\ UNCHANGED receiptVars
    \/ ~ online /\ online' = TRUE
       /\ UNCHANGED <<signed, wiping, overtaken, crashes, queueVars>>
       /\ UNCHANGED receiptVars
    \/ CrashReceipts

-----------------------------------------------------------------------------
(* Properties. *)

ReceiptTypeOK ==
    /\ tap \in [Tap -> TapRow \cup {None}]
    /\ receipt \in [Tap -> ReceiptRow \cup {None}]
    /\ sweep \in [Sweep -> SweepRow \cup {None}]
    /\ taken \subseteq Goods
    /\ told \subseteq Tap

\* What the phone has shown as collected the server has confirmed, or a row
\* that will be sent is left: through lost answers, two syncs at once, the
\* removal of old rows, a second tap on the item, crashes and a change of user.
ConfirmedIsBacked ==
    \A t \in told : tap[t].goods \in taken \/ t \in Unsynced

=============================================================================
