-------------------------------- MODULE Ledger --------------------------------
(***************************************************************************)
(* The append-only ledger of one group: LedgerService of backend-nest.     *)
(*                                                                         *)
(* createEntry runs in an interactive transaction at isolation level       *)
(* Serializable.  A transaction reads the balance of the newest entry and  *)
(* later inserts an entry with the balance that follows; between the two   *)
(* any number of other callers run.  PostgreSQL's serializable snapshot    *)
(* isolation aborts a transaction that read a state another one has since  *)
(* changed, so a transaction is kept here as the length of the ledger it   *)
(* read, and commits only if that is still the length.  createEntry does   *)
(* not retry: an abort is an exception for the caller.                     *)
(***************************************************************************)
EXTENDS Integers, Sequences, Functions

CONSTANTS
    Caller,      \* calls of createEntry that may be in flight at once
    Amount,      \* the amounts of money in play, in the smallest unit
    Ref,         \* referenceId values: contributions, payouts, purchases
    User,        \* createdById values
    None,        \* null: no transaction open, no referenceId
    Faults,      \* TRUE if a connection or the process can be lost
    MaxEntries   \* bound on the entries of the stand-alone specification

VARIABLES
    ledger,      \* the rows of ledger_entries, oldest first
    tx           \* the open transaction of each caller

ledgerVars == <<ledger, tx>>

-----------------------------------------------------------------------------

\* isCreditEntry: the entry types that add to the balance.
CreditTypes == {"CONTRIBUTION_CREDIT", "OPENING_BALANCE"}

\* The other types the code inserts; createEntry subtracts their amount.
DebitTypes == {"PAYOUT_DEBIT", "GROCERY_PURCHASE_DEBIT", "CORRECTION"}

EntryType == CreditTypes \cup DebitTypes

Entry == [type : EntryType, amount : Int, balanceAfter : Int,
          ref : Ref \cup {None}, by : User]

Txn == [type : EntryType, amount : Int, ref : Ref \cup {None}, by : User,
        snap : Nat]

ASSUME LedgerAssumption ==
    /\ Amount \subseteq Nat \ {0}
    /\ Faults \in BOOLEAN
    /\ MaxEntries \in Nat
    /\ None \notin Txn
    /\ None \notin Int

\* What an entry of this type and amount does to the balance.
Signed(type, amount) == IF type \in CreditTypes THEN amount ELSE -amount

\* The balanceAfter of entry number n, and 0 before the first entry.
BalanceAt(n) == IF n = 0 THEN 0 ELSE ledger[n].balanceAfter

\* getBalance: the balanceAfter of the newest entry.
Balance == BalanceAt(Len(ledger))

-----------------------------------------------------------------------------
(* createEntry, in its three steps. *)

\* Faulty variant: the snapshot is one entry ahead of what was read.
BeginEntryAhead(c, type, amount, ref, by) ==
    /\ tx[c] = None
    /\ tx' = [tx EXCEPT ![c] = [type |-> type, amount |-> amount, ref |-> ref,
                                by |-> by, snap |-> Len(ledger) + 1]]
    /\ UNCHANGED ledger

\* The transaction starts and reads the newest entry.
BeginEntry(c, type, amount, ref, by) ==
    /\ tx[c] = None
    /\ tx' = [tx EXCEPT ![c] = [type |-> type, amount |-> amount, ref |-> ref,
                                by |-> by, snap |-> Len(ledger)]]
    /\ UNCHANGED ledger

\* Faulty variant: every entry is taken for a credit.
NewBalanceUnsigned(t) == BalanceAt(t.snap) + t.amount

\* The balance the transaction has computed from what it read.
NewBalance(t) == BalanceAt(t.snap) + Signed(t.type, t.amount)

\* Faulty variant: the balance is not checked.
OverdrawnUnchecked(t) == FALSE

\* A debit that the balance read does not cover is refused.
Overdrawn(t) == t.type \notin CreditTypes /\ NewBalance(t) < 0

\* Faulty variant: an isolation level below Serializable notices nothing.
ConflictIgnored(t) == FALSE

\* Another entry was committed after this transaction read the balance.
Conflict(t) == t.snap # Len(ledger)

\* The entry is inserted and the transaction commits.
CommitEntry(c) ==
    /\ tx[c] # None
    /\ ~ Overdrawn(tx[c])
    /\ ~ Conflict(tx[c])
    /\ ledger' = Append(ledger, [type |-> tx[c].type, amount |-> tx[c].amount,
                                 balanceAfter |-> NewBalance(tx[c]),
                                 ref |-> tx[c].ref, by |-> tx[c].by])
    /\ tx' = [tx EXCEPT ![c] = None]

\* The transaction rolls back and createEntry throws: insufficient balance,
\* a serialization failure, or a lost connection.
AbortEntry(c) ==
    /\ tx[c] # None
    /\ Overdrawn(tx[c]) \/ Conflict(tx[c]) \/ Faults
    /\ tx' = [tx EXCEPT ![c] = None]
    /\ UNCHANGED ledger

-----------------------------------------------------------------------------
(* The operations other services call. *)

CreditContribution(c, contribution, amount, by) ==
    BeginEntry(c, "CONTRIBUTION_CREDIT", amount, contribution, by)

DebitPayout(c, payout, amount, by) ==
    BeginEntry(c, "PAYOUT_DEBIT", amount, payout, by)

DebitPurchase(c, purchase, amount, by) ==
    BeginEntry(c, "GROCERY_PURCHASE_DEBIT", amount, purchase, by)

\* createCorrection passes a debit correction as a negated amount.
CreateCorrection(c, amount, isCredit, by) ==
    BeginEntry(c, "CORRECTION", IF isCredit THEN amount ELSE -amount, None, by)

\* createSavingsGroup inserts this row with the group itself.
OpeningEntry(by) ==
    [type |-> "OPENING_BALANCE", amount |-> 0, balanceAfter |-> 0,
     ref |-> None, by |-> by]

\* Faulty variant: the side of an entry is not looked at.
TotalOfAll(types) ==
    SumFunctionOnSet([i \in DOMAIN ledger |-> ledger[i].amount], DOMAIN ledger)

\* getSummary: the entries' amounts added up on the side isCreditEntry says.
TotalOf(types) ==
    SumFunctionOnSet([i \in DOMAIN ledger |-> ledger[i].amount],
                     {i \in DOMAIN ledger : ledger[i].type \in types})

TotalCredits == TotalOf(CreditTypes)
TotalDebits == TotalOf(DebitTypes)

-----------------------------------------------------------------------------
(* The ledger on its own, with callers that ask for anything. *)

\* A savings group starts with its opening entry, a grocery group with none.
LedgerInit ==
    /\ ledger \in {<<>>} \cup {<<OpeningEntry(u)>> : u \in User}
    /\ tx = [c \in Caller |-> None]

Request(c) ==
    /\ Len(ledger) < MaxEntries
    /\ \E a \in Amount, r \in Ref, u \in User :
          \/ CreditContribution(c, r, a, u)
          \/ DebitPayout(c, r, a, u)
          \/ DebitPurchase(c, r, a, u)
          \/ \E isCredit \in BOOLEAN : CreateCorrection(c, a, isCredit, u)

LedgerNext ==
    \E c \in Caller : Request(c) \/ CommitEntry(c) \/ AbortEntry(c)

LedgerSpec == LedgerInit /\ [][LedgerNext]_ledgerVars

-----------------------------------------------------------------------------
(* Properties. *)

\* Rows and transactions have their types; a transaction has read a prefix of
\* the ledger, and one that credits does so with a positive amount.
LedgerTypeOK ==
    /\ ledger \in Seq(Entry)
    /\ tx \in [Caller -> Txn \cup {None}]
    /\ \A c \in Caller : tx[c] # None =>
          /\ tx[c].snap <= Len(ledger)
          /\ tx[c].type \in CreditTypes => tx[c].amount >= 0

\* Every entry carries the balance of the entry before it moved by its own
\* amount: no committed entry was computed from a balance that another caller
\* had already changed, so no write is lost and the stored balance is the sum
\* of the movements ("balances always match transactions").
RunningBalance ==
    \A i \in DOMAIN ledger :
        ledger[i].balanceAfter =
            BalanceAt(i - 1) + Signed(ledger[i].type, ledger[i].amount)

\* The pot is never overdrawn, whatever callers do at the same time: the
\* check that createEntry makes on the balance it read still holds when the
\* entry is committed.
NeverNegative == \A i \in DOMAIN ledger : ledger[i].balanceAfter >= 0

\* The inductive invariant behind the two properties above.
LedgerInv == LedgerTypeOK /\ RunningBalance /\ NeverNegative

\* getSummary's totals, added up over all rows, agree with getBalance, which
\* looks at the newest row only.
SummaryAgrees == TotalCredits - TotalDebits = Balance

\* The ledger implements the atomic pot.
Pot == INSTANCE AtomicPot WITH
          balance <- Balance,
          wanted <- [c \in Caller |-> IF tx[c] = None THEN None
                                      ELSE Signed(tx[c].type, tx[c].amount)],
          Delta <- Amount \cup {-a : a \in Amount}

\* Seen from its callers createEntry is atomic: what happens between the read
\* and the insert of a transaction cannot be told from a single step.
ImplementsPot == Pot!Spec

=============================================================================
