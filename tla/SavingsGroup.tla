----------------------------- MODULE SavingsGroup -----------------------------
(***************************************************************************)
(* What the services of one savings group share: the people with their     *)
(* roles, the idempotency keys clients send, and the ledger.  Roles are    *)
(* group_members rows with status ACTIVE; they do not change here.         *)
(***************************************************************************)
EXTENDS Ledger, FiniteSets

CONSTANTS
    Officer,     \* the members that are TREASURER or CHAIRPERSON
    Chair,       \* the officers that are CHAIRPERSON
    Key          \* idempotency keys

ASSUME GroupAssumption ==
    /\ Officer \subseteq User
    /\ Chair \subseteq Officer
    /\ IsFiniteSet(Officer)
    /\ None \notin Key

\* The statuses the services give payouts and contributions.
Status == {"PENDING", "APPROVED", "REJECTED", "CANCELLED"}

\* A field left out of an update keeps its stored value.
Given(value, stored) == IF value = None THEN stored ELSE value

\* createSavingsGroup: the creator is the chairperson and the ledger starts
\* with the opening entry.
GroupLedgerInit ==
    /\ ledger \in {<<OpeningEntry(u)>> : u \in Chair}
    /\ tx = [c \in Caller |-> None]
=============================================================================
