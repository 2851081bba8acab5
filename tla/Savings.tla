------------------------------- MODULE Savings -------------------------------
(***************************************************************************)
(* A savings group: contributions and payouts working on one ledger.       *)
(*                                                                         *)
(* MaxInFlight bounds the requests the backend works on at once.  With 1   *)
(* it is a backend that serves one request of the group after another,     *)
(* which is when the services keep their tables and the ledger together;   *)
(* Payouts and Contributions say what is left of that under concurrency.   *)
(***************************************************************************)
EXTENDS Payouts, Contributions

CONSTANT MaxInFlight

ASSUME SavingsAssumption ==
    /\ MaxInFlight \in Nat \ {0}
    /\ PayoutCaller \cap ContributionCaller = {}
    /\ Payout \cap Contribution = {}

savingsVars == <<payout, vote, minApprovals, payoutCall,
                 contribution, contributionCall, ledger, tx>>

InFlight ==
    Cardinality({c \in PayoutCaller : payoutCall[c] # None})
      + Cardinality({c \in ContributionCaller : contributionCall[c] # None})

Quiet == InFlight = 0

SavingsInit == PayoutInit /\ ContributionInit

PayoutSide ==
    /\ \/ \E c \in PayoutCaller :
            \/ InFlight < MaxInFlight /\ PayoutRequest(c)
            \/ PayoutStep(c)
            \/ CrashPayoutCall(c)
       \/ \E n \in MinApprovals \ {minApprovals} : UpdateRules(n)
    /\ UNCHANGED <<contribution, contributionCall>>

ContributionSide ==
    /\ \E c \in ContributionCaller :
          \/ InFlight < MaxInFlight /\ ContributionRequest(c)
          \/ ContributionStep(c)
          \/ CrashContributionCall(c)
    /\ UNCHANGED <<payout, vote, minApprovals, payoutCall>>

SavingsNext == PayoutSide \/ ContributionSide

SavingsSpec == SavingsInit /\ [][SavingsNext]_savingsVars

\* The event loop runs a handler that has started to its end.
SavingsFairSpec ==
    /\ SavingsSpec
    /\ \A c \in PayoutCaller :
          WF_savingsVars(PayoutStep(c)
                           /\ UNCHANGED <<contribution, contributionCall>>)
    /\ \A c \in ContributionCaller :
          WF_savingsVars(ContributionStep(c)
                           /\ UNCHANGED <<payout, vote, minApprovals, payoutCall>>)

-----------------------------------------------------------------------------
(* Properties. *)

\* The sum of the amounts of these rows of table.
Worth(table, rows) ==
    SumFunctionOnSet([r \in rows |-> table[r].amount], rows)

\* The same of the rows that are APPROVED.
ApprovedTotal(table) ==
    Worth(table, {r \in DOMAIN table : /\ table[r] # None
                                       /\ table[r].status = "APPROVED"})

\* Between requests a payout has one debit if it is APPROVED and none if it is
\* not; a contribution has one credit if it is APPROVED and none if it is not.
BookedOnce ==
    Quiet =>
        /\ \A p \in Payout : Cardinality(Debits(p)) =
              IF PayoutExists(p) /\ payout[p].status = "APPROVED" THEN 1 ELSE 0
        /\ \A i \in Contribution : Cardinality(Credits(i)) =
              IF InStatus(i, "APPROVED") THEN 1 ELSE 0

\* Between requests the tables and the ledger tell one story: every row is
\* booked as it says, and the pot holds the approved contributions less the
\* approved payouts, to the cent.
PotReconciles ==
    /\ BookedOnce
    /\ Quiet => Balance = ApprovedTotal(contribution) - ApprovedTotal(payout)

\* A decision is final: the status of a payout or of a contribution changes
\* only while it is PENDING.
DecisionsFinal ==
    [][/\ \A p \in Payout :
             PayoutExists(p) /\ ~ PayoutPending(p) => payout'[p] = payout[p]
       /\ \A i \in Contribution :
             ContributionExists(i) /\ ~ InStatus(i, "PENDING") =>
                contribution'[i] = contribution[i]]_savingsVars

\* What an officer approves reaches the pot.
ApprovedReachesPot ==
    \A i \in Contribution : InStatus(i, "APPROVED") ~> Credited(i)

-----------------------------------------------------------------------------
(* The inductive invariant behind the first two, for a backend that serves *)
(* one request at a time and no failures.                                    *)

OneAtATime ==
    /\ \A c, d \in PayoutCaller :
          payoutCall[c] # None /\ payoutCall[d] # None => c = d
    /\ \A c, d \in ContributionCaller :
          contributionCall[c] # None /\ contributionCall[d] # None => c = d
    /\ \A c \in PayoutCaller, d \in ContributionCaller :
          payoutCall[c] = None \/ contributionCall[d] = None

\* What a payout handler has read is still so: the payout is PENDING and the
\* balance covers it, and its transaction can only commit.
PayoutReadStands(c) ==
    LET p == payoutCall[c].payout IN
    /\ PayoutAt(c, "insert") => ~ PayoutExists(p)
    /\ payoutCall[c] # None /\ ~ PayoutAt(c, "insert") => PayoutPending(p)
    /\ PayoutAt(c, "vote") \/ PayoutAt(c, "debit") \/ PayoutAt(c, "ledger")
          => payout[p].amount <= Balance
    /\ PayoutAt(c, "ledger") =>
          tx[c].amount = payout[p].amount /\ tx[c].snap = Len(ledger)

\* So is what a contribution handler has read or written.
ContributionReadStands(c) ==
    LET i == contributionCall[c].id IN
    /\ \A pc \in {"approve", "reject", "cancel"} :
          ContributionAt(c, pc) => InStatus(i, "PENDING")
    /\ ContributionAt(c, "credit") \/ ContributionAt(c, "ledger")
          => InStatus(i, "APPROVED")
    /\ ContributionAt(c, "ledger") =>
          tx[c].amount = contribution[i].amount /\ tx[c].snap = Len(ledger)

ReadsStand ==
    /\ \A c \in PayoutCaller : PayoutReadStands(c)
    /\ \A c \in ContributionCaller : ContributionReadStands(c)

\* A handler has debited p and is about to say so.
Settling(p) ==
    \E c \in PayoutCaller : PayoutAt(c, "settle") /\ payoutCall[c].payout = p

\* A handler has approved i and is about to credit it.
Crediting(i) ==
    \E c \in ContributionCaller :
        /\ ContributionAt(c, "credit") \/ ContributionAt(c, "ledger")
        /\ contributionCall[c].id = i

PayoutApproved(p) == PayoutExists(p) /\ payout[p].status = "APPROVED"

\* The status of a row says what the ledger says, but for the row a handler is
\* working on; no row has two entries.
StatusIsBooked ==
    /\ \A p \in Payout :
          /\ Debited(p) <=> PayoutApproved(p) \/ Settling(p)
          /\ \A m, n \in Debits(p) : m = n
    /\ \A i \in Contribution :
          /\ Credited(i) <=> InStatus(i, "APPROVED") /\ ~ Crediting(i)
          /\ \A m, n \in Credits(i) : m = n

PaidOut == {p \in Payout : Debited(p)}

PaidIn == {i \in Contribution : Credited(i)}

\* The balance is what the booked rows are worth.
PotIsBooked ==
    /\ IsFiniteSet(PaidOut) /\ IsFiniteSet(PaidIn)
    /\ Balance = Worth(contribution, PaidIn) - Worth(payout, PaidOut)

SavingsInv ==
    /\ PayoutInv /\ ContributionInv
    /\ OneAtATime
    /\ ReadsStand
    /\ StatusIsBooked
    /\ PotIsBooked
=============================================================================
