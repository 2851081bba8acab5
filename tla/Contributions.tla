---------------------------- MODULE Contributions ----------------------------
(***************************************************************************)
(* Contributions to one savings group: ContributionsService of             *)
(* backend-nest.  Handlers are chains of awaited queries, as in Payouts.   *)
(* The two schemas of the repository disagree on the unique index over     *)
(* (group, member, period): schema.prisma makes it cover every row, the    *)
(* SQL migration only the APPROVED ones.  UniqueOver is the set of         *)
(* statuses the index covers.                                              *)
(***************************************************************************)
EXTENDS SavingsGroup

CONSTANTS
    Contribution,        \* ids of contributions rows
    Period,              \* values of periodStart
    ContributionCaller,  \* requests to this service in flight at once
    UniqueOver           \* statuses of the rows the unique index covers

VARIABLES
    contribution,        \* rows of contributions
    contributionCall     \* the handler each caller is running

contributionVars == <<contribution, contributionCall, ledger, tx>>

ContributionRow == [status : Status, member : User, period : Period,
                    amount : Amount, key : Key \cup {None}]

SubmitCall == [pc : {"pending", "insert"}, id : Contribution, member : User,
               period : Period, amount : Amount, key : Key \cup {None}]

ReviewCall == [pc : {"approve", "credit", "ledger", "reject", "cancel"},
               id : Contribution, user : User]

ASSUME ContributionAssumption ==
    /\ Contribution \subseteq Ref
    /\ ContributionCaller \subseteq Caller
    /\ UniqueOver \in {Status, {"APPROVED"}}
    /\ None \notin SubmitCall \cup ReviewCall \cup ContributionRow

-----------------------------------------------------------------------------

ContributionAt(c, pc) ==
    contributionCall[c] # None /\ contributionCall[c].pc = pc

ContributionGoto(c, pc) ==
    contributionCall' = [contributionCall EXCEPT ![c].pc = pc]

\* The handler returns or throws.
ContributionReturn(c) ==
    contributionCall' = [contributionCall EXCEPT ![c] = None]

StartReview(c, pc, i, u) ==
    /\ contributionCall[c] = None
    /\ contributionCall' = [contributionCall EXCEPT ![c] =
                               [pc |-> pc, id |-> i, user |-> u]]

ContributionExists(i) == contribution[i] # None

InStatus(i, status) ==
    ContributionExists(i) /\ contribution[i].status = status

\* The rows of a member for a period that have this status.
Rows(m, per, status) ==
    {i \in Contribution : /\ InStatus(i, status)
                          /\ contribution[i].member = m
                          /\ contribution[i].period = per}

ContributionKeyTaken(k) ==
    \E i \in Contribution : ContributionExists(i) /\ contribution[i].key = k

\* Faulty variant: the migration without its unique index.
SlotAlwaysFree(i, m, per, status) == TRUE

\* The unique index admits row i of this member and period in this status.
SlotFree(i, m, per, status) ==
    status \in UniqueOver =>
        \A s \in UniqueOver : Rows(m, per, s) \subseteq {i}

-----------------------------------------------------------------------------
(* create *)

\* A member's request: a key already stored returns the stored row; otherwise
\* no approved contribution of the member may exist for the period.  One step
\* stands for both lookups: what changes between them, InsertContribution
\* finds out.
SubmitContribution(c, i, m, per, a, k) ==
    /\ contributionCall[c] = None
    /\ ~ ContributionExists(i)
    /\ \A d \in ContributionCaller :
          contributionCall[d] # None => contributionCall[d].id # i
    /\ k # None => ~ ContributionKeyTaken(k)
    /\ Rows(m, per, "APPROVED") = {}
    /\ contributionCall' = [contributionCall EXCEPT ![c] =
          [pc |-> "pending", id |-> i, member |-> m, period |-> per,
           amount |-> a, key |-> k]]
    /\ UNCHANGED <<contribution, ledger, tx>>

\* Nor may a pending one exist, which the next query finds out.
CheckPending(c) ==
    LET call == contributionCall[c] IN
    /\ ContributionAt(c, "pending")
    /\ IF Rows(call.member, call.period, "PENDING") = {}
       THEN ContributionGoto(c, "insert")
       ELSE ContributionReturn(c)
    /\ UNCHANGED <<contribution, ledger, tx>>

\* The unique index on idempotency_key.
ContributionKeyUnused(k) == k # None => ~ ContributionKeyTaken(k)

\* The row is inserted, or one of the unique indexes throws.
InsertContribution(c) ==
    LET call == contributionCall[c] IN
    /\ ContributionAt(c, "insert")
    /\ IF /\ ContributionKeyUnused(call.key)
          /\ SlotFree(call.id, call.member, call.period, "PENDING")
       THEN contribution' = [contribution EXCEPT ![call.id] =
               [status |-> "PENDING", member |-> call.member,
                period |-> call.period, amount |-> call.amount,
                key |-> call.key]]
       ELSE UNCHANGED contribution
    /\ ContributionReturn(c)
    /\ UNCHANGED <<ledger, tx>>

-----------------------------------------------------------------------------
(* approve, reject, cancel *)

\* The row is updated without a look at its present status.
UpdateStatus(i, status) ==
    contribution' = [contribution EXCEPT ![i].status = status]

\* The row is PENDING, the caller is an officer and not the contributor.
ReadForApprove(c, i, u) ==
    /\ InStatus(i, "PENDING")
    /\ u \in Officer
    /\ u # contribution[i].member
    /\ StartReview(c, "approve", i, u)
    /\ UNCHANGED <<contribution, ledger, tx>>

\* Faulty variant: the ledger is credited first and the status left for later.
ApproveContributionLater(c) ==
    /\ ContributionAt(c, "approve")
    /\ ContributionGoto(c, "credit")
    /\ UNCHANGED <<contribution, ledger, tx>>

\* The status is set before the ledger is credited; the unique index may throw.
ApproveContribution(c) ==
    LET i == contributionCall[c].id
        row == contribution[i]
    IN
    /\ ContributionAt(c, "approve")
    /\ IF SlotFree(i, row.member, row.period, "APPROVED")
       THEN UpdateStatus(i, "APPROVED") /\ ContributionGoto(c, "credit")
       ELSE UNCHANGED contribution /\ ContributionReturn(c)
    /\ UNCHANGED <<ledger, tx>>

\* Faulty variant: the handler returns without crediting the ledger.
StartCreditForgotten(c) ==
    /\ ContributionAt(c, "credit")
    /\ ContributionReturn(c)
    /\ UNCHANGED <<contribution, ledger, tx>>

\* creditContribution opens the ledger transaction.
StartCredit(c) ==
    LET call == contributionCall[c] IN
    /\ ContributionAt(c, "credit")
    /\ CreditContribution(c, call.id, contribution[call.id].amount, call.user)
    /\ ContributionGoto(c, "ledger")
    /\ UNCHANGED contribution

\* creditContribution returns.
FinishCredit(c) ==
    /\ ContributionAt(c, "ledger")
    /\ CommitEntry(c)
    /\ ContributionReturn(c)
    /\ UNCHANGED contribution

\* creditContribution throws, and so does the handler: the status stays.
FailCredit(c) ==
    /\ ContributionAt(c, "ledger")
    /\ AbortEntry(c)
    /\ ContributionReturn(c)
    /\ UNCHANGED contribution

\* Faulty variant: the status is not looked at.
ReadForRejectUnchecked(c, i, u) ==
    /\ ContributionExists(i)
    /\ u \in Officer
    /\ StartReview(c, "reject", i, u)
    /\ UNCHANGED <<contribution, ledger, tx>>

ReadForReject(c, i, u) ==
    /\ InStatus(i, "PENDING")
    /\ u \in Officer
    /\ StartReview(c, "reject", i, u)
    /\ UNCHANGED <<contribution, ledger, tx>>

\* Only the contributor cancels.
ReadForCancelling(c, i, u) ==
    /\ InStatus(i, "PENDING")
    /\ u = contribution[i].member
    /\ StartReview(c, "cancel", i, u)
    /\ UNCHANGED <<contribution, ledger, tx>>

RejectContribution(c) ==
    /\ ContributionAt(c, "reject")
    /\ UpdateStatus(contributionCall[c].id, "REJECTED")
    /\ ContributionReturn(c)
    /\ UNCHANGED <<ledger, tx>>

CancelContribution(c) ==
    /\ ContributionAt(c, "cancel")
    /\ UpdateStatus(contributionCall[c].id, "CANCELLED")
    /\ ContributionReturn(c)
    /\ UNCHANGED <<ledger, tx>>

\* Faulty variant: the transaction outlives the handler that opened it.
CrashContributionCallLeaky(c) ==
    /\ Faults
    /\ contributionCall[c] # None
    /\ ContributionReturn(c)
    /\ UNCHANGED <<contribution, ledger, tx>>

\* A query fails or the process dies, as in Payouts.
CrashContributionCall(c) ==
    /\ Faults
    /\ contributionCall[c] # None
    /\ ContributionReturn(c)
    /\ tx' = [tx EXCEPT ![c] = None]
    /\ UNCHANGED <<contribution, ledger>>

-----------------------------------------------------------------------------
(* The service on its own, in a group that pays out meanwhile. *)

ContributionInit ==
    /\ GroupLedgerInit
    /\ contribution = [i \in Contribution |-> None]
    /\ contributionCall = [c \in ContributionCaller |-> None]

\* A request arrives.
ContributionRequest(c) ==
    \E i \in Contribution, u \in User :
        \/ \E per \in Period, a \in Amount, k \in Key \cup {None} :
              SubmitContribution(c, i, u, per, a, k)
        \/ ReadForApprove(c, i, u)
        \/ ReadForReject(c, i, u)
        \/ ReadForCancelling(c, i, u)

\* A handler in flight goes on.
ContributionStep(c) ==
    \/ CheckPending(c)
    \/ InsertContribution(c)
    \/ ApproveContribution(c)
    \/ StartCredit(c)
    \/ FinishCredit(c)
    \/ FailCredit(c)
    \/ RejectContribution(c)
    \/ CancelContribution(c)

\* Another service debits the pot.
Withdraw(c) ==
    /\ UNCHANGED <<contribution, contributionCall>>
    /\ \/ /\ Len(ledger) < MaxEntries
          /\ \E a \in Amount, r \in Ref \ Contribution, u \in Chair :
                DebitPayout(c, r, a, u)
       \/ CommitEntry(c)
       \/ AbortEntry(c)

ContributionNext ==
    \/ \E c \in ContributionCaller :
          \/ ContributionRequest(c)
          \/ ContributionStep(c)
          \/ CrashContributionCall(c)
    \/ \E c \in Caller \ ContributionCaller : Withdraw(c)

ContributionSpec == ContributionInit /\ [][ContributionNext]_contributionVars

-----------------------------------------------------------------------------
(* Properties. *)

\* Rows and handlers have their types; a review in flight refers to a row that
\* exists, and holds a ledger transaction exactly while it waits for its
\* credit.
ContributionTypeOK ==
    /\ contribution \in [Contribution -> ContributionRow \cup {None}]
    /\ contributionCall \in
          [ContributionCaller -> SubmitCall \cup ReviewCall \cup {None}]
    /\ \A c \in ContributionCaller :
          /\ contributionCall[c] \in ReviewCall =>
                ContributionExists(contributionCall[c].id)
          /\ tx[c] # None <=> ContributionAt(c, "ledger")

\* The ledger entries that credit row i.
Credits(i) == {n \in DOMAIN ledger : ledger[n].type = "CONTRIBUTION_CREDIT"
                                       /\ ledger[n].ref = i}

Credited(i) == Credits(i) # {}

\* A member has one approved contribution per period at most, although the
\* service looks for it well before it inserts or approves a row.
OneApprovedPerPeriod ==
    \A m \in User, per \in Period : Cardinality(Rows(m, per, "APPROVED")) <= 1

\* No money is booked for a contribution that still waits for its decision,
\* even if handlers race or die: nobody can decide it again and book it twice
\* by a later request.
CreditedIsDecided ==
    \A i \in Contribution : Credited(i) => ~ InStatus(i, "PENDING")

\* A contribution has one ledger entry at most: the same payment is never booked
\* twice.
CreditedOnce == \A i \in Contribution : Cardinality(Credits(i)) <= 1

\* A contribution that is approved, with nobody working on it, is in the pot:
\* concurrent approvals in one group are both recorded, no write is lost.
ApprovedIsCredited ==
    (\A c \in ContributionCaller : contributionCall[c] = None) =>
        \A i \in Contribution : InStatus(i, "APPROVED") => Credited(i)

-----------------------------------------------------------------------------
(* The inductive invariant behind the properties that hold. *)

Decided(i) == ContributionExists(i) /\ ~ InStatus(i, "PENDING")

\* A handler about to credit a contribution has decided it, and its open
\* transaction is that credit.
ReviewerOK(c) ==
    LET call == contributionCall[c] IN
    /\ ContributionAt(c, "credit") \/ ContributionAt(c, "ledger")
          => Decided(call.id)
    /\ ContributionAt(c, "ledger") =>
          tx[c].type = "CONTRIBUTION_CREDIT" /\ tx[c].ref = call.id

\* The row a handler is about to insert is nobody else's.
SubmitterOK(c) ==
    contributionCall[c] \in SubmitCall =>
        LET i == contributionCall[c].id IN
        /\ ~ ContributionExists(i)
        /\ \A d \in ContributionCaller \ {c} :
              contributionCall[d] # None => contributionCall[d].id # i

\* The rest of the group books no contributions.
OthersDebit ==
    \A c \in Caller \ ContributionCaller :
        tx[c] # None => tx[c].type = "PAYOUT_DEBIT"

\* OneApprovedPerPeriod without a count.
OneApproved ==
    \A i, j \in Contribution :
        /\ InStatus(i, "APPROVED") /\ InStatus(j, "APPROVED")
        /\ contribution[i].member = contribution[j].member
        /\ contribution[i].period = contribution[j].period
        => i = j

CreditedWasDecided == \A i \in Contribution : Credited(i) => Decided(i)

ContributionInv ==
    /\ LedgerInv
    /\ ContributionTypeOK
    /\ \A c \in ContributionCaller : ReviewerOK(c) /\ SubmitterOK(c)
    /\ OthersDebit
    /\ OneApproved
    /\ CreditedWasDecided
=============================================================================
