------------------------------- MODULE Payouts -------------------------------
(***************************************************************************)
(* Payouts of one savings group: SavingsPayoutsService of backend-nest.    *)
(*                                                                         *)
(* Each HTTP request runs its handler as a chain of awaited queries, none  *)
(* of them in a common transaction, so between two steps of one handler    *)
(* any other handler runs.  A handler in flight is a record with a program *)
(* counter and the values it read; each action is one awaited query with   *)
(* the code up to the next one.  Membership roles do not change here.      *)
(***************************************************************************)
EXTENDS SavingsGroup

CONSTANTS
    Payout,         \* ids of savings_payouts rows
    PayoutCaller,   \* requests to this service that may be in flight at once
    MinApprovals    \* values the rules' minApprovalCount takes

VARIABLES
    payout,         \* rows of savings_payouts
    vote,           \* rows of savings_payout_approvals, by payout and officer
    minApprovals,   \* savings_rules.minApprovalCount
    payoutCall      \* the handler each caller is running

payoutVars == <<payout, vote, minApprovals, payoutCall, ledger, tx>>

PayoutRow == [status : Status, amount : Amount, creator : User,
              key : Key \cup {None}]

CreateCall == [pc : {"insert"}, payout : Payout, user : User,
               amount : Amount, key : Key \cup {None}]

DecisionCall == [pc : {"balance", "vote", "debit", "ledger", "settle",
                       "veto", "reject", "cancel"},
                 payout : Payout, user : User,
                 seen : SUBSET Officer, required : MinApprovals]

ASSUME PayoutAssumption ==
    /\ Payout \subseteq Ref
    /\ PayoutCaller \subseteq Caller
    /\ MinApprovals \subseteq 1..10
    /\ None \notin CreateCall \cup DecisionCall \cup PayoutRow

-----------------------------------------------------------------------------

PayoutAt(c, pc) == payoutCall[c] # None /\ payoutCall[c].pc = pc

PayoutGoto(c, pc) == payoutCall' = [payoutCall EXCEPT ![c].pc = pc]

\* The handler returns or throws.
PayoutReturn(c) == payoutCall' = [payoutCall EXCEPT ![c] = None]

\* A handler starts; only the approval handler keeps what it has read.
StartDecision(c, pc, p, u, seen) ==
    /\ payoutCall[c] = None
    /\ payoutCall' = [payoutCall EXCEPT ![c] =
          [pc |-> pc, payout |-> p, user |-> u, seen |-> seen,
           required |-> minApprovals]]

PayoutExists(p) == payout[p] # None

PayoutPending(p) == PayoutExists(p) /\ payout[p].status = "PENDING"

SetPayoutStatus(p, status) == payout' = [payout EXCEPT ![p].status = status]

\* The officers whose decision row for p says APPROVED.
Approvers(p) == {o \in Officer : vote[p][o] = "APPROVED"}

PayoutKeyTaken(k) == \E p \in Payout : PayoutExists(p) /\ payout[p].key = k

-----------------------------------------------------------------------------
(* createPayout *)

\* The balance and then the idempotency key are looked up.  What changes
\* between the two lookups only decides whether the insert below is tried or
\* refused, so one step stands for both.  A key already stored returns the
\* stored row and changes nothing.  The new row's id is random, so no other row
\* and no other request has it.
CreatePayout(c, p, u, a, k) ==
    /\ payoutCall[c] = None
    /\ ~ PayoutExists(p)
    /\ \A d \in PayoutCaller :
          PayoutAt(d, "insert") => payoutCall[d].payout # p
    /\ u \in Officer
    /\ a <= Balance
    /\ k # None => ~ PayoutKeyTaken(k)
    /\ payoutCall' = [payoutCall EXCEPT ![c] =
          [pc |-> "insert", payout |-> p, user |-> u, amount |-> a, key |-> k]]
    /\ UNCHANGED <<payout, vote, minApprovals, ledger, tx>>

\* The unique index on idempotency_key.
PayoutKeyUnused(k) == k # None => ~ PayoutKeyTaken(k)

\* The row is inserted, or the unique index throws.
InsertPayout(c) ==
    /\ PayoutAt(c, "insert")
    /\ IF PayoutKeyUnused(payoutCall[c].key)
       THEN payout' = [payout EXCEPT ![payoutCall[c].payout] =
               [status |-> "PENDING", amount |-> payoutCall[c].amount,
                creator |-> payoutCall[c].user, key |-> payoutCall[c].key]]
       ELSE UNCHANGED payout
    /\ PayoutReturn(c)
    /\ UNCHANGED <<vote, minApprovals, ledger, tx>>

-----------------------------------------------------------------------------
(* approvePayout *)

\* The payout is read with its votes and the rules; it is PENDING, the caller
\* is an officer and has no vote among those read.
ReadForApproval(c, p, u) ==
    /\ PayoutPending(p)
    /\ u \in Officer
    /\ vote[p][u] = "NONE"
    /\ StartDecision(c, "balance", p, u, Approvers(p))
    /\ UNCHANGED <<payout, vote, minApprovals, ledger, tx>>

\* getBalance has to cover the amount.
CheckBalance(c) ==
    /\ PayoutAt(c, "balance")
    /\ IF payout[payoutCall[c].payout].amount <= Balance
       THEN PayoutGoto(c, "vote")
       ELSE PayoutReturn(c)
    /\ UNCHANGED <<payout, vote, minApprovals, ledger, tx>>

\* Faulty variant: no unique index on (payout, approver).
MayVoteAgain(c) == TRUE

\* The unique index on (payout, approver) leaves room for this officer's row.
MayVote(c) == vote[payoutCall[c].payout][payoutCall[c].user] = "NONE"

Vote(c, decision) ==
    vote' = [vote EXCEPT ![payoutCall[c].payout][payoutCall[c].user] =
                decision]

\* Faulty variants: the threshold is off by one, in either direction.
QuorumShort(call) == Cardinality(call.seen) + 2 >= call.required
QuorumLong(call) == Cardinality(call.seen) >= call.required

\* The votes read plus this one reach the number the rules asked for.
Quorum(call) == Cardinality(call.seen) + 1 >= call.required

\* The approval row is inserted, or the unique index throws.  With enough
\* approvals the handler goes on to the ledger.
InsertApproval(c) ==
    /\ PayoutAt(c, "vote")
    /\ IF MayVote(c)
       THEN /\ Vote(c, "APPROVED")
            /\ IF Quorum(payoutCall[c]) THEN PayoutGoto(c, "debit")
                                         ELSE PayoutReturn(c)
       ELSE UNCHANGED vote /\ PayoutReturn(c)
    /\ UNCHANGED <<payout, minApprovals, ledger, tx>>

\* debitPayout opens the ledger transaction.
StartDebit(c) ==
    LET call == payoutCall[c] IN
    /\ PayoutAt(c, "debit")
    /\ DebitPayout(c, call.payout, payout[call.payout].amount, call.user)
    /\ PayoutGoto(c, "ledger")
    /\ UNCHANGED <<payout, vote, minApprovals>>

\* debitPayout returns.
FinishDebit(c) ==
    /\ PayoutAt(c, "ledger")
    /\ CommitEntry(c)
    /\ PayoutGoto(c, "settle")
    /\ UNCHANGED <<payout, vote, minApprovals>>

\* Faulty variant: the exception of debitPayout is swallowed.
FailDebitSwallowed(c) ==
    /\ PayoutAt(c, "ledger")
    /\ AbortEntry(c)
    /\ PayoutGoto(c, "settle")
    /\ UNCHANGED <<payout, vote, minApprovals>>

\* debitPayout throws, and so does the handler: the vote stays.
FailDebit(c) ==
    /\ PayoutAt(c, "ledger")
    /\ AbortEntry(c)
    /\ PayoutReturn(c)
    /\ UNCHANGED <<payout, vote, minApprovals>>

\* The status is updated, whatever it has become in the meantime.
SettlePayout(c) ==
    /\ PayoutAt(c, "settle")
    /\ SetPayoutStatus(payoutCall[c].payout, "APPROVED")
    /\ PayoutReturn(c)
    /\ UNCHANGED <<vote, minApprovals, ledger, tx>>

-----------------------------------------------------------------------------
(* rejectPayout, cancelPayout, updateSavingsRules *)

ReadForRejection(c, p, u) ==
    /\ PayoutPending(p)
    /\ u \in Officer
    /\ StartDecision(c, "veto", p, u, {})
    /\ UNCHANGED <<payout, vote, minApprovals, ledger, tx>>

\* The rejection row is inserted, or the unique index throws: an officer who
\* has voted cannot reject.
InsertRejection(c) ==
    /\ PayoutAt(c, "veto")
    /\ IF MayVote(c)
       THEN Vote(c, "REJECTED") /\ PayoutGoto(c, "reject")
       ELSE UNCHANGED vote /\ PayoutReturn(c)
    /\ UNCHANGED <<payout, minApprovals, ledger, tx>>

RejectPayout(c) ==
    /\ PayoutAt(c, "reject")
    /\ SetPayoutStatus(payoutCall[c].payout, "REJECTED")
    /\ PayoutReturn(c)
    /\ UNCHANGED <<vote, minApprovals, ledger, tx>>

\* Faulty variant: the status is not looked at.
ReadForCancelUnchecked(c, p, u) ==
    /\ PayoutExists(p)
    /\ u = payout[p].creator \/ u \in Chair
    /\ StartDecision(c, "cancel", p, u, {})
    /\ UNCHANGED <<payout, vote, minApprovals, ledger, tx>>

\* The creator or a chairperson may cancel.
ReadForCancel(c, p, u) ==
    /\ PayoutPending(p)
    /\ u = payout[p].creator \/ u \in Chair
    /\ StartDecision(c, "cancel", p, u, {})
    /\ UNCHANGED <<payout, vote, minApprovals, ledger, tx>>

CancelPayout(c) ==
    /\ PayoutAt(c, "cancel")
    /\ SetPayoutStatus(payoutCall[c].payout, "CANCELLED")
    /\ PayoutReturn(c)
    /\ UNCHANGED <<vote, minApprovals, ledger, tx>>

\* The chairperson changes minApprovalCount.
UpdateRules(n) ==
    /\ minApprovals' = n
    /\ UNCHANGED <<payout, vote, payoutCall, ledger, tx>>

\* Faulty variant: the transaction outlives the handler that opened it.
CrashPayoutCallLeaky(c) ==
    /\ Faults
    /\ payoutCall[c] # None
    /\ PayoutReturn(c)
    /\ UNCHANGED <<payout, vote, minApprovals, ledger, tx>>

\* A query fails or the process dies: the handler is gone, an open transaction
\* is rolled back, and what earlier steps wrote stays.
CrashPayoutCall(c) ==
    /\ Faults
    /\ payoutCall[c] # None
    /\ PayoutReturn(c)
    /\ tx' = [tx EXCEPT ![c] = None]
    /\ UNCHANGED <<payout, vote, minApprovals, ledger>>

-----------------------------------------------------------------------------
(* The service on its own, in a group whose members pay in meanwhile. *)

PayoutInit ==
    /\ GroupLedgerInit
    /\ payout = [p \in Payout |-> None]
    /\ vote = [p \in Payout |-> [o \in Officer |-> "NONE"]]
    /\ minApprovals \in MinApprovals
    /\ payoutCall = [c \in PayoutCaller |-> None]

\* A request arrives.
PayoutRequest(c) ==
    \E p \in Payout, u \in User :
        \/ \E a \in Amount, k \in Key \cup {None} : CreatePayout(c, p, u, a, k)
        \/ ReadForApproval(c, p, u)
        \/ ReadForRejection(c, p, u)
        \/ ReadForCancel(c, p, u)

\* A handler in flight goes on.
PayoutStep(c) ==
    \/ InsertPayout(c)
    \/ CheckBalance(c)
    \/ InsertApproval(c)
    \/ StartDebit(c)
    \/ FinishDebit(c)
    \/ FailDebit(c)
    \/ SettlePayout(c)
    \/ InsertRejection(c)
    \/ RejectPayout(c)
    \/ CancelPayout(c)

\* Another service credits the pot.
Deposit(c) ==
    /\ UNCHANGED <<payout, vote, minApprovals, payoutCall>>
    /\ \/ /\ Len(ledger) < MaxEntries
          /\ \E a \in Amount, r \in Ref \ Payout, u \in Chair :
                CreditContribution(c, r, a, u)
       \/ CommitEntry(c)
       \/ AbortEntry(c)

PayoutNext ==
    \/ \E c \in PayoutCaller :
          PayoutRequest(c) \/ PayoutStep(c) \/ CrashPayoutCall(c)
    \/ \E n \in MinApprovals \ {minApprovals} : UpdateRules(n)
    \/ \E c \in Caller \ PayoutCaller : Deposit(c)

PayoutSpec == PayoutInit /\ [][PayoutNext]_payoutVars

\* A handler that has started is run to its end by the event loop.  Nobody has
\* to send a request.
PayoutFairSpec ==
    PayoutSpec /\ \A c \in PayoutCaller : WF_payoutVars(PayoutStep(c))

-----------------------------------------------------------------------------
(* Properties. *)

\* Rows, votes and handlers have their types; a handler in flight refers to a
\* row that exists, and holds a ledger transaction exactly while it waits for
\* its debit.
PayoutTypeOK ==
    /\ payout \in [Payout -> PayoutRow \cup {None}]
    /\ vote \in [Payout -> [Officer -> {"NONE", "APPROVED", "REJECTED"}]]
    /\ minApprovals \in MinApprovals
    /\ payoutCall \in
          [PayoutCaller -> CreateCall \cup DecisionCall \cup {None}]
    /\ \A c \in PayoutCaller :
          /\ payoutCall[c] \in DecisionCall =>
                PayoutExists(payoutCall[c].payout)
          /\ tx[c] # None <=> PayoutAt(c, "ledger")

\* The ledger entries that debit p.
Debits(p) == {i \in DOMAIN ledger : ledger[i].type = "PAYOUT_DEBIT"
                                      /\ ledger[i].ref = p}

Debited(p) == Debits(p) # {}

\* No money leaves the pot without a quorum: behind every debit of a payout are
\* recorded approvals of at least as many officers as some rules in force asked
\* for, although each handler counts the votes it read before its own.
QuorumBehindDebit ==
    \A p \in Payout : Debited(p) =>
        \E n \in MinApprovals : Cardinality(Approvers(p)) >= n

\* Each further debit of one payout takes a further approving officer.  With as
\* many officers as approvals required, a payout is debited once at most.
DebitsBackedByVotes ==
    \A p \in Payout : Debited(p) =>
        \E n \in MinApprovals :
            Cardinality(Debits(p)) + n - 1 <= Cardinality(Approvers(p))

\* A payout that says APPROVED has been taken from the pot, even if handlers
\* race or die.
ApprovedIsDebited ==
    \A p \in Payout :
        PayoutExists(p) /\ payout[p].status = "APPROVED" => Debited(p)

\* A payout that has as many approvals as any rules asked for does not stay
\* undecided: once the threshold is met it is on its way to APPROVED.
QuorumSettles ==
    \A p \in Payout :
        (/\ PayoutPending(p)
         /\ \A n \in MinApprovals : Cardinality(Approvers(p)) >= n)
            ~> ~ PayoutPending(p)

\* A payout has one ledger entry at most: the same payout is never taken from
\* the pot twice.
DebitedOnce == \A p \in Payout : Cardinality(Debits(p)) <= 1

-----------------------------------------------------------------------------
(* The inductive invariant behind the safety properties. *)

\* What a handler in flight still knows to be true, whatever others have done
\* since it read: the votes it has read stand, its own vote stands, and its
\* ledger transaction is the debit of its payout.
HandlerOK(c) ==
    LET call == payoutCall[c] IN
    /\ PayoutAt(c, "balance") \/ PayoutAt(c, "vote") =>
          /\ call.user \in Officer
          /\ call.seen \subseteq Approvers(call.payout)
    /\ PayoutAt(c, "veto") => call.user \in Officer
    /\ PayoutAt(c, "debit") \/ PayoutAt(c, "ledger") =>
          call.user \in Approvers(call.payout)
    /\ PayoutAt(c, "ledger") =>
          /\ tx[c].type = "PAYOUT_DEBIT"
          /\ tx[c].ref = call.payout
          /\ tx[c].by = call.user
    /\ PayoutAt(c, "settle") => Debited(call.payout)

HandlersOK == \A c \in PayoutCaller : HandlerOK(c)

\* The other service only credits.
OthersCredit ==
    \A c \in Caller \ PayoutCaller :
        tx[c] # None => tx[c].type = "CONTRIBUTION_CREDIT"

\* The handlers that have reached the quorum for p and not debited it yet.
Paying(p) ==
    {c \in PayoutCaller : /\ PayoutAt(c, "debit") \/ PayoutAt(c, "ledger")
                          /\ payoutCall[c].payout = p}

\* Each debit made or under way is signed by an approving officer, and no
\* officer signs two of one payout.
SignedOnce ==
    \A p \in Payout :
        /\ \A c, d \in Paying(p) :
              payoutCall[c].user = payoutCall[d].user => c = d
        /\ \A c \in Paying(p), i \in Debits(p) :
              payoutCall[c].user # ledger[i].by
        /\ \A i, j \in Debits(p) : ledger[i].by = ledger[j].by => i = j
        /\ \A i \in Debits(p) : ledger[i].by \in Approvers(p)

\* Behind all the debits of p, made or under way, stand as many officers as
\* some rules asked for less one, none of whom signed a debit: those whose
\* votes the first of the signers had read.
Backing(p, n, rest) ==
    /\ rest \subseteq Approvers(p)
    /\ Cardinality(rest) >= n - 1
    /\ \A c \in Paying(p) : payoutCall[c].user \notin rest
    /\ \A i \in Debits(p) : ledger[i].by \notin rest

Backed ==
    \A p \in Payout :
        Paying(p) # {} \/ Debited(p) =>
            \E n \in MinApprovals : \E rest \in SUBSET Officer :
                Backing(p, n, rest)

PayoutInv ==
    /\ PayoutTypeOK
    /\ LedgerInv
    /\ HandlersOK
    /\ OthersCredit
    /\ SignedOnce
    /\ Backed
    /\ ApprovedIsDebited
=============================================================================
