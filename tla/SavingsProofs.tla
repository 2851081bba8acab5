---------------------------- MODULE SavingsProofs ----------------------------
(***************************************************************************)
(* The savings group: what each service keeps, the two of them keep on one *)
(* ledger, for any number of requests in flight and with failures; and a   *)
(* backend that serves one request at a time, without failures, keeps the  *)
(* tables and the ledger together.                                         *)
(***************************************************************************)
EXTENDS Savings, PayoutProofs, ContributionProofs, SumProofs

-----------------------------------------------------------------------------
(* Two services on one ledger. *)

\* A step leaves the transactions of everybody else alone, and an entry it adds
\* is of this type.
OwnEntries(callers, type) ==
    /\ \A d \in Caller \ callers : tx'[d] = tx[d]
    /\ \/ ledger' = ledger
       \/ \E c \in callers : CommitEntry(c) /\ tx[c].type = type

\* The payouts service books nothing but debits of payouts.
LEMMA PayoutEntries ==
    ASSUME PayoutInv, PayoutSide
    PROVE  OwnEntries(PayoutCaller, "PAYOUT_DEBIT")
<1>1. PayoutCaller \subseteq Caller /\ tx \in [Caller -> Txn \cup {None}]
    BY PayoutAssumption DEF PayoutInv, LedgerInv, LedgerTypeOK
<1>2. ASSUME NEW c \in PayoutCaller, PayoutRequest(c)
      PROVE  ledger' = ledger /\ tx' = tx
    BY <1>2 DEF PayoutRequest, CreatePayout, ReadForApproval, ReadForRejection,
                ReadForCancel
<1>3. ASSUME NEW c \in PayoutCaller,
             \/ InsertPayout(c)
             \/ CheckBalance(c)
             \/ InsertApproval(c)
             \/ SettlePayout(c)
             \/ InsertRejection(c)
             \/ RejectPayout(c)
             \/ CancelPayout(c)
      PROVE  ledger' = ledger /\ tx' = tx
    BY <1>3 DEF InsertPayout, CheckBalance, InsertApproval, SettlePayout,
                InsertRejection, RejectPayout, CancelPayout
<1>4. ASSUME NEW c \in PayoutCaller, StartDebit(c)
      PROVE  ledger' = ledger /\ \A d \in Caller \ {c} : tx'[d] = tx[d]
    BY <1>1, <1>4 DEF StartDebit, DebitPayout, BeginEntry
<1>5. ASSUME NEW c \in PayoutCaller, FailDebit(c) \/ CrashPayoutCall(c)
      PROVE  ledger' = ledger /\ \A d \in Caller \ {c} : tx'[d] = tx[d]
    BY <1>1, <1>5 DEF FailDebit, CrashPayoutCall, AbortEntry
<1>6. ASSUME NEW c \in PayoutCaller, FinishDebit(c)
      PROVE  /\ CommitEntry(c) /\ tx[c].type = "PAYOUT_DEBIT"
             /\ \A d \in Caller \ {c} : tx'[d] = tx[d]
    BY <1>1, <1>6 DEF FinishDebit, CommitEntry, PayoutInv, HandlersOK, HandlerOK
<1>7. ASSUME NEW n, UpdateRules(n)
      PROVE  ledger' = ledger /\ tx' = tx
    BY <1>7 DEF UpdateRules
<1>8. QED
    BY <1>2, <1>3, <1>4, <1>5, <1>6, <1>7 DEF PayoutSide, PayoutStep, OwnEntries

\* The contributions service books nothing but credits of contributions.
LEMMA ContributionEntries ==
    ASSUME ContributionInv, ContributionSide
    PROVE  OwnEntries(ContributionCaller, "CONTRIBUTION_CREDIT")
<1>1. ContributionCaller \subseteq Caller /\ tx \in [Caller -> Txn \cup {None}]
    BY ContributionAssumption DEF ContributionInv, LedgerInv, LedgerTypeOK
<1>2. ASSUME NEW c \in ContributionCaller, ContributionRequest(c)
      PROVE  ledger' = ledger /\ tx' = tx
    BY <1>2 DEF ContributionRequest, SubmitContribution, ReadForApprove,
                ReadForReject, ReadForCancelling
<1>3. ASSUME NEW c \in ContributionCaller,
             \/ CheckPending(c)
             \/ InsertContribution(c)
             \/ ApproveContribution(c)
             \/ RejectContribution(c)
             \/ CancelContribution(c)
      PROVE  ledger' = ledger /\ tx' = tx
    BY <1>3 DEF CheckPending, InsertContribution, ApproveContribution,
                RejectContribution, CancelContribution
<1>4. ASSUME NEW c \in ContributionCaller, StartCredit(c)
      PROVE  ledger' = ledger /\ \A d \in Caller \ {c} : tx'[d] = tx[d]
    BY <1>1, <1>4 DEF StartCredit, CreditContribution, BeginEntry
<1>5. ASSUME NEW c \in ContributionCaller,
             FailCredit(c) \/ CrashContributionCall(c)
      PROVE  ledger' = ledger /\ \A d \in Caller \ {c} : tx'[d] = tx[d]
    BY <1>1, <1>5 DEF FailCredit, CrashContributionCall, AbortEntry
<1>6. ASSUME NEW c \in ContributionCaller, FinishCredit(c)
      PROVE  /\ CommitEntry(c) /\ tx[c].type = "CONTRIBUTION_CREDIT"
             /\ \A d \in Caller \ {c} : tx'[d] = tx[d]
    BY <1>1, <1>6 DEF FinishCredit, CommitEntry, ContributionInv, ReviewerOK
<1>7. QED
    BY <1>2, <1>3, <1>4, <1>5, <1>6
       DEF ContributionSide, ContributionStep, OwnEntries

\* What the contributions service does is nothing to the payouts service.
LEMMA PayoutsUndisturbed ==
    ASSUME PayoutInv, ContributionInv, ContributionSide, ContributionInv'
    PROVE  PayoutInv'
<1>1. UNCHANGED <<payout, vote, minApprovals, payoutCall>>
    BY DEF ContributionSide
<1>2. OwnEntries(ContributionCaller, "CONTRIBUTION_CREDIT")
    BY ContributionEntries
<1>3. /\ PayoutCaller \subseteq Caller /\ ContributionCaller \subseteq Caller
      /\ PayoutCaller \cap ContributionCaller = {}
    BY PayoutAssumption, ContributionAssumption, SavingsAssumption
<1>4. \A d \in PayoutCaller : tx'[d] = tx[d]
    BY <1>2, <1>3 DEF OwnEntries
<1>5. LedgerInv'
    BY DEF ContributionInv
<1>6. OthersCredit'
    <2>1. SUFFICES ASSUME NEW d \in Caller \ PayoutCaller, tx'[d] # None
                   PROVE  tx'[d].type = "CONTRIBUTION_CREDIT"
        BY DEF OthersCredit
    <2>2. CASE d \in ContributionCaller
        BY <2>1, <2>2 DEF ContributionInv, ContributionTypeOK, ReviewerOK
    <2>3. CASE d \notin ContributionCaller
        BY <1>2, <2>1, <2>3 DEF OwnEntries, PayoutInv, OthersCredit
    <2>4. QED
        BY <2>2, <2>3
<1>7. DebitsKept
    <2>1. CASE ledger' = ledger
        BY <2>1 DEF DebitsKept, Debits
    <2>2. ASSUME NEW c \in ContributionCaller, CommitEntry(c),
                 tx[c].type = "CONTRIBUTION_CREDIT"
          PROVE  DebitsKept
        <3>1. PICK i : i = Len(ledger) + 1
            OBVIOUS
        <3>2. /\ DOMAIN ledger' = DOMAIN ledger \cup {i}
              /\ i \notin DOMAIN ledger
              /\ ledger'[i].type = tx[c].type
              /\ \A j \in DOMAIN ledger : ledger'[j] = ledger[j]
            BY <1>3, <2>2, <3>1, CommitRows DEF PayoutInv
        <3>3. QED
            BY <2>2, <3>2 DEF DebitsKept, Debits
    <2>3. QED
        BY <1>2, <2>1, <2>2 DEF OwnEntries
<1>8. QED
    BY <1>1, <1>4, <1>5, <1>6, <1>7, OutsideStep

\* And the other way round.
LEMMA ContributionsUndisturbed ==
    ASSUME PayoutInv, ContributionInv, PayoutSide, PayoutInv'
    PROVE  ContributionInv'
<1>1. UNCHANGED <<contribution, contributionCall>>
    BY DEF PayoutSide
<1>2. OwnEntries(PayoutCaller, "PAYOUT_DEBIT")
    BY PayoutEntries
<1>3. /\ PayoutCaller \subseteq Caller /\ ContributionCaller \subseteq Caller
      /\ PayoutCaller \cap ContributionCaller = {}
    BY PayoutAssumption, ContributionAssumption, SavingsAssumption
<1>4. \A d \in ContributionCaller : tx'[d] = tx[d]
    BY <1>2, <1>3 DEF OwnEntries
<1>5. LedgerInv'
    BY DEF PayoutInv
<1>6. OthersDebit'
    <2>1. SUFFICES ASSUME NEW d \in Caller \ ContributionCaller, tx'[d] # None
                   PROVE  tx'[d].type = "PAYOUT_DEBIT"
        BY DEF OthersDebit
    <2>2. CASE d \in PayoutCaller
        BY <2>1, <2>2 DEF PayoutInv, PayoutTypeOK, HandlersOK, HandlerOK
    <2>3. CASE d \notin PayoutCaller
        BY <1>2, <2>1, <2>3 DEF OwnEntries, ContributionInv, OthersDebit
    <2>4. QED
        BY <2>2, <2>3
<1>7. \A i \in Contribution : Credited(i)' => Credited(i)
    <2>1. CASE ledger' = ledger
        BY <2>1 DEF Credited, Credits
    <2>2. ASSUME NEW c \in PayoutCaller, CommitEntry(c),
                 tx[c].type = "PAYOUT_DEBIT"
          PROVE  \A i \in Contribution : Credited(i)' => Credited(i)
        BY <1>3, <2>2, CommitCredits DEF ContributionInv
    <2>3. QED
        BY <1>2, <2>1, <2>2 DEF OwnEntries
<1>8. QED
    BY <1>1, <1>4, <1>5, <1>6, <1>7, ElsewhereStep

BothInv == PayoutInv /\ ContributionInv

LEMMA BothInit == SavingsInit => BothInv
BY PayoutInitInv, ContributionInitInv DEF SavingsInit, BothInv

LEMMA BothStep == BothInv /\ [SavingsNext]_savingsVars => BothInv'
<1> SUFFICES ASSUME PayoutInv, ContributionInv, [SavingsNext]_savingsVars
             PROVE  PayoutInv' /\ ContributionInv'
    BY DEF BothInv
<1>1. CASE PayoutSide
    <2>1. PayoutNext
        BY <1>1 DEF PayoutSide, PayoutNext
    <2>2. PayoutInv'
        BY <2>1, PayoutStepInv
    <2>3. QED
        BY <1>1, <2>2, ContributionsUndisturbed
<1>2. CASE ContributionSide
    <2>1. ContributionNext
        BY <1>2 DEF ContributionSide, ContributionNext
    <2>2. ContributionInv'
        BY <2>1, ContributionStepInv
    <2>3. QED
        BY <1>2, <2>2, PayoutsUndisturbed
<1>3. CASE UNCHANGED savingsVars
    <2>1. UNCHANGED payoutVars /\ UNCHANGED contributionVars
        BY <1>3 DEF savingsVars, payoutVars, contributionVars
    <2>2. QED
        BY <2>1, PayoutStepInv, ContributionStepInv
<1>4. QED
    BY <1>1, <1>2, <1>3 DEF SavingsNext

\* What the payouts service promises by itself it keeps when contributions are
\* credited to the same pot meanwhile, with any number of requests of either
\* service in flight and failures at every step: a payout marked APPROVED was
\* debited, and no debit goes without its quorum of recorded approvals.
THEOREM SavingsPayoutsSafe ==
    SavingsSpec => [](ApprovedIsDebited /\ DebitsBackedByVotes /\ QuorumBehindDebit)
<1>1. BothInv => ApprovedIsDebited /\ DebitsBackedByVotes /\ QuorumBehindDebit
    BY VotesBehindDebits, QuorumFollows DEF BothInv, DebitsBackedByVotes, PayoutInv
<1>2. QED
    BY BothInit, BothStep, <1>1, PTL DEF SavingsSpec

\* And so does the contributions service while payouts are debited: one
\* approved contribution per member and period, and no money booked for a row
\* that still waits for its decision.
THEOREM SavingsContributionsSafe ==
    SavingsSpec => [](OneApprovedPerPeriod /\ CreditedIsDecided)
<1>1. BothInv => OneApprovedPerPeriod /\ CreditedIsDecided
    BY OneApprovedFollows DEF BothInv, ContributionInv, CreditedWasDecided,
                              Decided, CreditedIsDecided
<1>2. QED
    BY BothInit, BothStep, <1>1, PTL DEF SavingsSpec

\* The ledger the two services share always adds up and is never overdrawn, and
\* getSummary agrees with getBalance.
THEOREM SavingsPotSound ==
    SavingsSpec => [](RunningBalance /\ NeverNegative /\ SummaryAgrees)
<1>1. BothInv => RunningBalance /\ NeverNegative /\ SummaryAgrees
    BY SummaryFollows DEF BothInv, PayoutInv, LedgerInv
<1>2. QED
    BY BothInit, BothStep, <1>1, PTL DEF SavingsSpec

-----------------------------------------------------------------------------
(* One request at a time: who is at work. *)

\* The payouts handler c has the backend to itself.
PayoutAlone(c) ==
    /\ \A d \in PayoutCaller \ {c} : payoutCall[d] = None
    /\ \A d \in ContributionCaller : contributionCall[d] = None

\* So has the contributions handler c.
ContributionAlone(c) ==
    /\ \A d \in ContributionCaller \ {c} : contributionCall[d] = None
    /\ \A d \in PayoutCaller : payoutCall[d] = None

\* What is counted in InFlight is there.
LEMMA NobodyInFlight ==
    ASSUME OneAtATime, InFlight < 1 \/ InFlight = 0
    PROVE  /\ \A c \in PayoutCaller : payoutCall[c] = None
           /\ \A c \in ContributionCaller : contributionCall[c] = None
<1> DEFINE P == {c \in PayoutCaller : payoutCall[c] # None}
           C == {c \in ContributionCaller : contributionCall[c] # None}
<1>1. IsFiniteSet(P)
    <2>1. CASE P = {}
        BY <2>1, FS_EmptySet
    <2>2. ASSUME NEW c \in P PROVE IsFiniteSet(P)
        <3>1. P = {c}
            BY <2>2 DEF OneAtATime
        <3>2. QED
            BY <3>1, FS_Singleton
    <2>3. QED
        BY <2>1, <2>2
<1>2. IsFiniteSet(C)
    <2>1. CASE C = {}
        BY <2>1, FS_EmptySet
    <2>2. ASSUME NEW c \in C PROVE IsFiniteSet(C)
        <3>1. C = {c}
            BY <2>2 DEF OneAtATime
        <3>2. QED
            BY <3>1, FS_Singleton
    <2>3. QED
        BY <2>1, <2>2
<1>3. Cardinality(P) \in Nat /\ Cardinality(C) \in Nat
    BY <1>1, <1>2, FS_CardinalityType
<1>4. InFlight = Cardinality(P) + Cardinality(C)
    BY DEF InFlight
<1>5. Cardinality(P) = 0 /\ Cardinality(C) = 0
    BY <1>3, <1>4
<1>6. P = {} /\ C = {}
    BY <1>1, <1>2, <1>5, FS_EmptySet
<1>7. QED
    BY <1>6

\* A payouts handler that starts or goes on is alone.
LEMMA PayoutTurn ==
    ASSUME OneAtATime, MaxInFlight = 1, NEW c \in PayoutCaller,
           (InFlight < MaxInFlight /\ PayoutRequest(c)) \/ PayoutStep(c)
    PROVE  PayoutAlone(c)
<1>1. CASE InFlight < MaxInFlight
    BY <1>1, NobodyInFlight DEF PayoutAlone
<1>2. CASE PayoutStep(c)
    <2>1. payoutCall[c] # None
        BY <1>2 DEF PayoutStep, PayoutAt, InsertPayout, CheckBalance,
                    InsertApproval, StartDebit, FinishDebit, FailDebit,
                    SettlePayout, InsertRejection, RejectPayout, CancelPayout
    <2>2. QED
        BY <2>1 DEF OneAtATime, PayoutAlone
<1>3. QED
    BY <1>1, <1>2

\* So is a contributions handler.
LEMMA ContributionTurn ==
    ASSUME OneAtATime, MaxInFlight = 1, NEW c \in ContributionCaller,
           \/ InFlight < MaxInFlight /\ ContributionRequest(c)
           \/ ContributionStep(c)
    PROVE  ContributionAlone(c)
<1>1. CASE InFlight < MaxInFlight
    BY <1>1, NobodyInFlight DEF ContributionAlone
<1>2. CASE ContributionStep(c)
    <2>1. contributionCall[c] # None
        BY <1>2 DEF ContributionStep, ContributionAt, CheckPending,
                    InsertContribution, ApproveContribution, StartCredit,
                    FinishCredit, FailCredit, RejectContribution,
                    CancelContribution
    <2>2. QED
        BY <2>1 DEF OneAtATime, ContributionAlone
<1>3. QED
    BY <1>1, <1>2

-----------------------------------------------------------------------------
(* What rows are worth. *)

LEMMA WorthSame ==
    ASSUME NEW t, NEW u, NEW rows, \A r \in rows : t[r].amount = u[r].amount
    PROVE  Worth(t, rows) = Worth(u, rows)
<1>1. [r \in rows |-> t[r].amount] = [r \in rows |-> u[r].amount]
    OBVIOUS
<1>2. QED
    BY <1>1 DEF Worth

LEMMA WorthIsInt ==
    ASSUME NEW t, NEW rows, IsFiniteSet(rows), \A r \in rows : t[r].amount \in Int
    PROVE  Worth(t, rows) \in Int
<1>1. PICK f : f = [r \in rows |-> t[r].amount]
    OBVIOUS
<1>2. \A r \in rows : f[r] \in Int
    BY <1>1
<1>3. SumFunctionOnSet(f, rows) \in Int
    BY <1>2, SumInt
<1>4. QED
    BY <1>1, <1>3 DEF Worth

\* One more row adds its amount.
LEMMA WorthAdd ==
    ASSUME NEW t, NEW rows, IsFiniteSet(rows), NEW e, e \notin rows,
           \A r \in rows \cup {e} : t[r].amount \in Int
    PROVE  Worth(t, rows \cup {e}) = t[e].amount + Worth(t, rows)
<1>1. PICK more : more = rows \cup {e}
    OBVIOUS
<1>2. PICK f : f = [r \in more |-> t[r].amount]
    OBVIOUS
<1>3. PICK g : g = [r \in rows |-> t[r].amount]
    OBVIOUS
<1>4. /\ \A x \in rows \cup {e} : f[x] \in Int
      /\ \A x \in rows : f[x] = g[x]
      /\ f[e] = t[e].amount
    BY <1>1, <1>2, <1>3
<1>5. SumFunctionOnSet(f, rows \cup {e}) = f[e] + SumFunctionOnSet(f, rows)
    BY <1>4, SumAdd
<1>6. SumFunctionOnSet(f, rows) = SumFunctionOnSet(g, rows)
    BY <1>4, SumSame
<1>7. /\ Worth(t, rows \cup {e}) = SumFunctionOnSet(f, rows \cup {e})
      /\ Worth(t, rows) = SumFunctionOnSet(g, rows)
    BY <1>1, <1>2, <1>3 DEF Worth
<1>8. QED
    BY <1>4, <1>5, <1>6, <1>7

-----------------------------------------------------------------------------
(* One request at a time: steps that book nothing. *)

\* Rows that are there stay, with their amounts.
PayoutAmountsKept ==
    \A p \in Payout : PayoutExists(p) =>
        PayoutExists(p)' /\ payout'[p].amount = payout[p].amount

ContributionAmountsKept ==
    \A i \in Contribution : ContributionExists(i) =>
        ContributionExists(i)' /\ contribution'[i].amount = contribution[i].amount

\* What is booked is a row.
LEMMA BookedExists ==
    ASSUME SavingsInv
    PROVE  /\ \A p \in Payout : Debited(p) => PayoutExists(p)
           /\ \A i \in Contribution : Credited(i) => ContributionExists(i)
<1>1. ASSUME NEW p \in Payout, Settling(p) PROVE PayoutExists(p)
    <2>1. PICK c \in PayoutCaller :
              PayoutAt(c, "settle") /\ payoutCall[c].payout = p
        BY <1>1 DEF Settling
    <2>2. PayoutReadStands(c)
        BY DEF SavingsInv, ReadsStand
    <2>3. QED
        BY <2>1, <2>2 DEF PayoutReadStands, PayoutAt, PayoutPending
<1>2. QED
    BY <1>1 DEF SavingsInv, StatusIsBooked, PayoutApproved, InStatus

\* A row that exists has an amount.
LEMMA AmountsAreInt ==
    ASSUME BothInv
    PROVE  /\ \A p \in Payout : PayoutExists(p) =>
                 payout[p].amount \in Nat /\ payout[p].amount > 0
           /\ \A i \in Contribution : ContributionExists(i) =>
                 contribution[i].amount \in Nat /\ contribution[i].amount > 0
<1>1. ASSUME NEW p \in Payout, PayoutExists(p)
      PROVE  payout[p].amount \in Amount
    BY <1>1 DEF PayoutExists, BothInv, PayoutInv, PayoutTypeOK, PayoutRow
<1>2. ASSUME NEW i \in Contribution, ContributionExists(i)
      PROVE  contribution[i].amount \in Amount
    BY <1>2 DEF ContributionExists, BothInv, ContributionInv,
                ContributionTypeOK, ContributionRow
<1>3. \A a \in Amount : a \in Nat /\ a > 0
    BY LedgerAssumption
<1>4. QED
    BY <1>1, <1>2, <1>3

\* The books as they were, and amounts as they were: the pot as it was.
LEMMA PotStays ==
    ASSUME SavingsInv, ledger' = ledger, PayoutAmountsKept, ContributionAmountsKept
    PROVE  PotIsBooked'
<1>1. PaidOut' = PaidOut /\ PaidIn' = PaidIn /\ Balance' = Balance
    BY DEF PaidOut, PaidIn, Debited, Debits, Credited, Credits, Balance, BalanceAt
<1>2. \A p \in PaidOut : payout[p].amount = payout'[p].amount
    BY BookedExists DEF PaidOut, PayoutAmountsKept
<1>3. \A i \in PaidIn : contribution[i].amount = contribution'[i].amount
    BY BookedExists DEF PaidIn, ContributionAmountsKept
<1>4. Worth(payout, PaidOut) = Worth(payout', PaidOut)
    BY <1>2, WorthSame
<1>5. Worth(contribution, PaidIn) = Worth(contribution', PaidIn)
    BY <1>3, WorthSame
<1>6. IsFiniteSet(PaidOut) /\ IsFiniteSet(PaidIn)
    BY DEF SavingsInv, PotIsBooked
<1>7. Balance = Worth(contribution, PaidIn) - Worth(payout, PaidOut)
    BY DEF SavingsInv, PotIsBooked
<1>8. Balance' = Worth(contribution', PaidIn') - Worth(payout', PaidOut')
    BY <1>1, <1>4, <1>5, <1>7
<1>9. IsFiniteSet(PaidOut') /\ IsFiniteSet(PaidIn')
    BY <1>1, <1>6
<1>10. QED
    BY <1>8, <1>9 DEF PotIsBooked

\* A payouts handler that is alone stays alone.
LEMMA PayoutTurnKept ==
    ASSUME NEW c \in PayoutCaller, PayoutAlone(c),
           NEW x \in Calls, payoutCall \in [PayoutCaller -> Calls],
           payoutCall' = [payoutCall EXCEPT ![c] = x],
           UNCHANGED contributionCall
    PROVE  /\ OneAtATime'
           /\ payoutCall'[c] = x
           /\ \A d \in PayoutCaller \ {c} : payoutCall'[d] = None
           /\ \A d \in ContributionCaller : contributionCall'[d] = None
<1>1. /\ payoutCall'[c] = x
      /\ \A d \in PayoutCaller \ {c} : payoutCall'[d] = None
      /\ \A d \in ContributionCaller : contributionCall'[d] = None
    BY DEF PayoutAlone
<1>2. OneAtATime'
    BY <1>1 DEF OneAtATime
<1>3. QED
    BY <1>1, <1>2

\* A step of the payouts handler c that books nothing, and after which the
\* status of each payout says what it said with the handler's word.
LEMMA PayoutQuiet ==
    ASSUME SavingsInv, BothInv', NEW c \in PayoutCaller, PayoutAlone(c),
           NEW x \in Calls, payoutCall' = [payoutCall EXCEPT ![c] = x],
           UNCHANGED <<contribution, contributionCall>>,
           ledger' = ledger,
           x # None => x.pc # "settle",
           PayoutReadStands(c)',
           PayoutAmountsKept,
           \A p \in Payout : PayoutApproved(p)' <=>
               \/ PayoutApproved(p)
               \/ PayoutAt(c, "settle") /\ payoutCall[c].payout = p
    PROVE  SavingsInv'
<1>1. payoutCall \in [PayoutCaller -> Calls]
    BY DEF SavingsInv, PayoutInv, PayoutTypeOK, Calls
<1>2. /\ OneAtATime'
      /\ payoutCall'[c] = x
      /\ \A d \in PayoutCaller \ {c} : payoutCall'[d] = None
      /\ \A d \in ContributionCaller : contributionCall'[d] = None
    BY <1>1, PayoutTurnKept
<1>3. ReadsStand'
    <2>1. ASSUME NEW d \in PayoutCaller \ {c} PROVE PayoutReadStands(d)'
        BY <1>2 DEF PayoutReadStands, PayoutAt
    <2>2. ASSUME NEW d \in ContributionCaller PROVE ContributionReadStands(d)'
        BY <1>2 DEF ContributionReadStands, ContributionAt
    <2>3. QED
        BY <2>1, <2>2 DEF ReadsStand
<1>4. ASSUME NEW p \in Payout
      PROVE  Debited(p)' <=> PayoutApproved(p)' \/ Settling(p)'
    <2>1. Debited(p)' <=> Debited(p)
        BY DEF Debited, Debits
    <2>2. Debited(p) <=> PayoutApproved(p) \/ Settling(p)
        BY DEF SavingsInv, StatusIsBooked
    <2>3. Settling(p) <=> PayoutAt(c, "settle") /\ payoutCall[c].payout = p
        BY DEF Settling, PayoutAlone, PayoutAt
    <2>4. ~ Settling(p)'
        BY <1>2 DEF Settling, PayoutAt
    <2>5. QED
        BY <2>1, <2>2, <2>3, <2>4
<1>5. \A p \in Payout : \A m, n \in Debits(p)' : m = n
    BY DEF Debits, SavingsInv, StatusIsBooked
<1>6. ASSUME NEW i \in Contribution
      PROVE  /\ Credited(i)' <=> InStatus(i, "APPROVED")' /\ ~ Crediting(i)'
             /\ \A m, n \in Credits(i)' : m = n
    BY DEF Credited, Credits, InStatus, ContributionExists, Crediting,
           ContributionAt, SavingsInv, StatusIsBooked
<1>7. StatusIsBooked'
    BY <1>4, <1>5, <1>6 DEF StatusIsBooked
<1>8. PotIsBooked'
    <2>1. ContributionAmountsKept
        BY DEF ContributionAmountsKept, ContributionExists
    <2>2. QED
        BY <2>1, PotStays
<1>9. QED
    BY <1>2, <1>3, <1>7, <1>8 DEF SavingsInv, BothInv

\* A step that changes nothing but the handler, a vote or a transaction.
LEMMA PayoutMoves ==
    ASSUME SavingsInv, BothInv', NEW c \in PayoutCaller, PayoutAlone(c),
           NEW x \in Calls, payoutCall' = [payoutCall EXCEPT ![c] = x],
           UNCHANGED <<payout, contribution, contributionCall, ledger>>,
           ~ PayoutAt(c, "settle"),
           x # None => x.pc # "settle",
           PayoutReadStands(c)'
    PROVE  SavingsInv'
<1>1. PayoutAmountsKept
    BY DEF PayoutAmountsKept, PayoutExists
<1>2. \A p \in Payout : PayoutApproved(p)' <=>
          \/ PayoutApproved(p)
          \/ PayoutAt(c, "settle") /\ payoutCall[c].payout = p
    BY DEF PayoutApproved, PayoutExists
<1>3. QED
    BY <1>1, <1>2, PayoutQuiet

\* A handler that is gone has read nothing.
LEMMA PayoutGone ==
    ASSUME NEW c \in PayoutCaller, payoutCall \in [PayoutCaller -> Calls],
           PayoutReturn(c)
    PROVE  /\ None \in Calls
           /\ payoutCall' = [payoutCall EXCEPT ![c] = None]
           /\ PayoutReadStands(c)'
<1>1. payoutCall' = [payoutCall EXCEPT ![c] = None] /\ payoutCall'[c] = None
    BY DEF PayoutReturn
<1>2. QED
    BY <1>1 DEF PayoutReadStands, PayoutAt, Calls

LEMMA CreateSequential ==
    ASSUME SavingsInv, BothInv', NEW c \in PayoutCaller, PayoutAlone(c),
           UNCHANGED <<contribution, contributionCall>>,
           NEW p \in Payout, NEW u \in User, NEW a \in Amount,
           NEW k \in Key \cup {None}, CreatePayout(c, p, u, a, k)
    PROVE  SavingsInv'
<1>1. PICK x : x = [pc |-> "insert", payout |-> p, user |-> u,
                    amount |-> a, key |-> k]
    OBVIOUS
<1>2. x \in Calls /\ x.pc = "insert" /\ x.payout = p
    BY <1>1 DEF Calls, CreateCall
<1>3. payoutCall' = [payoutCall EXCEPT ![c] = x] /\ UNCHANGED <<payout, ledger>>
    BY <1>1 DEF CreatePayout
<1>4. ~ PayoutExists(p)' /\ payoutCall[c] = None
    BY <1>3 DEF CreatePayout, PayoutExists
<1>5. payoutCall'[c] = x
    BY <1>3 DEF SavingsInv, PayoutInv, PayoutTypeOK
<1>6. PayoutReadStands(c)'
    BY <1>2, <1>4, <1>5 DEF PayoutReadStands, PayoutAt
<1>7. ~ PayoutAt(c, "settle")
    BY <1>4 DEF PayoutAt
<1>8. QED
    BY <1>2, <1>3, <1>6, <1>7, PayoutMoves

LEMMA ReadSequential ==
    ASSUME SavingsInv, BothInv', NEW c \in PayoutCaller, PayoutAlone(c),
           UNCHANGED <<contribution, contributionCall>>,
           NEW p \in Payout, NEW u \in User,
           NEW pc \in {"balance", "veto", "cancel"}, NEW seen \in SUBSET Officer,
           PayoutPending(p), StartDecision(c, pc, p, u, seen),
           UNCHANGED <<payout, ledger>>
    PROVE  SavingsInv'
<1>1. PICK x : x = [pc |-> pc, payout |-> p, user |-> u, seen |-> seen,
                    required |-> minApprovals]
    OBVIOUS
<1>2. x \in Calls /\ x.pc = pc /\ x.payout = p
    <2>1. minApprovals \in MinApprovals
        BY DEF SavingsInv, PayoutInv, PayoutTypeOK
    <2>2. QED
        BY <1>1, <2>1 DEF Calls, DecisionCall
<1>3. payoutCall' = [payoutCall EXCEPT ![c] = x] /\ payoutCall[c] = None
    BY <1>1 DEF StartDecision
<1>4. PayoutPending(p)'
    BY DEF PayoutPending, PayoutExists
<1>5. payoutCall'[c] = x
    BY <1>3 DEF SavingsInv, PayoutInv, PayoutTypeOK
<1>6. PayoutReadStands(c)'
    BY <1>2, <1>4, <1>5 DEF PayoutReadStands, PayoutAt
<1>7. ~ PayoutAt(c, "settle")
    BY <1>3 DEF PayoutAt
<1>8. QED
    BY <1>2, <1>3, <1>6, <1>7, PayoutMoves

\* The handler goes from a step before the debit to another, and what it knows
\* of the payout is still so.
LEMMA GotoSequential ==
    ASSUME SavingsInv, BothInv', NEW c \in PayoutCaller, PayoutAlone(c),
           UNCHANGED <<contribution, contributionCall, payout, ledger>>,
           NEW from \in {"balance", "vote", "debit", "veto"}, PayoutAt(c, from),
           NEW pc \in {"vote", "debit", "ledger", "reject"}, PayoutGoto(c, pc),
           pc # "reject" => payout[payoutCall[c].payout].amount <= Balance,
           pc = "ledger" =>
              /\ tx'[c].amount = payout[payoutCall[c].payout].amount
              /\ tx'[c].snap = Len(ledger)
    PROVE  SavingsInv'
<1>1. PayoutTypeOK /\ payoutCall[c] \in DecisionCall
    BY CallKind DEF SavingsInv, PayoutInv
<1>2. PICK x \in DecisionCall :
          /\ payoutCall' = [payoutCall EXCEPT ![c] = x]
          /\ x.pc = pc
          /\ x.payout = payoutCall[c].payout
    BY <1>1, GotoCall
<1>3. PICK p : p = payoutCall[c].payout
    OBVIOUS
<1>4. PayoutPending(p)
    BY <1>3 DEF SavingsInv, ReadsStand, PayoutReadStands, PayoutAt
<1>5. PayoutPending(p)'
    BY <1>4 DEF PayoutPending, PayoutExists
<1>6. payoutCall'[c] = x
    BY <1>1, <1>2 DEF PayoutTypeOK
<1>7. Balance' = Balance
    BY DEF Balance, BalanceAt
<1>8. PayoutReadStands(c)'
    BY <1>2, <1>3, <1>5, <1>6, <1>7 DEF PayoutReadStands, PayoutAt
<1>9. ~ PayoutAt(c, "settle") /\ x \in Calls
    BY DEF PayoutAt, Calls
<1>10. QED
    BY <1>2, <1>8, <1>9, PayoutMoves

\* The handlers that only go on or return.
LEMMA QueriesSequential ==
    ASSUME SavingsInv, BothInv', NEW c \in PayoutCaller, PayoutAlone(c),
           UNCHANGED <<contribution, contributionCall>>,
           \/ CheckBalance(c)
           \/ InsertApproval(c)
           \/ InsertRejection(c)
           \/ StartDebit(c)
    PROVE  SavingsInv'
<1>1. UNCHANGED <<payout, ledger>>
    BY DEF CheckBalance, InsertApproval, InsertRejection, StartDebit,
           DebitPayout, BeginEntry
<1>2. payoutCall \in [PayoutCaller -> Calls] /\ tx \in [Caller -> Txn \cup {None}]
    BY DEF SavingsInv, PayoutInv, PayoutTypeOK, Calls, LedgerInv, LedgerTypeOK
<1>3. CASE PayoutReturn(c) /\ ~ StartDebit(c)
    <2>1. /\ None \in Calls
          /\ payoutCall' = [payoutCall EXCEPT ![c] = None]
          /\ PayoutReadStands(c)'
        BY <1>2, <1>3, PayoutGone
    <2>2. ~ PayoutAt(c, "settle")
        BY <1>3 DEF CheckBalance, InsertApproval, InsertRejection, PayoutAt
    <2>3. QED
        BY <1>1, <2>1, <2>2, PayoutMoves
<1>4. CASE CheckBalance(c) /\ ~ PayoutReturn(c)
    <2>1. /\ PayoutAt(c, "balance") /\ PayoutGoto(c, "vote")
          /\ payout[payoutCall[c].payout].amount <= Balance
        BY <1>4 DEF CheckBalance
    <2>2. QED
        BY <1>1, <2>1, GotoSequential
<1>5. CASE InsertApproval(c) /\ ~ PayoutReturn(c)
    <2>1. PayoutAt(c, "vote") /\ PayoutGoto(c, "debit")
        BY <1>5 DEF InsertApproval
    <2>2. payout[payoutCall[c].payout].amount <= Balance
        BY <2>1 DEF SavingsInv, ReadsStand, PayoutReadStands
    <2>3. QED
        BY <1>1, <2>1, <2>2, GotoSequential
<1>6. CASE InsertRejection(c) /\ ~ PayoutReturn(c)
    <2>1. PayoutAt(c, "veto") /\ PayoutGoto(c, "reject")
        BY <1>6 DEF InsertRejection
    <2>2. QED
        BY <1>1, <2>1, GotoSequential
<1>7. CASE StartDebit(c)
    <2>1. PayoutAt(c, "debit") /\ PayoutGoto(c, "ledger")
        BY <1>7 DEF StartDebit
    <2>2. payout[payoutCall[c].payout].amount <= Balance
        BY <2>1 DEF SavingsInv, ReadsStand, PayoutReadStands
    <2>3. c \in Caller
        BY PayoutAssumption
    <2>4. /\ tx'[c].amount = payout[payoutCall[c].payout].amount
          /\ tx'[c].snap = Len(ledger)
        BY <1>2, <1>7, <2>3 DEF StartDebit, DebitPayout, BeginEntry
    <2>5. QED
        BY <1>1, <2>1, <2>2, <2>4, GotoSequential
<1>8. QED
    BY <1>3, <1>4, <1>5, <1>6, <1>7

\* The row appears, PENDING, where there was none.
LEMMA InsertPayoutSequential ==
    ASSUME SavingsInv, BothInv', NEW c \in PayoutCaller, PayoutAlone(c),
           UNCHANGED <<contribution, contributionCall>>,
           InsertPayout(c)
    PROVE  SavingsInv'
<1>1. /\ payoutCall \in [PayoutCaller -> Calls]
      /\ payout \in [Payout -> PayoutRow \cup {None}]
      /\ ledger' = ledger /\ PayoutReturn(c) /\ PayoutAt(c, "insert")
    BY DEF SavingsInv, PayoutInv, PayoutTypeOK, Calls, InsertPayout
<1>2. /\ None \in Calls
      /\ payoutCall' = [payoutCall EXCEPT ![c] = None]
      /\ PayoutReadStands(c)'
    BY <1>1, PayoutGone
<1>3. PICK p : p = payoutCall[c].payout
    OBVIOUS
<1>4. ~ PayoutExists(p)
    BY <1>1, <1>3 DEF SavingsInv, ReadsStand, PayoutReadStands
<1>5. ~ PayoutAt(c, "settle")
    BY <1>1 DEF PayoutAt
<1>6. \A q \in Payout : PayoutExists(q) => payout'[q] = payout[q]
    BY <1>1, <1>3, <1>4 DEF InsertPayout
<1>7. PayoutAmountsKept
    BY <1>6 DEF PayoutAmountsKept, PayoutExists
<1>8. ASSUME NEW q \in Payout PROVE PayoutApproved(q)' <=> PayoutApproved(q)
    <2>1. CASE PayoutExists(q)
        BY <1>6, <2>1 DEF PayoutApproved, PayoutExists
    <2>2. CASE ~ PayoutExists(q)
        <3>1. payout'[q] = payout[q] \/ payout'[q].status = "PENDING"
            BY <1>1, <1>3 DEF InsertPayout
        <3>2. QED
            BY <2>2, <3>1 DEF PayoutApproved, PayoutExists
    <2>3. QED
        BY <2>1, <2>2
<1>9. QED
    BY <1>1, <1>2, <1>5, <1>7, <1>8, PayoutQuiet

\* The decision is written down: APPROVED for the payout this handler debited,
\* and anything else for one that nobody has.
LEMMA DecideSequential ==
    ASSUME SavingsInv, BothInv', NEW c \in PayoutCaller, PayoutAlone(c),
           UNCHANGED <<contribution, contributionCall>>,
           SettlePayout(c) \/ RejectPayout(c) \/ CancelPayout(c)
    PROVE  SavingsInv'
<1>1. /\ payoutCall \in [PayoutCaller -> Calls]
      /\ payout \in [Payout -> PayoutRow \cup {None}]
    BY DEF SavingsInv, PayoutInv, PayoutTypeOK, Calls
<1>2. PICK status \in {"APPROVED", "REJECTED", "CANCELLED"} :
          /\ SetPayoutStatus(payoutCall[c].payout, status)
          /\ PayoutAt(c, "settle") <=> status = "APPROVED"
    BY DEF SettlePayout, RejectPayout, CancelPayout, PayoutAt
<1>3. PICK p : p = payoutCall[c].payout
    OBVIOUS
<1>4. p \in Payout /\ payout[p] \in PayoutRow
    BY <1>3, CallKind
       DEF SettlePayout, RejectPayout, CancelPayout, SavingsInv, PayoutInv
<1>5. PayoutPending(p)
    BY <1>3 DEF SavingsInv, ReadsStand, PayoutReadStands, PayoutAt,
                SettlePayout, RejectPayout, CancelPayout
<1>6. ledger' = ledger /\ PayoutReturn(c)
    BY DEF SettlePayout, RejectPayout, CancelPayout
<1>7. /\ None \in Calls
      /\ payoutCall' = [payoutCall EXCEPT ![c] = None]
      /\ PayoutReadStands(c)'
    BY <1>1, <1>6, PayoutGone
<1>8. /\ payout'[p] = [payout[p] EXCEPT !.status = status]
      /\ \A q \in Payout : q # p => payout'[q] = payout[q]
    BY <1>1, <1>2, <1>3, <1>4 DEF SetPayoutStatus
<1>9. payout'[p].status = status /\ payout'[p].amount = payout[p].amount
    BY <1>4, <1>8 DEF PayoutRow
<1>10. PayoutExists(p) /\ PayoutExists(p)'
    <2>1. payout'[p] \in PayoutRow \cup {None}
        BY <1>4 DEF BothInv, PayoutInv, PayoutTypeOK
    <2>2. payout'[p] \in PayoutRow
        BY <1>4, <1>8 DEF PayoutRow, Status
    <2>3. QED
        BY <1>5, <2>2, PayoutAssumption DEF PayoutPending, PayoutExists
<1>11. PayoutAmountsKept
    BY <1>8, <1>9, <1>10 DEF PayoutAmountsKept, PayoutExists
<1>12. ASSUME NEW q \in Payout
       PROVE  PayoutApproved(q)' <=>
                  \/ PayoutApproved(q)
                  \/ PayoutAt(c, "settle") /\ payoutCall[c].payout = q
    <2>1. CASE q = p
        BY <1>2, <1>3, <1>5, <1>9, <1>10, <2>1 DEF PayoutApproved, PayoutPending
    <2>2. CASE q # p
        BY <1>3, <1>8, <2>2 DEF PayoutApproved, PayoutExists
    <2>3. QED
        BY <2>1, <2>2
<1>13. QED
    BY <1>6, <1>7, <1>11, <1>12, PayoutQuiet

-----------------------------------------------------------------------------
(* One request at a time: the entries. *)

\* After a commit the balance is the one the entry carries.
LEMMA CommitBalance ==
    ASSUME LedgerInv, NEW c \in Caller, CommitEntry(c)
    PROVE  /\ Balance' = Balance + Signed(tx[c].type, tx[c].amount)
           /\ tx[c].amount \in Int /\ Balance \in Int
<1>1. /\ tx[c] \in Txn
      /\ NewBalance(tx[c]) = Balance + Signed(tx[c].type, tx[c].amount)
      /\ NewBalance(tx[c]) \in Int
    BY CommitEffect
<1>2. PICK e : e = [type |-> tx[c].type, amount |-> tx[c].amount,
                    balanceAfter |-> NewBalance(tx[c]),
                    ref |-> tx[c].ref, by |-> tx[c].by]
    OBVIOUS
<1>3. ledger' = Append(ledger, e)
    BY <1>2 DEF CommitEntry
<1>4. e \in Entry /\ ledger \in Seq(Entry)
    BY <1>1, <1>2 DEF Entry, Txn, LedgerInv, LedgerTypeOK
<1>5. /\ Len(ledger') = Len(ledger) + 1
      /\ ledger'[Len(ledger) + 1] = e
      /\ Len(ledger) \in Nat
    BY <1>3, <1>4, BalanceAfterAppend
<1>6. Balance' = e.balanceAfter
    BY <1>5 DEF Balance, BalanceAt
<1>7. Balance \in Int
    BY BalanceAtType, <1>5 DEF Balance, LedgerInv
<1>8. tx[c].amount \in Int
    BY <1>1 DEF Txn
<1>9. QED
    BY <1>1, <1>2, <1>6, <1>7, <1>8

\* The transaction of a payout that nobody else could disturb commits: the
\* balance read covers it, and nothing was booked since.
LEMMA DebitCannotFail ==
    ASSUME SavingsInv, Faults = FALSE, NEW c \in PayoutCaller
    PROVE  ~ FailDebit(c)
<1>1. SUFFICES ASSUME PayoutAt(c, "ledger"), AbortEntry(c) PROVE FALSE
    BY DEF FailDebit
<1>2. PICK p : p = payoutCall[c].payout
    OBVIOUS
<1>3. PICK t : t = tx[c]
    OBVIOUS
<1>4. /\ t.amount = payout[p].amount /\ t.snap = Len(ledger)
      /\ payout[p].amount <= Balance
    BY <1>1, <1>2, <1>3 DEF SavingsInv, ReadsStand, PayoutReadStands
<1>5. t.type = "PAYOUT_DEBIT"
    BY <1>1, <1>3 DEF SavingsInv, PayoutInv, HandlersOK, HandlerOK
<1>6. payout[p].amount \in Nat
    BY <1>1, <1>2, CallKind, AmountsAreInt
       DEF SavingsInv, PayoutInv, BothInv
<1>7. Balance \in Int
    <2>1. Len(ledger) \in Nat /\ LedgerTypeOK
        BY DEF SavingsInv, PayoutInv, LedgerInv, LedgerTypeOK
    <2>2. QED
        BY <2>1, BalanceAtType DEF Balance
<1>8. NewBalance(t) = Balance - payout[p].amount
    BY <1>4, <1>5, <1>6, <1>7 DEF NewBalance, Signed, CreditTypes, Balance
<1>9. ~ Overdrawn(t)
    BY <1>4, <1>6, <1>7, <1>8 DEF Overdrawn
<1>10. ~ Conflict(t)
    BY <1>4 DEF Conflict
<1>11. QED
    BY <1>1, <1>3, <1>9, <1>10 DEF AbortEntry

\* The debit is booked, and the handler goes on to say so.
LEMMA FinishDebitSequential ==
    ASSUME SavingsInv, BothInv', NEW c \in PayoutCaller, PayoutAlone(c),
           UNCHANGED <<contribution, contributionCall>>,
           FinishDebit(c)
    PROVE  SavingsInv'
<1>1. /\ PayoutTypeOK /\ LedgerInv /\ c \in Caller
      /\ payoutCall \in [PayoutCaller -> Calls]
      /\ payoutCall[c] \in DecisionCall
      /\ PayoutAt(c, "ledger") /\ CommitEntry(c) /\ payout' = payout
      /\ PayoutGoto(c, "settle")
    BY CallKind, PayoutAssumption
       DEF FinishDebit, SavingsInv, PayoutInv, PayoutTypeOK, Calls
<1>2. PICK p \in Payout : p = payoutCall[c].payout
    BY <1>1, CallKind
<1>3. PICK x \in DecisionCall :
          /\ payoutCall' = [payoutCall EXCEPT ![c] = x]
          /\ x.pc = "settle"
          /\ x.payout = p
    BY <1>1, <1>2, GotoCall
<1>4. /\ OneAtATime'
      /\ payoutCall'[c] = x
      /\ \A d \in PayoutCaller \ {c} : payoutCall'[d] = None
      /\ \A d \in ContributionCaller : contributionCall'[d] = None
    BY <1>1, <1>3, PayoutTurnKept DEF Calls
<1>5. PayoutPending(p) /\ PayoutPending(p)'
    BY <1>1, <1>2 DEF SavingsInv, ReadsStand, PayoutReadStands, PayoutAt,
                      PayoutPending, PayoutExists
<1>6. ReadsStand'
    <2>1. PayoutReadStands(c)'
        BY <1>2, <1>3, <1>4, <1>5 DEF PayoutReadStands, PayoutAt
    <2>2. ASSUME NEW d \in PayoutCaller \ {c} PROVE PayoutReadStands(d)'
        BY <1>4 DEF PayoutReadStands, PayoutAt
    <2>3. ASSUME NEW d \in ContributionCaller PROVE ContributionReadStands(d)'
        BY <1>4 DEF ContributionReadStands, ContributionAt
    <2>4. QED
        BY <2>1, <2>2, <2>3 DEF ReadsStand
<1>7. PICK i : i = Len(ledger) + 1
    OBVIOUS
<1>8. PICK t : t = tx[c]
    OBVIOUS
<1>9. /\ DOMAIN ledger' = DOMAIN ledger \cup {i}
      /\ i \notin DOMAIN ledger
      /\ ledger'[i].type = t.type
      /\ ledger'[i].ref = t.ref
      /\ \A j \in DOMAIN ledger : ledger'[j] = ledger[j]
    BY <1>1, <1>7, <1>8, CommitRows
<1>10. t.type = "PAYOUT_DEBIT" /\ t.ref = p
    BY <1>1, <1>2, <1>8 DEF SavingsInv, PayoutInv, HandlersOK, HandlerOK
<1>11. t.amount = payout[p].amount
    BY <1>1, <1>2, <1>8 DEF SavingsInv, ReadsStand, PayoutReadStands
<1>12. ~ Debited(p)
    <2>1. ~ Settling(p)
        BY <1>1 DEF Settling, PayoutAlone, PayoutAt
    <2>2. ~ PayoutApproved(p)
        BY <1>5 DEF PayoutApproved, PayoutPending
    <2>3. QED
        BY <2>1, <2>2 DEF SavingsInv, StatusIsBooked
<1>13. Debits(p)' = {i}
    BY <1>9, <1>10, <1>12 DEF Debits, Debited
<1>14. \A q \in Payout : q # p => Debits(q)' = Debits(q)
    BY <1>9, <1>10 DEF Debits
<1>15. \A j \in Contribution : Credits(j)' = Credits(j)
    BY <1>9, <1>10 DEF Credits
<1>16. StatusIsBooked'
    <2>1. ASSUME NEW q \in Payout
          PROVE  /\ Debited(q)' <=> PayoutApproved(q)' \/ Settling(q)'
                 /\ \A m, n \in Debits(q)' : m = n
        <3>1. Settling(q)' <=> q = p
            BY <1>3, <1>4, PayoutAssumption DEF Settling, PayoutAt, DecisionCall
        <3>2. PayoutApproved(q)' <=> PayoutApproved(q)
            BY <1>1 DEF PayoutApproved, PayoutExists
        <3>3. CASE q = p
            BY <1>13, <3>1, <3>3 DEF Debited
        <3>4. CASE q # p
            <4>1. ~ Settling(q)
                BY <1>1 DEF Settling, PayoutAlone, PayoutAt
            <4>2. QED
                BY <1>14, <3>1, <3>2, <3>4, <4>1
                   DEF SavingsInv, StatusIsBooked, Debited
        <3>5. QED
            BY <3>3, <3>4
    <2>2. ASSUME NEW j \in Contribution
          PROVE  /\ Credited(j)' <=> InStatus(j, "APPROVED")' /\ ~ Crediting(j)'
                 /\ \A m, n \in Credits(j)' : m = n
        BY <1>15 DEF Credited, InStatus, ContributionExists, Crediting,
                     ContributionAt, SavingsInv, StatusIsBooked
    <2>3. QED
        BY <2>1, <2>2 DEF StatusIsBooked
<1>17. PotIsBooked'
    <2>1. PaidOut' = PaidOut \cup {p}
        BY <1>13, <1>14 DEF PaidOut, Debited
    <2>2. PaidIn' = PaidIn
        BY <1>15 DEF PaidIn, Credited
    <2>3. /\ IsFiniteSet(PaidOut) /\ IsFiniteSet(PaidIn)
          /\ Balance = Worth(contribution, PaidIn) - Worth(payout, PaidOut)
        BY DEF SavingsInv, PotIsBooked
    <2>4. p \notin PaidOut /\ IsFiniteSet(PaidOut \cup {p})
        BY <1>12, <2>3, FS_AddElement DEF PaidOut
    <2>5. /\ \A q \in PaidOut \cup {p} : payout[q].amount \in Int
          /\ \A j \in PaidIn : contribution[j].amount \in Int
        <3>1. BothInv
            BY DEF SavingsInv, BothInv
        <3>2. QED
            BY <1>5, <3>1, AmountsAreInt, BookedExists
               DEF PaidOut, PaidIn, PayoutPending
    <2>6. Worth(payout, PaidOut \cup {p}) = payout[p].amount + Worth(payout, PaidOut)
        BY <2>3, <2>4, <2>5, WorthAdd
    <2>7. Worth(payout, PaidOut) \in Int /\ Worth(contribution, PaidIn) \in Int
        BY <2>3, <2>5, WorthIsInt
    <2>8. Balance' = Balance - payout[p].amount /\ payout[p].amount \in Int
        BY <1>1, <1>8, <1>10, <1>11, CommitBalance DEF Signed, CreditTypes
    <2>9. Balance' = Worth(contribution, PaidIn) - Worth(payout, PaidOut \cup {p})
        BY <2>3, <2>6, <2>7, <2>8
    <2>10. Balance' = Worth(contribution', PaidIn') - Worth(payout', PaidOut')
        BY <1>1, <2>1, <2>2, <2>9
    <2>11. IsFiniteSet(PaidOut') /\ IsFiniteSet(PaidIn')
        BY <2>1, <2>2, <2>3, <2>4
    <2>12. QED
        BY <2>10, <2>11 DEF PotIsBooked
<1>18. QED
    BY <1>4, <1>6, <1>16, <1>17 DEF SavingsInv, BothInv

\* New rules concern no handler that is at work.
LEMMA RulesSequential ==
    ASSUME SavingsInv, BothInv', UNCHANGED <<contribution, contributionCall>>,
           NEW n, UpdateRules(n)
    PROVE  SavingsInv'
<1>1. UNCHANGED <<payout, payoutCall, ledger, tx>>
    BY DEF UpdateRules
<1>2. OneAtATime'
    BY <1>1 DEF SavingsInv, OneAtATime
<1>3. ReadsStand'
    <2>1. \A c \in PayoutCaller : PayoutReadStands(c)'
        BY <1>1 DEF SavingsInv, ReadsStand, PayoutReadStands, PayoutAt,
                    PayoutExists, PayoutPending, Balance, BalanceAt
    <2>2. \A c \in ContributionCaller : ContributionReadStands(c)'
        BY <1>1 DEF SavingsInv, ReadsStand, ContributionReadStands,
                    ContributionAt, ContributionExists, InStatus
    <2>3. QED
        BY <2>1, <2>2 DEF ReadsStand
<1>4. StatusIsBooked'
    BY <1>1 DEF SavingsInv, StatusIsBooked, Debited, Debits, Credited, Credits,
                PayoutApproved, PayoutExists, Settling, PayoutAt, InStatus,
                ContributionExists, Crediting, ContributionAt
<1>5. PotIsBooked'
    BY <1>1, PotStays DEF PayoutAmountsKept, ContributionAmountsKept,
                          PayoutExists, ContributionExists
<1>6. QED
    BY <1>2, <1>3, <1>4, <1>5 DEF SavingsInv, BothInv

LEMMA PayoutSideSequential ==
    ASSUME SavingsInv, BothInv', MaxInFlight = 1, Faults = FALSE, PayoutSide
    PROVE  SavingsInv'
<1>1. UNCHANGED <<contribution, contributionCall>>
    BY DEF PayoutSide
<1>2. ASSUME NEW c \in PayoutCaller, InFlight < MaxInFlight, PayoutRequest(c)
      PROVE  SavingsInv'
    <2>1. PayoutAlone(c)
        BY <1>2, PayoutTurn DEF SavingsInv
    <2>2. PICK p \in Payout, u \in User :
              \/ \E a \in Amount, k \in Key \cup {None} :
                    CreatePayout(c, p, u, a, k)
              \/ ReadForApproval(c, p, u)
              \/ ReadForRejection(c, p, u)
              \/ ReadForCancel(c, p, u)
        BY <1>2 DEF PayoutRequest
    <2>3. CASE \E a \in Amount, k \in Key \cup {None} : CreatePayout(c, p, u, a, k)
        BY <1>1, <2>1, <2>3, CreateSequential
    <2>4. CASE ReadForApproval(c, p, u)
        <3>1. Approvers(p) \in SUBSET Officer
            BY DEF Approvers
        <3>2. PICK seen \in SUBSET Officer :
                  /\ PayoutPending(p) /\ StartDecision(c, "balance", p, u, seen)
                  /\ UNCHANGED <<payout, ledger>>
            BY <2>4, <3>1 DEF ReadForApproval
        <3>3. QED
            BY <1>1, <2>1, <3>2, ReadSequential
    <2>5. CASE ReadForRejection(c, p, u)
        <3>1. /\ PayoutPending(p) /\ StartDecision(c, "veto", p, u, {})
              /\ UNCHANGED <<payout, ledger>> /\ {} \in SUBSET Officer
            BY <2>5 DEF ReadForRejection
        <3>2. QED
            BY <1>1, <2>1, <3>1, ReadSequential
    <2>6. CASE ReadForCancel(c, p, u)
        <3>1. /\ PayoutPending(p) /\ StartDecision(c, "cancel", p, u, {})
              /\ UNCHANGED <<payout, ledger>> /\ {} \in SUBSET Officer
            BY <2>6 DEF ReadForCancel
        <3>2. QED
            BY <1>1, <2>1, <3>1, ReadSequential
    <2>7. QED
        BY <2>2, <2>3, <2>4, <2>5, <2>6
<1>3. ASSUME NEW c \in PayoutCaller, PayoutStep(c)
      PROVE  SavingsInv'
    <2>1. PayoutAlone(c)
        BY <1>3, PayoutTurn DEF SavingsInv
    <2>2. ~ FailDebit(c)
        BY DebitCannotFail
    <2>3. CASE InsertPayout(c)
        BY <1>1, <2>1, <2>3, InsertPayoutSequential
    <2>4. CASE \/ CheckBalance(c) \/ InsertApproval(c)
               \/ InsertRejection(c) \/ StartDebit(c)
        BY <1>1, <2>1, <2>4, QueriesSequential
    <2>5. CASE FinishDebit(c)
        BY <1>1, <2>1, <2>5, FinishDebitSequential
    <2>6. CASE SettlePayout(c) \/ RejectPayout(c) \/ CancelPayout(c)
        BY <1>1, <2>1, <2>6, DecideSequential
    <2>7. QED
        BY <1>3, <2>2, <2>3, <2>4, <2>5, <2>6 DEF PayoutStep
<1>4. \A c : ~ CrashPayoutCall(c)
    BY DEF CrashPayoutCall
<1>5. ASSUME NEW n, UpdateRules(n)
      PROVE  SavingsInv'
    BY <1>1, <1>5, RulesSequential
<1>6. QED
    BY <1>2, <1>3, <1>4, <1>5 DEF PayoutSide

-----------------------------------------------------------------------------
(* The same for contributions. *)

LEMMA ContributionTurnKept ==
    ASSUME NEW c \in ContributionCaller, ContributionAlone(c),
           NEW x \in ContributionCalls,
           contributionCall \in [ContributionCaller -> ContributionCalls],
           contributionCall' = [contributionCall EXCEPT ![c] = x],
           UNCHANGED payoutCall
    PROVE  /\ OneAtATime'
           /\ contributionCall'[c] = x
           /\ \A d \in ContributionCaller \ {c} : contributionCall'[d] = None
           /\ \A d \in PayoutCaller : payoutCall'[d] = None
<1>1. /\ contributionCall'[c] = x
      /\ \A d \in ContributionCaller \ {c} : contributionCall'[d] = None
      /\ \A d \in PayoutCaller : payoutCall'[d] = None
    BY DEF ContributionAlone
<1>2. OneAtATime'
    BY <1>1 DEF OneAtATime
<1>3. QED
    BY <1>1, <1>2

\* A step of the contributions handler c that books nothing, and after which the
\* status of each row says what it said with the handler's word.
LEMMA ContributionQuiet ==
    ASSUME SavingsInv, BothInv', NEW c \in ContributionCaller,
           ContributionAlone(c), NEW x \in ContributionCalls,
           contributionCall' = [contributionCall EXCEPT ![c] = x],
           UNCHANGED <<payout, payoutCall, ledger>>,
           ContributionReadStands(c)',
           ContributionAmountsKept,
           \A i \in Contribution :
              InStatus(i, "APPROVED")'
                 /\ ~ (x # None /\ x.pc \in {"credit", "ledger"} /\ x.id = i)
              <=> InStatus(i, "APPROVED") /\ ~ Crediting(i)
    PROVE  SavingsInv'
<1>1. contributionCall \in [ContributionCaller -> ContributionCalls]
    BY DEF SavingsInv, ContributionInv, ContributionTypeOK, ContributionCalls
<1>2. /\ OneAtATime'
      /\ contributionCall'[c] = x
      /\ \A d \in ContributionCaller \ {c} : contributionCall'[d] = None
      /\ \A d \in PayoutCaller : payoutCall'[d] = None
    BY <1>1, ContributionTurnKept
<1>3. ReadsStand'
    <2>1. ASSUME NEW d \in ContributionCaller \ {c}
          PROVE  ContributionReadStands(d)'
        BY <1>2 DEF ContributionReadStands, ContributionAt
    <2>2. ASSUME NEW d \in PayoutCaller PROVE PayoutReadStands(d)'
        BY <1>2 DEF PayoutReadStands, PayoutAt
    <2>3. QED
        BY <2>1, <2>2 DEF ReadsStand
<1>4. ASSUME NEW i \in Contribution
      PROVE  Credited(i)' <=> InStatus(i, "APPROVED")' /\ ~ Crediting(i)'
    <2>1. Credited(i)' <=> Credited(i)
        BY DEF Credited, Credits
    <2>2. Credited(i) <=> InStatus(i, "APPROVED") /\ ~ Crediting(i)
        BY DEF SavingsInv, StatusIsBooked
    <2>3. Crediting(i)' <=>
              x # None /\ x.pc \in {"credit", "ledger"} /\ x.id = i
        BY <1>2 DEF Crediting, ContributionAt
    <2>4. QED
        BY <2>1, <2>2, <2>3
<1>5. \A i \in Contribution : \A m, n \in Credits(i)' : m = n
    BY DEF Credits, SavingsInv, StatusIsBooked
<1>6. ASSUME NEW p \in Payout
      PROVE  /\ Debited(p)' <=> PayoutApproved(p)' \/ Settling(p)'
             /\ \A m, n \in Debits(p)' : m = n
    BY DEF Debited, Debits, PayoutApproved, PayoutExists, Settling, PayoutAt,
           SavingsInv, StatusIsBooked
<1>7. StatusIsBooked'
    BY <1>4, <1>5, <1>6 DEF StatusIsBooked
<1>8. PotIsBooked'
    <2>1. PayoutAmountsKept
        BY DEF PayoutAmountsKept, PayoutExists
    <2>2. QED
        BY <2>1, PotStays
<1>9. QED
    BY <1>2, <1>3, <1>7, <1>8 DEF SavingsInv, BothInv

\* A handler that has not decided its row credits nothing.
LEMMA NotYetCrediting ==
    ASSUME NEW c \in ContributionCaller, ContributionAlone(c), NEW i,
           ~ ContributionAt(c, "credit"), ~ ContributionAt(c, "ledger")
    PROVE  ~ Crediting(i)
BY DEF Crediting, ContributionAlone, ContributionAt

\* A step that changes nothing but the handler, before it decides.
LEMMA ContributionMoves ==
    ASSUME SavingsInv, BothInv', NEW c \in ContributionCaller,
           ContributionAlone(c), NEW x \in ContributionCalls,
           contributionCall' = [contributionCall EXCEPT ![c] = x],
           UNCHANGED <<payout, payoutCall, contribution, ledger>>,
           ~ ContributionAt(c, "credit"), ~ ContributionAt(c, "ledger"),
           x # None => x.pc \notin {"credit", "ledger"},
           x # None /\ x.pc \notin {"pending", "insert"} =>
              InStatus(x.id, "PENDING")
    PROVE  SavingsInv'
<1>1. ContributionAmountsKept
    BY DEF ContributionAmountsKept, ContributionExists
<1>2. \A i \in Contribution : ~ Crediting(i)
    BY NotYetCrediting
<1>3. contributionCall'[c] = x
    BY DEF SavingsInv, ContributionInv, ContributionTypeOK
<1>4. ContributionReadStands(c)'
    BY <1>3 DEF ContributionReadStands, ContributionAt, InStatus,
                ContributionExists
<1>5. \A i \in Contribution :
         InStatus(i, "APPROVED")'
            /\ ~ (x # None /\ x.pc \in {"credit", "ledger"} /\ x.id = i)
         <=> InStatus(i, "APPROVED") /\ ~ Crediting(i)
    BY <1>2 DEF InStatus, ContributionExists
<1>6. QED
    BY <1>1, <1>4, <1>5, ContributionQuiet

\* Requests, and the query for a pending row.
LEMMA ReviewSequential ==
    ASSUME SavingsInv, BothInv', NEW c \in ContributionCaller,
           ContributionAlone(c), UNCHANGED <<payout, payoutCall>>,
           \/ ContributionRequest(c)
           \/ CheckPending(c)
    PROVE  SavingsInv'
<1>1. contributionCall \in [ContributionCaller -> ContributionCalls]
    BY DEF SavingsInv, ContributionInv, ContributionTypeOK, ContributionCalls
<1>2. UNCHANGED <<contribution, ledger>>
    BY DEF ContributionRequest, SubmitContribution, ReadForApprove,
           ReadForReject, ReadForCancelling, CheckPending
<1>3. ASSUME NEW i \in Contribution, NEW u \in User, NEW per \in Period,
             NEW a \in Amount, NEW k \in Key \cup {None},
             SubmitContribution(c, i, u, per, a, k)
      PROVE  SavingsInv'
    <2>1. PICK x : x = [pc |-> "pending", id |-> i, member |-> u, period |-> per,
                        amount |-> a, key |-> k]
        OBVIOUS
    <2>2. x \in ContributionCalls /\ x.pc = "pending"
        BY <2>1 DEF ContributionCalls, SubmitCall
    <2>3. /\ contributionCall' = [contributionCall EXCEPT ![c] = x]
          /\ contributionCall[c] = None
        BY <1>3, <2>1 DEF SubmitContribution
    <2>4. QED
        BY <1>2, <2>2, <2>3, ContributionMoves DEF ContributionAt
<1>4. ASSUME NEW i \in Contribution, NEW u \in User,
             NEW pc \in {"approve", "reject", "cancel"},
             InStatus(i, "PENDING"), StartReview(c, pc, i, u)
      PROVE  SavingsInv'
    <2>1. PICK x : x = [pc |-> pc, id |-> i, user |-> u]
        OBVIOUS
    <2>2. x \in ContributionCalls /\ x.pc = pc /\ x.id = i
        BY <2>1 DEF ContributionCalls, ReviewCall
    <2>3. /\ contributionCall' = [contributionCall EXCEPT ![c] = x]
          /\ contributionCall[c] = None
        BY <1>4, <2>1 DEF StartReview
    <2>4. QED
        BY <1>2, <1>4, <2>2, <2>3, ContributionMoves DEF ContributionAt
<1>5. CASE ContributionRequest(c)
    BY <1>3, <1>4, <1>5
       DEF ContributionRequest, ReadForApprove, ReadForReject, ReadForCancelling
<1>6. CASE CheckPending(c)
    <2>1. /\ ContributionTypeOK /\ ContributionAt(c, "pending")
          /\ contributionCall[c].pc = "pending"
        BY <1>6 DEF SavingsInv, ContributionInv, CheckPending, ContributionAt
    <2>2. contributionCall[c] \in SubmitCall
        BY <2>1, SubmitKind
    <2>3. PICK x \in ContributionCalls :
              /\ contributionCall' = [contributionCall EXCEPT ![c] = x]
              /\ x # None => x.pc = "insert"
        <3>1. CASE ContributionReturn(c)
            <4>1. contributionCall' = [contributionCall EXCEPT ![c] = None]
                BY <3>1 DEF ContributionReturn
            <4>2. None \in ContributionCalls
                BY DEF ContributionCalls
            <4>3. QED
                BY <4>1, <4>2
        <3>2. CASE ~ ContributionReturn(c)
            <4>1. PICK x : x = [contributionCall[c] EXCEPT !.pc = "insert"]
                OBVIOUS
            <4>2. x \in ContributionCalls /\ x.pc = "insert"
                BY <2>2, <4>1 DEF ContributionCalls, SubmitCall
            <4>3. contributionCall' = [contributionCall EXCEPT ![c] = x]
                BY <1>6, <3>2, <4>1 DEF CheckPending, ContributionGoto
            <4>4. QED
                BY <4>2, <4>3
        <3>3. QED
            BY <3>1, <3>2
    <2>4. QED
        BY <1>2, <2>1, <2>3, ContributionMoves DEF ContributionAt
<1>7. QED
    BY <1>5, <1>6

\* The row appears, PENDING, where there was none.
LEMMA InsertContributionSequential ==
    ASSUME SavingsInv, BothInv', NEW c \in ContributionCaller,
           ContributionAlone(c), UNCHANGED <<payout, payoutCall>>,
           InsertContribution(c)
    PROVE  SavingsInv'
<1>1. /\ contribution \in [Contribution -> ContributionRow \cup {None}]
      /\ contributionCall \in [ContributionCaller -> ContributionCalls]
      /\ ContributionTypeOK /\ ContributionAt(c, "insert")
      /\ ledger' = ledger
    BY DEF SavingsInv, ContributionInv, ContributionTypeOK, ContributionCalls,
           InsertContribution
<1>2. /\ contributionCall' = [contributionCall EXCEPT ![c] = None]
      /\ None \in ContributionCalls
    BY DEF InsertContribution, ContributionReturn, ContributionCalls
<1>3. PICK i \in Contribution : i = contributionCall[c].id
    BY <1>1, SubmitKind
<1>4. ~ ContributionExists(i)
    <2>1. contributionCall[c] \in SubmitCall
        BY <1>1, SubmitKind
    <2>2. QED
        BY <1>3, <2>1 DEF SavingsInv, ContributionInv, SubmitterOK
<1>5. \A j \in Contribution : ContributionExists(j) =>
          contribution'[j] = contribution[j]
    BY <1>1, <1>3, <1>4 DEF InsertContribution
<1>6. ContributionAmountsKept
    BY <1>5 DEF ContributionAmountsKept, ContributionExists
<1>7. ASSUME NEW j \in Contribution
      PROVE  InStatus(j, "APPROVED")' <=> InStatus(j, "APPROVED")
    <2>1. CASE ContributionExists(j)
        BY <1>5, <2>1 DEF InStatus, ContributionExists
    <2>2. CASE ~ ContributionExists(j)
        <3>1. contribution'[j] = contribution[j]
                \/ contribution'[j].status = "PENDING"
            BY <1>1, <1>3 DEF InsertContribution
        <3>2. QED
            BY <2>2, <3>1 DEF InStatus, ContributionExists
    <2>3. QED
        BY <2>1, <2>2
<1>8. \A j \in Contribution : ~ Crediting(j)
    BY <1>1, NotYetCrediting DEF ContributionAt
<1>9. ContributionReadStands(c)'
    BY <1>1, <1>2 DEF ContributionReadStands, ContributionAt
<1>10. QED
    BY <1>1, <1>2, <1>6, <1>7, <1>8, <1>9, ContributionQuiet

\* A change of status keeps everything else of the row.
LEMMA StatusRow ==
    ASSUME ContributionTypeOK, ContributionTypeOK', NEW i \in Contribution,
           InStatus(i, "PENDING"), NEW s \in Status, UpdateStatus(i, s)
    PROVE  /\ ContributionAmountsKept
           /\ \A t : InStatus(i, t)' <=> t = s
           /\ \A t : \A j \in Contribution : j # i =>
                 (InStatus(j, t)' <=> InStatus(j, t))
           /\ contribution'[i].amount = contribution[i].amount
<1>1. contribution \in [Contribution -> ContributionRow \cup {None}]
    BY DEF ContributionTypeOK
<1>2. ContributionExists(i) /\ contribution[i] \in ContributionRow
    BY <1>1 DEF InStatus, ContributionExists
<1>3. /\ contribution'[i] = [contribution[i] EXCEPT !.status = s]
      /\ \A j \in Contribution : j # i => contribution'[j] = contribution[j]
    BY <1>1 DEF UpdateStatus
<1>4. /\ contribution'[i] \in ContributionRow
      /\ contribution'[i].status = s
      /\ contribution'[i].amount = contribution[i].amount
    BY <1>2, <1>3 DEF ContributionRow
<1>5. ContributionExists(i)'
    BY <1>4, ContributionAssumption DEF ContributionExists
<1>6. ContributionAmountsKept
    BY <1>3, <1>4, <1>5 DEF ContributionAmountsKept, ContributionExists
<1>7. \A t : InStatus(i, t)' <=> t = s
    BY <1>4, <1>5 DEF InStatus
<1>8. \A t : \A j \in Contribution : j # i => (InStatus(j, t)' <=> InStatus(j, t))
    BY <1>3 DEF InStatus, ContributionExists
<1>9. QED
    BY <1>4, <1>6, <1>7, <1>8

\* The row is approved and the handler goes on to credit it, or the unique
\* index throws; or the row is dismissed.
LEMMA DecideContributionSequential ==
    ASSUME SavingsInv, BothInv', NEW c \in ContributionCaller,
           ContributionAlone(c), UNCHANGED <<payout, payoutCall>>,
           \/ ApproveContribution(c)
           \/ RejectContribution(c)
           \/ CancelContribution(c)
    PROVE  SavingsInv'
<1>1. /\ ContributionTypeOK /\ ContributionTypeOK'
      /\ contributionCall \in [ContributionCaller -> ContributionCalls]
      /\ ledger' = ledger
    BY DEF SavingsInv, BothInv, ContributionInv, ContributionTypeOK,
           ContributionCalls, ApproveContribution, RejectContribution,
           CancelContribution
<1>2. PICK pc \in {"approve", "reject", "cancel"} : ContributionAt(c, pc)
    BY DEF ApproveContribution, RejectContribution, CancelContribution
<1>3. PICK i \in Contribution : i = contributionCall[c].id
    BY <1>1, <1>2, ReviewKind
<1>4. contributionCall[c] \in ReviewCall
    BY <1>1, <1>2, ReviewKind
<1>5. InStatus(i, "PENDING")
    BY <1>2, <1>3 DEF SavingsInv, ReadsStand, ContributionReadStands
<1>6. \A j \in Contribution : ~ Crediting(j)
    BY <1>2, NotYetCrediting DEF ContributionAt
<1>7. CASE UNCHANGED contribution /\ ContributionReturn(c)
    <2>1. /\ contributionCall' = [contributionCall EXCEPT ![c] = None]
          /\ None \in ContributionCalls
        BY <1>7 DEF ContributionReturn, ContributionCalls
    <2>2. QED
        BY <1>1, <1>2, <1>7, <2>1, ContributionMoves DEF ContributionAt
<1>8. ASSUME NEW s \in {"REJECTED", "CANCELLED"}, UpdateStatus(i, s),
             ContributionReturn(c)
      PROVE  SavingsInv'
    <2>1. /\ contributionCall' = [contributionCall EXCEPT ![c] = None]
          /\ None \in ContributionCalls
        BY <1>8 DEF ContributionReturn, ContributionCalls
    <2>2. s \in Status /\ s # "APPROVED"
        BY DEF Status
    <2>3. /\ ContributionAmountsKept
          /\ \A t : InStatus(i, t)' <=> t = s
          /\ \A t : \A j \in Contribution : j # i =>
                (InStatus(j, t)' <=> InStatus(j, t))
        BY <1>1, <1>5, <1>8, <2>2, StatusRow
    <2>4. ~ InStatus(i, "APPROVED")
        BY <1>5 DEF InStatus
    <2>5. \A j \in Contribution :
              InStatus(j, "APPROVED")' <=> InStatus(j, "APPROVED")
        BY <2>2, <2>3, <2>4
    <2>6. ContributionReadStands(c)'
        BY <1>1, <2>1 DEF ContributionReadStands, ContributionAt
    <2>7. QED
        BY <1>1, <1>6, <2>1, <2>3, <2>5, <2>6, ContributionQuiet
<1>9. ASSUME UpdateStatus(i, "APPROVED"), ContributionGoto(c, "credit")
      PROVE  SavingsInv'
    <2>1. PICK x : x = [contributionCall[c] EXCEPT !.pc = "credit"]
        OBVIOUS
    <2>2. x \in ContributionCalls /\ x.pc = "credit" /\ x.id = i /\ x \in ReviewCall
        BY <1>3, <1>4, <2>1 DEF ContributionCalls, ReviewCall
    <2>3. contributionCall' = [contributionCall EXCEPT ![c] = x]
        BY <1>9, <2>1 DEF ContributionGoto
    <2>4. /\ ContributionAmountsKept
          /\ \A t : InStatus(i, t)' <=> t = "APPROVED"
          /\ \A t : \A j \in Contribution : j # i =>
                (InStatus(j, t)' <=> InStatus(j, t))
        <3>1. "APPROVED" \in Status
            BY DEF Status
        <3>2. QED
            BY <1>1, <1>5, <1>9, <3>1, StatusRow
    <2>5. ~ InStatus(i, "APPROVED")
        BY <1>5 DEF InStatus
    <2>6. contributionCall'[c] = x
        BY <1>1, <2>3
    <2>7. x # None
        BY <2>2, ContributionAssumption
    <2>8. ContributionReadStands(c)'
        BY <2>2, <2>4, <2>6 DEF ContributionReadStands, ContributionAt
    <2>9. \A j \in Contribution :
             InStatus(j, "APPROVED")'
                /\ ~ (x # None /\ x.pc \in {"credit", "ledger"} /\ x.id = j)
             <=> InStatus(j, "APPROVED") /\ ~ Crediting(j)
        BY <1>6, <2>2, <2>4, <2>5, <2>7
    <2>10. QED
        BY <1>1, <2>2, <2>3, <2>4, <2>8, <2>9, ContributionQuiet
<1>10. QED
    BY <1>3, <1>7, <1>8, <1>9
       DEF ApproveContribution, RejectContribution, CancelContribution

\* The credit's transaction is opened on the ledger as it is.
LEMMA StartCreditSequential ==
    ASSUME SavingsInv, BothInv', NEW c \in ContributionCaller,
           ContributionAlone(c), UNCHANGED <<payout, payoutCall>>,
           StartCredit(c)
    PROVE  SavingsInv'
<1>1. /\ ContributionTypeOK /\ c \in Caller
      /\ contributionCall \in [ContributionCaller -> ContributionCalls]
      /\ tx \in [Caller -> Txn \cup {None}]
      /\ ContributionAt(c, "credit")
      /\ UNCHANGED <<contribution, ledger>>
    BY ContributionAssumption
       DEF SavingsInv, ContributionInv, ContributionTypeOK, ContributionCalls,
           LedgerInv, LedgerTypeOK, StartCredit, CreditContribution, BeginEntry
<1>2. PICK i \in Contribution : i = contributionCall[c].id
    BY <1>1, ReviewKind
<1>3. contributionCall[c] \in ReviewCall
    BY <1>1, ReviewKind
<1>4. PICK x : x = [contributionCall[c] EXCEPT !.pc = "ledger"]
    OBVIOUS
<1>5. x \in ContributionCalls /\ x.pc = "ledger" /\ x.id = i /\ x # None
    BY <1>2, <1>3, <1>4, ContributionAssumption DEF ContributionCalls, ReviewCall
<1>6. contributionCall' = [contributionCall EXCEPT ![c] = x]
    BY <1>4 DEF StartCredit, ContributionGoto
<1>7. contributionCall'[c] = x
    BY <1>1, <1>6
<1>8. /\ tx'[c].amount = contribution[i].amount
      /\ tx'[c].snap = Len(ledger)
    BY <1>1, <1>2 DEF StartCredit, CreditContribution, BeginEntry
<1>9. InStatus(i, "APPROVED")
    BY <1>1, <1>2 DEF SavingsInv, ReadsStand, ContributionReadStands
<1>10. ContributionReadStands(c)'
    BY <1>1, <1>5, <1>7, <1>8, <1>9
       DEF ContributionReadStands, ContributionAt, InStatus, ContributionExists
<1>11. ContributionAmountsKept
    BY <1>1 DEF ContributionAmountsKept, ContributionExists
<1>12. \A j \in Contribution : Crediting(j) <=> j = i
    BY <1>1, <1>2 DEF Crediting, ContributionAlone, ContributionAt
<1>13. \A j \in Contribution :
          InStatus(j, "APPROVED")'
             /\ ~ (x # None /\ x.pc \in {"credit", "ledger"} /\ x.id = j)
          <=> InStatus(j, "APPROVED") /\ ~ Crediting(j)
    BY <1>1, <1>5, <1>12 DEF InStatus, ContributionExists
<1>14. QED
    BY <1>1, <1>5, <1>6, <1>10, <1>11, <1>13, ContributionQuiet

\* A credit is never refused for the balance, and nothing was booked since.
LEMMA CreditCannotFail ==
    ASSUME SavingsInv, Faults = FALSE, NEW c \in ContributionCaller
    PROVE  ~ FailCredit(c)
<1>1. SUFFICES ASSUME ContributionAt(c, "ledger"), AbortEntry(c) PROVE FALSE
    BY DEF FailCredit
<1>2. PICK t : t = tx[c]
    OBVIOUS
<1>3. t.snap = Len(ledger)
    BY <1>1, <1>2 DEF SavingsInv, ReadsStand, ContributionReadStands
<1>4. t.type = "CONTRIBUTION_CREDIT"
    BY <1>1, <1>2 DEF SavingsInv, ContributionInv, ReviewerOK
<1>5. ~ Overdrawn(t)
    BY <1>4 DEF Overdrawn, CreditTypes
<1>6. ~ Conflict(t)
    BY <1>3 DEF Conflict
<1>7. QED
    BY <1>1, <1>2, <1>5, <1>6 DEF AbortEntry

\* The credit is booked, and the handler returns.
LEMMA FinishCreditSequential ==
    ASSUME SavingsInv, BothInv', NEW c \in ContributionCaller,
           ContributionAlone(c), UNCHANGED <<payout, payoutCall>>,
           FinishCredit(c)
    PROVE  SavingsInv'
<1>1. /\ ContributionTypeOK /\ LedgerInv /\ c \in Caller
      /\ contributionCall \in [ContributionCaller -> ContributionCalls]
      /\ None \in ContributionCalls
      /\ ContributionAt(c, "ledger") /\ CommitEntry(c)
      /\ contribution' = contribution
      /\ contributionCall' = [contributionCall EXCEPT ![c] = None]
    BY ContributionAssumption
       DEF FinishCredit, ContributionReturn, SavingsInv, ContributionInv,
           ContributionTypeOK, ContributionCalls
<1>2. PICK i \in Contribution : i = contributionCall[c].id
    BY <1>1, ReviewKind
<1>3. /\ OneAtATime'
      /\ contributionCall'[c] = None
      /\ \A d \in ContributionCaller \ {c} : contributionCall'[d] = None
      /\ \A d \in PayoutCaller : payoutCall'[d] = None
    BY <1>1, ContributionTurnKept
<1>4. InStatus(i, "APPROVED")
    BY <1>1, <1>2 DEF SavingsInv, ReadsStand, ContributionReadStands
<1>5. ReadsStand'
    BY <1>3 DEF ReadsStand, PayoutReadStands, PayoutAt, ContributionReadStands,
                ContributionAt
<1>6. PICK n : n = Len(ledger) + 1
    OBVIOUS
<1>7. PICK t : t = tx[c]
    OBVIOUS
<1>8. /\ DOMAIN ledger' = DOMAIN ledger \cup {n}
      /\ n \notin DOMAIN ledger
      /\ ledger'[n].type = t.type
      /\ ledger'[n].ref = t.ref
      /\ \A j \in DOMAIN ledger : ledger'[j] = ledger[j]
    BY <1>1, <1>6, <1>7, CommitRows
<1>9. t.type = "CONTRIBUTION_CREDIT" /\ t.ref = i
    BY <1>1, <1>2, <1>7 DEF SavingsInv, ContributionInv, ReviewerOK
<1>10. t.amount = contribution[i].amount
    BY <1>1, <1>2, <1>7 DEF SavingsInv, ReadsStand, ContributionReadStands
<1>11. \A j \in Contribution : Crediting(j) <=> j = i
    BY <1>1, <1>2 DEF Crediting, ContributionAlone, ContributionAt
<1>12. ~ Credited(i)
    BY <1>11 DEF SavingsInv, StatusIsBooked
<1>13. Credits(i)' = {n}
    BY <1>8, <1>9, <1>12 DEF Credits, Credited
<1>14. \A j \in Contribution : j # i => Credits(j)' = Credits(j)
    BY <1>8, <1>9 DEF Credits
<1>15. \A p \in Payout : Debits(p)' = Debits(p)
    BY <1>8, <1>9 DEF Debits
<1>16. StatusIsBooked'
    <2>1. ASSUME NEW j \in Contribution
          PROVE  /\ Credited(j)' <=> InStatus(j, "APPROVED")' /\ ~ Crediting(j)'
                 /\ \A m, k \in Credits(j)' : m = k
        <3>1. ~ Crediting(j)'
            BY <1>3 DEF Crediting, ContributionAt
        <3>2. InStatus(j, "APPROVED")' <=> InStatus(j, "APPROVED")
            BY <1>1 DEF InStatus, ContributionExists
        <3>3. CASE j = i
            BY <1>4, <1>13, <3>1, <3>2, <3>3 DEF Credited
        <3>4. CASE j # i
            BY <1>11, <1>14, <3>1, <3>2, <3>4
               DEF SavingsInv, StatusIsBooked, Credited
        <3>5. QED
            BY <3>3, <3>4
    <2>2. ASSUME NEW p \in Payout
          PROVE  /\ Debited(p)' <=> PayoutApproved(p)' \/ Settling(p)'
                 /\ \A m, k \in Debits(p)' : m = k
        BY <1>15 DEF Debited, PayoutApproved, PayoutExists, Settling, PayoutAt,
                     SavingsInv, StatusIsBooked
    <2>3. QED
        BY <2>1, <2>2 DEF StatusIsBooked
<1>17. PotIsBooked'
    <2>1. PaidIn' = PaidIn \cup {i}
        BY <1>13, <1>14 DEF PaidIn, Credited
    <2>2. PaidOut' = PaidOut
        BY <1>15 DEF PaidOut, Debited
    <2>3. /\ IsFiniteSet(PaidOut) /\ IsFiniteSet(PaidIn)
          /\ Balance = Worth(contribution, PaidIn) - Worth(payout, PaidOut)
        BY DEF SavingsInv, PotIsBooked
    <2>4. i \notin PaidIn /\ IsFiniteSet(PaidIn \cup {i})
        BY <1>12, <2>3, FS_AddElement DEF PaidIn
    <2>5. /\ \A j \in PaidIn \cup {i} : contribution[j].amount \in Int
          /\ \A p \in PaidOut : payout[p].amount \in Int
        <3>1. BothInv
            BY DEF SavingsInv, BothInv
        <3>2. QED
            BY <1>4, <3>1, AmountsAreInt, BookedExists
               DEF PaidOut, PaidIn, InStatus
    <2>6. Worth(contribution, PaidIn \cup {i})
              = contribution[i].amount + Worth(contribution, PaidIn)
        BY <2>3, <2>4, <2>5, WorthAdd
    <2>7. Worth(payout, PaidOut) \in Int /\ Worth(contribution, PaidIn) \in Int
        BY <2>3, <2>5, WorthIsInt
    <2>8. /\ Balance' = Balance + contribution[i].amount
          /\ contribution[i].amount \in Int
        BY <1>1, <1>7, <1>9, <1>10, CommitBalance DEF Signed, CreditTypes
    <2>9. Balance' = Worth(contribution, PaidIn \cup {i}) - Worth(payout, PaidOut)
        BY <2>3, <2>6, <2>7, <2>8
    <2>10. Balance' = Worth(contribution', PaidIn') - Worth(payout', PaidOut')
        BY <1>1, <2>1, <2>2, <2>9
    <2>11. IsFiniteSet(PaidOut') /\ IsFiniteSet(PaidIn')
        BY <2>1, <2>2, <2>3, <2>4
    <2>12. QED
        BY <2>10, <2>11 DEF PotIsBooked
<1>18. QED
    BY <1>3, <1>5, <1>16, <1>17 DEF SavingsInv, BothInv

LEMMA ContributionSideSequential ==
    ASSUME SavingsInv, BothInv', MaxInFlight = 1, Faults = FALSE,
           ContributionSide
    PROVE  SavingsInv'
<1>1. UNCHANGED <<payout, payoutCall>>
    BY DEF ContributionSide
<1>2. PICK c \in ContributionCaller :
          \/ InFlight < MaxInFlight /\ ContributionRequest(c)
          \/ ContributionStep(c)
    BY DEF ContributionSide, CrashContributionCall
<1>3. ContributionAlone(c)
    BY <1>2, ContributionTurn DEF SavingsInv
<1>4. ~ FailCredit(c)
    BY CreditCannotFail
<1>5. CASE ContributionRequest(c) \/ CheckPending(c)
    BY <1>1, <1>3, <1>5, ReviewSequential
<1>6. CASE InsertContribution(c)
    BY <1>1, <1>3, <1>6, InsertContributionSequential
<1>7. CASE \/ ApproveContribution(c)
           \/ RejectContribution(c)
           \/ CancelContribution(c)
    BY <1>1, <1>3, <1>7, DecideContributionSequential
<1>8. CASE StartCredit(c)
    BY <1>1, <1>3, <1>8, StartCreditSequential
<1>9. CASE FinishCredit(c)
    BY <1>1, <1>3, <1>9, FinishCreditSequential
<1>10. QED
    BY <1>2, <1>4, <1>5, <1>6, <1>7, <1>8, <1>9 DEF ContributionStep

-----------------------------------------------------------------------------

\* A new group has no rows and an empty pot.
LEMMA SavingsInitInv == SavingsInit => SavingsInv
<1> SUFFICES ASSUME SavingsInit PROVE SavingsInv
    OBVIOUS
<1>1. PayoutInv /\ ContributionInv
    BY BothInit DEF BothInv
<1>2. /\ \A c \in PayoutCaller : payoutCall[c] = None
      /\ \A c \in ContributionCaller : contributionCall[c] = None
      /\ \A p \in Payout : payout[p] = None
      /\ \A i \in Contribution : contribution[i] = None
    BY DEF SavingsInit, PayoutInit, ContributionInit
<1>3. PICK u \in Chair : ledger = <<OpeningEntry(u)>>
    BY DEF SavingsInit, PayoutInit, GroupLedgerInit
<1>4. /\ \A p \in Payout : Debits(p) = {}
      /\ \A i \in Contribution : Credits(i) = {}
    BY <1>3 DEF Debits, Credits, OpeningEntry
<1>5. OneAtATime
    BY <1>2 DEF OneAtATime
<1>6. ReadsStand
    BY <1>2 DEF ReadsStand, PayoutReadStands, PayoutAt, ContributionReadStands,
                ContributionAt
<1>7. StatusIsBooked
    BY <1>2, <1>4 DEF StatusIsBooked, Debited, Credited, PayoutApproved,
                      PayoutExists, Settling, PayoutAt, InStatus,
                      ContributionExists
<1>8. PotIsBooked
    <2>1. PaidOut = {} /\ PaidIn = {}
        BY <1>4 DEF PaidOut, PaidIn, Debited, Credited
    <2>2. Balance = 0
        BY <1>3 DEF Balance, BalanceAt, OpeningEntry
    <2>3. Worth(payout, {}) = 0 /\ Worth(contribution, {}) = 0
        BY SumEmpty DEF Worth
    <2>4. IsFiniteSet({})
        BY FS_EmptySet
    <2>5. Balance = Worth(contribution, PaidIn) - Worth(payout, PaidOut)
        BY <2>1, <2>2, <2>3
    <2>6. QED
        BY <2>1, <2>4, <2>5 DEF PotIsBooked
<1>9. QED
    BY <1>1, <1>5, <1>6, <1>7, <1>8 DEF SavingsInv

LEMMA SavingsStepInv ==
    ASSUME MaxInFlight = 1, Faults = FALSE
    PROVE  SavingsInv /\ [SavingsNext]_savingsVars => SavingsInv'
<1> SUFFICES ASSUME SavingsInv, [SavingsNext]_savingsVars PROVE SavingsInv'
    OBVIOUS
<1>1. BothInv'
    BY BothStep DEF SavingsInv, BothInv
<1>2. CASE PayoutSide
    BY <1>1, <1>2, PayoutSideSequential
<1>3. CASE ContributionSide
    BY <1>1, <1>3, ContributionSideSequential
<1>4. CASE UNCHANGED savingsVars
    <2>1. UNCHANGED <<payout, payoutCall, contribution, contributionCall,
                      ledger, tx>>
        BY <1>4 DEF savingsVars
    <2>2. OneAtATime'
        BY <2>1 DEF SavingsInv, OneAtATime
    <2>3. \A c \in PayoutCaller : PayoutReadStands(c)'
        BY <2>1 DEF SavingsInv, ReadsStand, PayoutReadStands, PayoutAt,
                    PayoutExists, PayoutPending, Balance, BalanceAt
    <2>4. \A c \in ContributionCaller : ContributionReadStands(c)'
        BY <2>1 DEF SavingsInv, ReadsStand, ContributionReadStands,
                    ContributionAt, ContributionExists, InStatus
    <2>5. StatusIsBooked'
        BY <2>1 DEF SavingsInv, StatusIsBooked, Debited, Debits, Credited,
                    Credits, PayoutApproved, PayoutExists, Settling, PayoutAt,
                    InStatus, ContributionExists, Crediting, ContributionAt
    <2>6. PotIsBooked'
        BY <2>1, PotStays DEF PayoutAmountsKept, ContributionAmountsKept,
                              PayoutExists, ContributionExists
    <2>7. QED
        BY <1>1, <2>2, <2>3, <2>4, <2>5, <2>6
           DEF SavingsInv, BothInv, ReadsStand
<1>5. QED
    BY <1>2, <1>3, <1>4 DEF SavingsNext

\* Between requests nobody is about to settle or to credit anything.
LEMMA QuietIsSettled ==
    ASSUME SavingsInv, Quiet
    PROVE  /\ \A p \in Payout : Debited(p) <=> PayoutApproved(p)
           /\ \A i \in Contribution : Credited(i) <=> InStatus(i, "APPROVED")
<1>1. /\ \A c \in PayoutCaller : payoutCall[c] = None
      /\ \A c \in ContributionCaller : contributionCall[c] = None
    BY NobodyInFlight DEF Quiet, SavingsInv
<1>2. \A p, i : ~ Settling(p) /\ ~ Crediting(i)
    BY <1>1 DEF Settling, PayoutAt, Crediting, ContributionAt
<1>3. QED
    BY <1>2 DEF SavingsInv, StatusIsBooked

\* Between requests the entries of a row are as many as its status says.
LEMMA BookedFollows == SavingsInv => BookedOnce
<1>1. SUFFICES ASSUME SavingsInv, Quiet
               PROVE  /\ \A p \in Payout : Cardinality(Debits(p)) =
                            IF PayoutApproved(p) THEN 1 ELSE 0
                      /\ \A i \in Contribution : Cardinality(Credits(i)) =
                            IF InStatus(i, "APPROVED") THEN 1 ELSE 0
    BY DEF BookedOnce, PayoutApproved
<1>2. ASSUME NEW s, \A m, n \in s : m = n
      PROVE  Cardinality(s) = IF s # {} THEN 1 ELSE 0
    <2>1. CASE s = {}
        BY <2>1, FS_EmptySet
    <2>2. ASSUME NEW m \in s PROVE Cardinality(s) = 1
        <3>1. s = {m}
            BY <1>2, <2>2
        <3>2. QED
            BY <3>1, FS_Singleton
    <2>3. QED
        BY <2>1, <2>2
<1>3. ASSUME NEW p \in Payout
      PROVE  Cardinality(Debits(p)) = IF PayoutApproved(p) THEN 1 ELSE 0
    <2>1. \A m, n \in Debits(p) : m = n
        BY <1>1 DEF SavingsInv, StatusIsBooked
    <2>2. Debits(p) # {} <=> PayoutApproved(p)
        BY <1>1, QuietIsSettled DEF Debited
    <2>3. QED
        BY <1>2, <2>1, <2>2
<1>4. ASSUME NEW i \in Contribution
      PROVE  Cardinality(Credits(i)) =
                 IF InStatus(i, "APPROVED") THEN 1 ELSE 0
    <2>1. \A m, n \in Credits(i) : m = n
        BY <1>1 DEF SavingsInv, StatusIsBooked
    <2>2. Credits(i) # {} <=> InStatus(i, "APPROVED")
        BY <1>1, QuietIsSettled DEF Credited
    <2>3. QED
        BY <1>2, <2>1, <2>2
<1>5. QED
    BY <1>3, <1>4

\* One request after another and no failures: between requests each payout
\* has exactly one debit if approvePayout approved it and none otherwise, and
\* each contribution exactly one credit if it was approved and none otherwise,
\* for any number of rows, officers, amounts and rules.
THEOREM SavingsBookedOnce ==
    ASSUME MaxInFlight = 1, Faults = FALSE
    PROVE  SavingsSpec => []BookedOnce
<1>1. SavingsInv /\ [SavingsNext]_savingsVars => SavingsInv'
    BY SavingsStepInv
<1>2. QED
    BY SavingsInitInv, BookedFollows, <1>1, PTL DEF SavingsSpec

\* And then the balance that getBalance returns is, to the cent, what the
\* approved contributions are worth less what the approved payouts are.
THEOREM SavingsReconcile ==
    ASSUME MaxInFlight = 1, Faults = FALSE
    PROVE  SavingsSpec => []PotReconciles
<1>1. SavingsInv => PotReconciles
    <2>1. SUFFICES ASSUME SavingsInv, Quiet
                   PROVE  Balance = ApprovedTotal(contribution)
                                       - ApprovedTotal(payout)
        BY BookedFollows DEF PotReconciles
    <2>2. DOMAIN payout = Payout /\ DOMAIN contribution = Contribution
        BY <2>1 DEF SavingsInv, PayoutInv, PayoutTypeOK, ContributionInv,
                    ContributionTypeOK
    <2>3. PaidOut = {p \in DOMAIN payout : /\ payout[p] # None
                                           /\ payout[p].status = "APPROVED"}
        BY <2>1, <2>2, QuietIsSettled DEF PaidOut, PayoutApproved, PayoutExists
    <2>4. PaidIn = {i \in DOMAIN contribution :
                       /\ contribution[i] # None
                       /\ contribution[i].status = "APPROVED"}
        BY <2>1, <2>2, QuietIsSettled DEF PaidIn, InStatus, ContributionExists
    <2>5. /\ ApprovedTotal(payout) = Worth(payout, PaidOut)
          /\ ApprovedTotal(contribution) = Worth(contribution, PaidIn)
        BY <2>3, <2>4 DEF ApprovedTotal
    <2>6. QED
        BY <2>1, <2>5 DEF SavingsInv, PotIsBooked
<1>2. SavingsInv /\ [SavingsNext]_savingsVars => SavingsInv'
    BY SavingsStepInv
<1>3. QED
    BY SavingsInitInv, <1>1, <1>2, PTL DEF SavingsSpec

-----------------------------------------------------------------------------
(* One request at a time, whatever fails: decisions are final. *)

\* What a handler is about to insert is not there; what it is about to decide
\* is PENDING.
UndecidedReads ==
    /\ \A c \in PayoutCaller :
          /\ PayoutAt(c, "insert") => ~ PayoutExists(payoutCall[c].payout)
          /\ payoutCall[c] # None /\ ~ PayoutAt(c, "insert")
                => PayoutPending(payoutCall[c].payout)
    /\ \A c \in ContributionCaller : \A pc \in {"approve", "reject", "cancel"} :
          ContributionAt(c, pc) => InStatus(contributionCall[c].id, "PENDING")

TurnInv == BothInv /\ OneAtATime /\ UndecidedReads

\* Only a PENDING payout is written to.
PayoutsFinal ==
    \A p \in Payout :
        PayoutExists(p) /\ ~ PayoutPending(p) => payout'[p] = payout[p]

\* Only a PENDING contribution is written to.
ContributionsFinal ==
    \A i \in Contribution :
        ContributionExists(i) /\ ~ InStatus(i, "PENDING") =>
            contribution'[i] = contribution[i]

\* The handler of a payout writes to the row it works on, or to none.
LEMMA PayoutWrites ==
    ASSUME TurnInv, PayoutSide
    PROVE  PayoutsFinal
<1>1. payout \in [Payout -> PayoutRow \cup {None}]
    BY DEF TurnInv, BothInv, PayoutInv, PayoutTypeOK
<1>2. CASE UNCHANGED payout
    BY <1>2 DEF PayoutsFinal
<1>3. ASSUME NEW c \in PayoutCaller, InsertPayout(c)
      PROVE  PayoutsFinal
    <2>1. ~ PayoutExists(payoutCall[c].payout)
        BY <1>3 DEF InsertPayout, TurnInv, UndecidedReads
    <2>2. QED
        BY <1>1, <1>3, <2>1 DEF InsertPayout, PayoutsFinal
<1>4. ASSUME NEW c \in PayoutCaller,
             SettlePayout(c) \/ RejectPayout(c) \/ CancelPayout(c)
      PROVE  PayoutsFinal
    <2>1. PayoutPending(payoutCall[c].payout)
        BY <1>4 DEF SettlePayout, RejectPayout, CancelPayout, PayoutAt,
                    TurnInv, UndecidedReads
    <2>2. \A p \in Payout : p # payoutCall[c].payout => payout'[p] = payout[p]
        BY <1>1, <1>4
           DEF SettlePayout, RejectPayout, CancelPayout, SetPayoutStatus
    <2>3. QED
        BY <2>1, <2>2 DEF PayoutsFinal
<1>5. ASSUME NEW c \in PayoutCaller, PayoutRequest(c)
      PROVE  UNCHANGED payout
    BY <1>5 DEF PayoutRequest, CreatePayout, ReadForApproval, ReadForRejection,
                ReadForCancel
<1>6. ASSUME NEW c \in PayoutCaller,
             \/ CheckBalance(c) \/ InsertApproval(c) \/ StartDebit(c)
             \/ FinishDebit(c) \/ FailDebit(c) \/ InsertRejection(c)
             \/ CrashPayoutCall(c)
      PROVE  UNCHANGED payout
    BY <1>6 DEF CheckBalance, InsertApproval, StartDebit, FinishDebit,
                FailDebit, InsertRejection, CrashPayoutCall
<1>7. ASSUME NEW n, UpdateRules(n) PROVE UNCHANGED payout
    BY <1>7 DEF UpdateRules
<1>8. QED
    BY <1>2, <1>3, <1>4, <1>5, <1>6, <1>7 DEF PayoutSide, PayoutStep

\* The same of contributions.
LEMMA ContributionWrites ==
    ASSUME TurnInv, ContributionSide
    PROVE  ContributionsFinal
<1>1. /\ contribution \in [Contribution -> ContributionRow \cup {None}]
      /\ ContributionTypeOK
    BY DEF TurnInv, BothInv, ContributionInv, ContributionTypeOK
<1>2. CASE UNCHANGED contribution
    BY <1>2 DEF ContributionsFinal
<1>3. ASSUME NEW c \in ContributionCaller, InsertContribution(c)
      PROVE  ContributionsFinal
    <2>1. contributionCall[c] \in SubmitCall
        BY <1>1, <1>3, SubmitKind DEF InsertContribution
    <2>2. ~ ContributionExists(contributionCall[c].id)
        BY <2>1 DEF TurnInv, BothInv, ContributionInv, SubmitterOK
    <2>3. QED
        BY <1>1, <1>3, <2>2 DEF InsertContribution, ContributionsFinal
<1>4. ASSUME NEW c \in ContributionCaller,
             \/ ApproveContribution(c)
             \/ RejectContribution(c)
             \/ CancelContribution(c)
      PROVE  ContributionsFinal
    <2>1. InStatus(contributionCall[c].id, "PENDING")
        BY <1>4 DEF ApproveContribution, RejectContribution,
                    CancelContribution, TurnInv, UndecidedReads
    <2>2. \A i \in Contribution : i # contributionCall[c].id =>
              contribution'[i] = contribution[i]
        BY <1>1, <1>4 DEF ApproveContribution, RejectContribution,
                          CancelContribution, UpdateStatus
    <2>3. QED
        BY <2>1, <2>2 DEF ContributionsFinal
<1>5. ASSUME NEW c \in ContributionCaller, ContributionRequest(c)
      PROVE  UNCHANGED contribution
    BY <1>5 DEF ContributionRequest, SubmitContribution, ReadForApprove,
                ReadForReject, ReadForCancelling
<1>6. ASSUME NEW c \in ContributionCaller,
             \/ CheckPending(c) \/ StartCredit(c) \/ FinishCredit(c)
             \/ FailCredit(c) \/ CrashContributionCall(c)
      PROVE  UNCHANGED contribution
    BY <1>6 DEF CheckPending, StartCredit, FinishCredit, FailCredit,
                CrashContributionCall
<1>7. QED
    BY <1>2, <1>3, <1>4, <1>5, <1>6 DEF ContributionSide, ContributionStep

\* A handler that goes on works on the payout it has read.
LEMMA PayoutTurnInv ==
    ASSUME TurnInv, BothInv', MaxInFlight = 1, PayoutSide
    PROVE  TurnInv'
<1>1. /\ payoutCall \in [PayoutCaller -> Calls] /\ PayoutTypeOK
      /\ UNCHANGED <<contribution, contributionCall>>
    BY DEF TurnInv, BothInv, PayoutInv, PayoutTypeOK, Calls, PayoutSide
<1>2. ASSUME NEW c \in PayoutCaller, PayoutAlone(c),
             NEW x \in Calls, payoutCall' = [payoutCall EXCEPT ![c] = x],
             x # None /\ x.pc = "insert" => ~ PayoutExists(x.payout)',
             x # None /\ x.pc # "insert" => PayoutPending(x.payout)'
      PROVE  TurnInv'
    <2>1. /\ OneAtATime'
          /\ payoutCall'[c] = x
          /\ \A d \in PayoutCaller \ {c} : payoutCall'[d] = None
          /\ \A d \in ContributionCaller : contributionCall'[d] = None
        BY <1>1, <1>2, PayoutTurnKept
    <2>2. UndecidedReads'
        BY <1>2, <2>1 DEF UndecidedReads, PayoutAt, ContributionAt
    <2>3. QED
        BY <2>1, <2>2 DEF TurnInv
<1>3. ASSUME NEW c \in PayoutCaller, PayoutReturn(c), payoutCall[c] # None
      PROVE  TurnInv'
    <2>1. PayoutAlone(c)
        BY <1>3 DEF TurnInv, OneAtATime, PayoutAlone
    <2>2. /\ payoutCall' = [payoutCall EXCEPT ![c] = None]
          /\ None \in Calls
        BY <1>3 DEF PayoutReturn, Calls
    <2>3. QED
        BY <1>2, <2>1, <2>2
<1>4. ASSUME NEW c \in PayoutCaller, payoutCall[c] # None,
             ~ PayoutAt(c, "insert"), UNCHANGED payout,
             NEW pc \in {"vote", "debit", "ledger", "settle", "reject"},
             PayoutGoto(c, pc)
      PROVE  TurnInv'
    <2>1. PayoutAlone(c)
        BY <1>4 DEF TurnInv, OneAtATime, PayoutAlone
    <2>2. PayoutPending(payoutCall[c].payout)
        BY <1>4 DEF TurnInv, UndecidedReads
    <2>3. payoutCall[c] \in DecisionCall
        BY <1>1, <1>4 DEF Calls, CreateCall, PayoutAt
    <2>4. PICK x \in DecisionCall :
              /\ payoutCall' = [payoutCall EXCEPT ![c] = x]
              /\ x.pc = pc
              /\ x.payout = payoutCall[c].payout
        BY <1>1, <1>4, <2>3, GotoCall
    <2>5. PayoutPending(x.payout)'
        BY <1>4, <2>2, <2>4 DEF PayoutPending, PayoutExists
    <2>6. x \in Calls /\ x.pc # "insert"
        BY <2>4 DEF Calls
    <2>7. QED
        BY <1>2, <2>1, <2>4, <2>5, <2>6
<1>5. ASSUME NEW c \in PayoutCaller, InFlight < MaxInFlight, PayoutRequest(c)
      PROVE  TurnInv'
    <2>1. PayoutAlone(c)
        BY <1>5, PayoutTurn DEF TurnInv
    <2>2. UNCHANGED payout
        BY <1>5 DEF PayoutRequest, CreatePayout, ReadForApproval,
                    ReadForRejection, ReadForCancel
    <2>3. ASSUME NEW p \in Payout, NEW u \in User, NEW a \in Amount,
                 NEW k \in Key \cup {None}, CreatePayout(c, p, u, a, k)
          PROVE  TurnInv'
        <3>1. PICK x : x = [pc |-> "insert", payout |-> p, user |-> u,
                            amount |-> a, key |-> k]
            OBVIOUS
        <3>2. x \in Calls /\ x.pc = "insert" /\ x.payout = p
            BY <3>1 DEF Calls, CreateCall
        <3>3. payoutCall' = [payoutCall EXCEPT ![c] = x]
            BY <2>3, <3>1 DEF CreatePayout
        <3>4. ~ PayoutExists(x.payout)'
            BY <2>2, <2>3, <3>2 DEF CreatePayout, PayoutExists
        <3>5. QED
            BY <1>2, <2>1, <3>2, <3>3, <3>4
    <2>4. ASSUME NEW p \in Payout, NEW u \in User,
                 NEW pc \in {"balance", "veto", "cancel"},
                 NEW seen \in SUBSET Officer, PayoutPending(p),
                 StartDecision(c, pc, p, u, seen)
          PROVE  TurnInv'
        <3>1. PICK x : x = [pc |-> pc, payout |-> p, user |-> u,
                            seen |-> seen, required |-> minApprovals]
            OBVIOUS
        <3>2. x \in Calls /\ x.pc = pc /\ x.payout = p
            BY <1>1, <3>1 DEF Calls, DecisionCall, PayoutTypeOK
        <3>3. payoutCall' = [payoutCall EXCEPT ![c] = x]
            BY <2>4, <3>1 DEF StartDecision
        <3>4. PayoutPending(x.payout)'
            BY <2>2, <2>4, <3>2 DEF PayoutPending, PayoutExists
        <3>5. QED
            BY <1>2, <2>1, <3>2, <3>3, <3>4
    <2>5. \A p : Approvers(p) \in SUBSET Officer
        BY DEF Approvers
    <2>6. QED
        BY <1>5, <2>3, <2>4, <2>5
           DEF PayoutRequest, ReadForApproval, ReadForRejection, ReadForCancel
<1>6. ASSUME NEW c \in PayoutCaller, PayoutStep(c)
      PROVE  TurnInv'
    <2>1. CASE InsertPayout(c) \/ FailDebit(c) \/ SettlePayout(c)
                 \/ RejectPayout(c) \/ CancelPayout(c)
        BY <1>3, <2>1 DEF InsertPayout, FailDebit, SettlePayout, RejectPayout,
                          CancelPayout, PayoutAt
    <2>2. CASE \/ CheckBalance(c) \/ InsertApproval(c)
               \/ InsertRejection(c)
        BY <1>3, <1>4, <2>2
           DEF CheckBalance, InsertApproval, InsertRejection, PayoutAt
    <2>3. CASE StartDebit(c) \/ FinishDebit(c)
        BY <1>4, <2>3 DEF StartDebit, FinishDebit, PayoutAt
    <2>4. QED
        BY <1>6, <2>1, <2>2, <2>3 DEF PayoutStep
<1>7. ASSUME NEW c \in PayoutCaller, CrashPayoutCall(c)
      PROVE  TurnInv'
    BY <1>3, <1>7 DEF CrashPayoutCall
<1>8. ASSUME NEW n, UpdateRules(n)
      PROVE  TurnInv'
    BY <1>1, <1>8 DEF UpdateRules, TurnInv, OneAtATime, UndecidedReads, PayoutAt,
                      PayoutExists, PayoutPending, ContributionAt, InStatus,
                      ContributionExists
<1>9. QED
    BY <1>5, <1>6, <1>7, <1>8 DEF PayoutSide

\* A handler that goes on works on the row it has read.
LEMMA ContributionTurnInv ==
    ASSUME TurnInv, BothInv', MaxInFlight = 1, ContributionSide
    PROVE  TurnInv'
<1>1. /\ contributionCall \in [ContributionCaller -> ContributionCalls]
      /\ ContributionTypeOK
      /\ UNCHANGED <<payout, payoutCall>>
    BY DEF TurnInv, BothInv, ContributionInv, ContributionTypeOK,
           ContributionCalls, ContributionSide
<1>2. ASSUME NEW c \in ContributionCaller, ContributionAlone(c),
             NEW x \in ContributionCalls,
             contributionCall' = [contributionCall EXCEPT ![c] = x],
             x # None /\ x.pc \in {"approve", "reject", "cancel"} =>
                InStatus(x.id, "PENDING")'
      PROVE  TurnInv'
    <2>1. /\ OneAtATime'
          /\ contributionCall'[c] = x
          /\ \A d \in ContributionCaller \ {c} : contributionCall'[d] = None
          /\ \A d \in PayoutCaller : payoutCall'[d] = None
        BY <1>1, <1>2, ContributionTurnKept
    <2>2. UndecidedReads'
        BY <1>2, <2>1 DEF UndecidedReads, PayoutAt, ContributionAt
    <2>3. QED
        BY <2>1, <2>2 DEF TurnInv
<1>3. ASSUME NEW c \in ContributionCaller, contributionCall[c] # None,
             ContributionReturn(c)
      PROVE  TurnInv'
    <2>1. ContributionAlone(c)
        BY <1>3 DEF TurnInv, OneAtATime, ContributionAlone
    <2>2. /\ contributionCall' = [contributionCall EXCEPT ![c] = None]
          /\ None \in ContributionCalls
        BY <1>3 DEF ContributionReturn, ContributionCalls
    <2>3. QED
        BY <1>2, <2>1, <2>2
<1>4. ASSUME NEW c \in ContributionCaller, contributionCall[c] # None,
             NEW from, ContributionAt(c, from),
             NEW pc \in {"insert", "credit", "ledger"},
             IF pc = "insert" THEN from = "pending"
                              ELSE from \in {"approve", "credit"},
             ContributionGoto(c, pc)
      PROVE  TurnInv'
    <2>1. ContributionAlone(c)
        BY <1>4 DEF TurnInv, OneAtATime, ContributionAlone
    <2>2. PICK x : x = [contributionCall[c] EXCEPT !.pc = pc]
        OBVIOUS
    <2>3. x \in ContributionCalls /\ x.pc = pc
        <3>1. CASE pc = "insert"
            <4>1. contributionCall[c] \in SubmitCall
                BY <1>1, <1>4, <3>1, SubmitKind
            <4>2. QED
                BY <2>2, <3>1, <4>1 DEF ContributionCalls, SubmitCall
        <3>2. CASE pc # "insert"
            <4>1. contributionCall[c] \in ReviewCall
                BY <1>1, <1>4, <3>2, ReviewKind
            <4>2. QED
                BY <1>4, <2>2, <3>2, <4>1 DEF ContributionCalls, ReviewCall
        <3>3. QED
            BY <3>1, <3>2
    <2>4. contributionCall' = [contributionCall EXCEPT ![c] = x]
        BY <1>4, <2>2 DEF ContributionGoto
    <2>5. QED
        BY <1>2, <2>1, <2>3, <2>4
<1>5. ASSUME NEW c \in ContributionCaller, InFlight < MaxInFlight,
             ContributionRequest(c)
      PROVE  TurnInv'
    <2>1. ContributionAlone(c)
        BY <1>5, ContributionTurn DEF TurnInv
    <2>2. UNCHANGED contribution
        BY <1>5 DEF ContributionRequest, SubmitContribution, ReadForApprove,
                    ReadForReject, ReadForCancelling
    <2>3. ASSUME NEW i \in Contribution, NEW u \in User, NEW per \in Period,
                 NEW a \in Amount, NEW k \in Key \cup {None},
                 SubmitContribution(c, i, u, per, a, k)
          PROVE  TurnInv'
        <3>1. PICK x : x = [pc |-> "pending", id |-> i, member |-> u,
                            period |-> per, amount |-> a, key |-> k]
            OBVIOUS
        <3>2. x \in ContributionCalls /\ x.pc = "pending"
            BY <3>1 DEF ContributionCalls, SubmitCall
        <3>3. contributionCall' = [contributionCall EXCEPT ![c] = x]
            BY <2>3, <3>1 DEF SubmitContribution
        <3>4. QED
            BY <1>2, <2>1, <3>2, <3>3
    <2>4. ASSUME NEW i \in Contribution, NEW u \in User,
                 NEW pc \in {"approve", "reject", "cancel"},
                 InStatus(i, "PENDING"), StartReview(c, pc, i, u)
          PROVE  TurnInv'
        <3>1. PICK x : x = [pc |-> pc, id |-> i, user |-> u]
            OBVIOUS
        <3>2. x \in ContributionCalls /\ x.pc = pc /\ x.id = i
            BY <3>1 DEF ContributionCalls, ReviewCall
        <3>3. contributionCall' = [contributionCall EXCEPT ![c] = x]
            BY <2>4, <3>1 DEF StartReview
        <3>4. InStatus(x.id, "PENDING")'
            BY <2>2, <2>4, <3>2 DEF InStatus, ContributionExists
        <3>5. QED
            BY <1>2, <2>1, <3>2, <3>3, <3>4
    <2>5. QED
        BY <1>5, <2>3, <2>4
           DEF ContributionRequest, ReadForApprove, ReadForReject,
               ReadForCancelling
<1>6. ASSUME NEW c \in ContributionCaller, ContributionStep(c)
      PROVE  TurnInv'
    <2>1. CASE \/ InsertContribution(c) \/ FinishCredit(c) \/ FailCredit(c)
               \/ RejectContribution(c) \/ CancelContribution(c)
        BY <1>3, <2>1 DEF InsertContribution, FinishCredit, FailCredit,
                          RejectContribution, CancelContribution, ContributionAt
    <2>2. CASE CheckPending(c)
        BY <1>3, <1>4, <2>2 DEF CheckPending, ContributionAt
    <2>3. CASE ApproveContribution(c) \/ StartCredit(c)
        BY <1>3, <1>4, <2>3 DEF ApproveContribution, StartCredit, ContributionAt
    <2>4. QED
        BY <1>6, <2>1, <2>2, <2>3 DEF ContributionStep
<1>7. ASSUME NEW c \in ContributionCaller, CrashContributionCall(c)
      PROVE  TurnInv'
    BY <1>3, <1>7 DEF CrashContributionCall
<1>8. QED
    BY <1>5, <1>6, <1>7 DEF ContributionSide

LEMMA TurnStep ==
    ASSUME MaxInFlight = 1
    PROVE  TurnInv /\ [SavingsNext]_savingsVars => TurnInv'
<1> SUFFICES ASSUME TurnInv, [SavingsNext]_savingsVars PROVE TurnInv'
    OBVIOUS
<1>1. BothInv'
    BY BothStep DEF TurnInv
<1>2. CASE PayoutSide
    BY <1>1, <1>2, PayoutTurnInv
<1>3. CASE ContributionSide
    BY <1>1, <1>3, ContributionTurnInv
<1>4. CASE UNCHANGED savingsVars
    BY <1>1, <1>4 DEF savingsVars, TurnInv, OneAtATime, UndecidedReads, PayoutAt,
                      PayoutExists, PayoutPending, ContributionAt, InStatus,
                      ContributionExists
<1>5. QED
    BY <1>2, <1>3, <1>4 DEF SavingsNext

\* One request after another, even if handlers fail half way: a payout or a
\* contribution that has left PENDING is never written to again.
THEOREM SavingsDecisionsFinal ==
    ASSUME MaxInFlight = 1
    PROVE  SavingsSpec => DecisionsFinal
<1>1. SavingsInit => TurnInv
    <2>1. SUFFICES ASSUME SavingsInit PROVE OneAtATime /\ UndecidedReads
        BY BothInit DEF TurnInv
    <2>2. /\ \A c \in PayoutCaller : payoutCall[c] = None
          /\ \A c \in ContributionCaller : contributionCall[c] = None
        BY <2>1 DEF SavingsInit, PayoutInit, ContributionInit
    <2>3. QED
        BY <2>2 DEF OneAtATime, UndecidedReads, PayoutAt, ContributionAt
<1>2. TurnInv /\ [SavingsNext]_savingsVars => TurnInv'
    BY TurnStep
<1>3. TurnInv /\ [SavingsNext]_savingsVars =>
        [PayoutsFinal /\ ContributionsFinal]_savingsVars
    <2>1. SUFFICES ASSUME TurnInv, SavingsNext
                   PROVE  PayoutsFinal /\ ContributionsFinal
        OBVIOUS
    <2>2. CASE PayoutSide
        <3>1. contribution' = contribution
            BY <2>2 DEF PayoutSide
        <3>2. QED
            BY <2>1, <2>2, <3>1, PayoutWrites DEF ContributionsFinal
    <2>3. CASE ContributionSide
        <3>1. payout' = payout
            BY <2>3 DEF ContributionSide
        <3>2. QED
            BY <2>1, <2>3, <3>1, ContributionWrites DEF PayoutsFinal
    <2>4. QED
        BY <2>1, <2>2, <2>3 DEF SavingsNext
<1>4. QED
    BY <1>1, <1>2, <1>3, PTL
       DEF SavingsSpec, DecisionsFinal, PayoutsFinal, ContributionsFinal

=============================================================================
