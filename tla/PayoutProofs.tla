----------------------------- MODULE PayoutProofs -----------------------------
(***************************************************************************)
(* The safety of the payouts service for any number of payouts, officers,  *)
(* requests in flight and outside callers, with failures at every step.    *)
(***************************************************************************)
EXTENDS Payouts, LedgerProofs, FiniteSetTheorems

Calls == CreateCall \cup DecisionCall \cup {None}

Votes == {"NONE", "APPROVED", "REJECTED"}

\* No approval is taken back.
VotesGrow == \A p \in Payout : Approvers(p) \subseteq Approvers(p)'

\* No debit is made, and the debits made stay as they are.
DebitsKept ==
    \A p \in Payout :
        /\ Debits(p)' = Debits(p)
        /\ \A i \in Debits(p) : ledger'[i].by = ledger[i].by

-----------------------------------------------------------------------------
(* Handlers and votes. *)

\* A handler past createPayout holds a decision on a payout that exists.
LEMMA CallKind ==
    ASSUME PayoutTypeOK, NEW c \in PayoutCaller, NEW pc, PayoutAt(c, pc),
           pc # "insert"
    PROVE  /\ payoutCall[c] \in DecisionCall
           /\ payoutCall[c].payout \in Payout
           /\ payoutCall[c].user \in User
           /\ payoutCall[c].seen \subseteq Officer
           /\ payoutCall[c].required \in MinApprovals
           /\ PayoutExists(payoutCall[c].payout)
           /\ payout[payoutCall[c].payout] \in PayoutRow
<1>1. payoutCall[c] \in CreateCall \cup DecisionCall
    BY DEF PayoutTypeOK, PayoutAt
<1>2. payoutCall[c] \notin CreateCall
    BY DEF PayoutAt, CreateCall
<1>3. payoutCall[c] \in DecisionCall
    BY <1>1, <1>2
<1>4. PayoutExists(payoutCall[c].payout)
    BY <1>3 DEF PayoutTypeOK
<1>5. /\ payoutCall[c].payout \in Payout
      /\ payoutCall[c].user \in User
      /\ payoutCall[c].seen \subseteq Officer
      /\ payoutCall[c].required \in MinApprovals
    BY <1>3 DEF DecisionCall
<1>6. QED
    BY <1>3, <1>4, <1>5 DEF PayoutTypeOK, PayoutExists

\* Moving on keeps what the handler has read.
LEMMA GotoCall ==
    ASSUME PayoutTypeOK, NEW c \in PayoutCaller, payoutCall[c] \in DecisionCall,
           NEW pc \in {"balance", "vote", "debit", "ledger", "settle",
                       "veto", "reject", "cancel"},
           PayoutGoto(c, pc)
    PROVE  \E x \in DecisionCall :
              /\ payoutCall' = [payoutCall EXCEPT ![c] = x]
              /\ x.pc = pc
              /\ x.payout = payoutCall[c].payout
              /\ x.user = payoutCall[c].user
              /\ x.seen = payoutCall[c].seen
              /\ x.required = payoutCall[c].required
<1> DEFINE x == [payoutCall[c] EXCEPT !.pc = pc]
<1>1. /\ x \in DecisionCall
      /\ x.pc = pc
      /\ x.payout = payoutCall[c].payout
      /\ x.user = payoutCall[c].user
      /\ x.seen = payoutCall[c].seen
      /\ x.required = payoutCall[c].required
    BY DEF DecisionCall
<1>2. payoutCall' = [payoutCall EXCEPT ![c] = x]
    BY DEF PayoutGoto
<1>3. QED
    BY <1>1, <1>2

\* An officer without a vote casts one: nobody's approval is lost, and an
\* approval adds just this officer.
LEMMA VoteCast ==
    ASSUME PayoutTypeOK, NEW c \in PayoutCaller,
           NEW p \in Payout, NEW u \in Officer,
           payoutCall[c].payout = p, payoutCall[c].user = u,
           MayVote(c), NEW decision \in {"APPROVED", "REJECTED"},
           Vote(c, decision)
    PROVE  /\ vote' \in [Payout -> [Officer -> Votes]]
           /\ VotesGrow
           /\ u \notin Approvers(p)
           /\ decision = "APPROVED" => u \in Approvers(p)'
<1>1. vote \in [Payout -> [Officer -> Votes]]
    BY DEF PayoutTypeOK, Votes
<1>2. vote' = [vote EXCEPT ![p] = [vote[p] EXCEPT ![u] = decision]]
    BY DEF Vote
<1>3. vote[p][u] = "NONE"
    BY DEF MayVote
<1>4. decision \in Votes
    BY DEF Votes
<1>5. vote'[p] = [vote[p] EXCEPT ![u] = decision]
    BY <1>1, <1>2
<1>6. vote' \in [Payout -> [Officer -> Votes]]
    BY <1>1, <1>2, <1>4
<1>7. VotesGrow
    <2>1. SUFFICES ASSUME NEW q \in Payout, NEW o \in Officer,
                          vote[q][o] = "APPROVED"
                   PROVE  vote'[q][o] = "APPROVED"
        BY DEF VotesGrow, Approvers
    <2>2. CASE q = p
        BY <1>1, <1>3, <1>5, <2>1, <2>2
    <2>3. CASE q # p
        BY <1>1, <1>2, <2>1, <2>3
    <2>4. QED
        BY <2>2, <2>3
<1>8. u \notin Approvers(p)
    BY <1>3 DEF Approvers
<1>9. ASSUME decision = "APPROVED" PROVE u \in Approvers(p)'
    <2>1. vote'[p][u] = "APPROVED"
        BY <1>1, <1>5, <1>9
    <2>2. QED
        BY <2>1 DEF Approvers
<1>10. QED
    BY <1>6, <1>7, <1>8, <1>9

-----------------------------------------------------------------------------
(* What a step of handler c, from payoutCall[c] to x, leaves true. *)

LEMMA TypeStep ==
    ASSUME PayoutTypeOK, NEW c \in PayoutCaller, NEW x \in Calls,
           payoutCall' = [payoutCall EXCEPT ![c] = x],
           payout' \in [Payout -> PayoutRow \cup {None}],
           \A p \in Payout : payout[p] # None => payout'[p] # None,
           vote' \in [Payout -> [Officer -> Votes]],
           minApprovals' = minApprovals,
           x \in DecisionCall => payout'[x.payout] # None,
           tx'[c] # None <=> x # None /\ x.pc = "ledger",
           \A d \in PayoutCaller \ {c} : tx'[d] = tx[d]
    PROVE  PayoutTypeOK'
<1>1. payoutCall \in [PayoutCaller -> Calls]
    BY DEF PayoutTypeOK, Calls
<1>2. payoutCall' \in [PayoutCaller -> Calls]
    BY <1>1
<1>3. minApprovals' \in MinApprovals
    BY DEF PayoutTypeOK
<1>4. ASSUME NEW d \in PayoutCaller
      PROVE  /\ payoutCall'[d] \in DecisionCall =>
                    payout'[payoutCall'[d].payout] # None
             /\ tx'[d] # None <=>
                    payoutCall'[d] # None /\ payoutCall'[d].pc = "ledger"
    <2>1. CASE d = c
        BY <1>1, <2>1
    <2>2. CASE d # c
        <3>1. payoutCall'[d] = payoutCall[d] /\ tx'[d] = tx[d]
            BY <1>1, <2>2
        <3>2. payoutCall[d] \in DecisionCall =>
                  /\ payoutCall[d].payout \in Payout
                  /\ payout[payoutCall[d].payout] # None
            BY DEF PayoutTypeOK, PayoutExists, DecisionCall
        <3>3. tx[d] # None <=> payoutCall[d] # None /\ payoutCall[d].pc = "ledger"
            BY DEF PayoutTypeOK, PayoutAt
        <3>4. QED
            BY <3>1, <3>2, <3>3
    <2>3. QED
        BY <2>1, <2>2
<1>5. QED
    BY <1>2, <1>3, <1>4 DEF PayoutTypeOK, PayoutExists, PayoutAt, Votes, Calls

\* A handler that does not move keeps what it knows, as long as no vote and no
\* debit is taken back and its ledger transaction stays.
LEMMA HandlersStep ==
    ASSUME PayoutTypeOK, HandlersOK, VotesGrow, NEW c \in PayoutCaller,
           NEW x \in Calls, payoutCall' = [payoutCall EXCEPT ![c] = x],
           \A d \in PayoutCaller \ {c} : tx'[d] = tx[d],
           \A p \in Payout : Debits(p) \subseteq Debits(p)',
           HandlerOK(c)'
    PROVE  HandlersOK'
<1>1. SUFFICES ASSUME NEW d \in PayoutCaller, d # c PROVE HandlerOK(d)'
    BY DEF HandlersOK
<1>2. payoutCall'[d] = payoutCall[d] /\ tx'[d] = tx[d]
    BY <1>1 DEF PayoutTypeOK
<1>3. HandlerOK(d)
    BY DEF HandlersOK
<1>4. ASSUME NEW pc, pc # "insert", PayoutAt(d, pc)
      PROVE  payoutCall[d].payout \in Payout
    BY <1>4, CallKind
<1>5. \A q \in Payout : Approvers(q) \subseteq Approvers(q)'
    BY DEF VotesGrow
<1>6. PICK call : call = payoutCall[d]
    OBVIOUS
<1>7. /\ PayoutAt(d, "balance")' => PayoutAt(d, "balance")
      /\ PayoutAt(d, "vote")' => PayoutAt(d, "vote")
      /\ PayoutAt(d, "veto")' => PayoutAt(d, "veto")
      /\ PayoutAt(d, "debit")' => PayoutAt(d, "debit")
      /\ PayoutAt(d, "ledger")' => PayoutAt(d, "ledger")
      /\ PayoutAt(d, "settle")' => PayoutAt(d, "settle")
    BY <1>2 DEF PayoutAt
<1>8. PayoutAt(d, "balance")' \/ PayoutAt(d, "vote")' =>
          call.user \in Officer /\ call.seen \subseteq Approvers(call.payout)'
    BY <1>3, <1>4, <1>5, <1>6, <1>7 DEF HandlerOK
<1>9. PayoutAt(d, "veto")' => call.user \in Officer
    BY <1>3, <1>6, <1>7 DEF HandlerOK
<1>10. PayoutAt(d, "debit")' \/ PayoutAt(d, "ledger")' =>
          call.user \in Approvers(call.payout)'
    BY <1>3, <1>4, <1>5, <1>6, <1>7 DEF HandlerOK
<1>11. PayoutAt(d, "ledger")' =>
          /\ tx'[d].type = "PAYOUT_DEBIT"
          /\ tx'[d].ref = call.payout
          /\ tx'[d].by = call.user
    BY <1>2, <1>3, <1>6, <1>7 DEF HandlerOK
<1>12. PayoutAt(d, "settle")' => Debited(call.payout)'
    BY <1>3, <1>4, <1>6, <1>7 DEF HandlerOK, Debited
<1>13. payoutCall'[d] = call
    BY <1>2, <1>6
<1>14. QED
    BY <1>8, <1>9, <1>10, <1>11, <1>12, <1>13 DEF HandlerOK

\* No handler reaches the quorum in this step.
NoneStartsPaying ==
    \A p \in Payout : \A d \in Paying(p)' :
        d \in Paying(p) /\ payoutCall'[d].user = payoutCall[d].user

\* A handler that returns, or is not about to pay, or was so already, adds
\* nobody to those who pay.
LEMMA PayingStep ==
    ASSUME PayoutTypeOK, NEW c \in PayoutCaller, NEW x \in Calls,
           payoutCall' = [payoutCall EXCEPT ![c] = x],
           x # None /\ x.pc \in {"debit", "ledger"} =>
               /\ PayoutAt(c, "debit") \/ PayoutAt(c, "ledger")
               /\ x.payout = payoutCall[c].payout
               /\ x.user = payoutCall[c].user
    PROVE  NoneStartsPaying
<1>1. SUFFICES ASSUME NEW p \in Payout, NEW d \in PayoutCaller, d \in Paying(p)'
               PROVE  d \in Paying(p) /\ payoutCall'[d].user = payoutCall[d].user
    BY DEF NoneStartsPaying, Paying
<1>2. CASE d = c
    <2>1. payoutCall'[d] = x
        BY <1>2 DEF PayoutTypeOK
    <2>2. QED
        BY <1>1, <1>2, <2>1 DEF Paying, PayoutAt
<1>3. CASE d # c
    <2>1. payoutCall'[d] = payoutCall[d]
        BY <1>3 DEF PayoutTypeOK
    <2>2. QED
        BY <1>1, <2>1 DEF Paying, PayoutAt
<1>4. QED
    BY <1>2, <1>3

\* While nobody starts paying and no debit is made, the claims on the votes
\* stay as they are.
LEMMA ClaimsStep ==
    ASSUME SignedOnce, Backed, VotesGrow, DebitsKept, NoneStartsPaying
    PROVE  SignedOnce' /\ Backed'
<1>1. ASSUME NEW p \in Payout
      PROVE  /\ Approvers(p) \subseteq Approvers(p)'
             /\ Debits(p)' = Debits(p)
             /\ \A i \in Debits(p) : ledger'[i].by = ledger[i].by
             /\ \A d \in Paying(p)' :
                   d \in Paying(p) /\ payoutCall'[d].user = payoutCall[d].user
    BY DEF VotesGrow, DebitsKept, NoneStartsPaying
<1>2. SignedOnce'
    BY <1>1 DEF SignedOnce
<1>3. ASSUME NEW p \in Payout, Paying(p)' # {} \/ Debited(p)'
      PROVE  \E n \in MinApprovals : \E rest \in SUBSET Officer :
                Backing(p, n, rest)'
    <2>1. Paying(p) # {} \/ Debited(p)
        BY <1>1, <1>3 DEF Debited
    <2>2. PICK n \in MinApprovals, rest \in SUBSET Officer : Backing(p, n, rest)
        BY <2>1 DEF Backed
    <2>3. Backing(p, n, rest)'
        BY <1>1, <2>2 DEF Backing
    <2>4. QED
        BY <2>3
<1>4. Backed'
    BY <1>3 DEF Backed
<1>5. QED
    BY <1>2, <1>4

\* Everything that concerns the ledger stays when neither the ledger nor a
\* transaction changes.
LEMMA LedgerStands ==
    ASSUME LedgerInv, OthersCredit, ledger' = ledger, tx' = tx
    PROVE  LedgerInv' /\ OthersCredit' /\ DebitsKept
<1>1. LedgerInv'
    BY DEF LedgerInv, LedgerTypeOK, RunningBalance, NeverNegative, BalanceAt
<1>2. OthersCredit'
    BY DEF OthersCredit
<1>3. DebitsKept
    BY DEF DebitsKept, Debits
<1>4. QED
    BY <1>1, <1>2, <1>3

\* A payout is APPROVED only if it was so before or has been debited.
NoFalseApproval ==
    \A p \in Payout :
        payout'[p] # None /\ payout'[p].status = "APPROVED" =>
            \/ payout[p] # None /\ payout[p].status = "APPROVED"
            \/ Debited(p)

\* A step of one handler that leaves the ledger alone and starts no payment.
LEMMA QuietStep ==
    ASSUME PayoutInv, NEW c \in PayoutCaller, NEW x \in Calls,
           payoutCall' = [payoutCall EXCEPT ![c] = x],
           payout' \in [Payout -> PayoutRow \cup {None}],
           \A p \in Payout : payout[p] # None => payout'[p] # None,
           vote' \in [Payout -> [Officer -> Votes]],
           VotesGrow,
           minApprovals' = minApprovals,
           ledger' = ledger, tx' = tx,
           x \in DecisionCall => payout'[x.payout] # None,
           x # None => x.pc \notin {"debit", "ledger"},
           ~ PayoutAt(c, "ledger"),
           HandlerOK(c)',
           NoFalseApproval
    PROVE  PayoutInv'
<1>1. LedgerInv' /\ OthersCredit' /\ DebitsKept
    BY LedgerStands DEF PayoutInv
<1>2. PayoutTypeOK /\ tx[c] = None
    BY DEF PayoutInv, PayoutTypeOK
<1>3. PayoutTypeOK'
    <2>1. tx'[c] # None <=> x # None /\ x.pc = "ledger"
        BY <1>2
    <2>2. \A d \in PayoutCaller \ {c} : tx'[d] = tx[d]
        OBVIOUS
    <2>3. QED
        BY <1>2, <2>1, <2>2, TypeStep
<1>4. HandlersOK'
    <2>1. \A p \in Payout : Debits(p) \subseteq Debits(p)'
        BY <1>1 DEF DebitsKept
    <2>2. QED
        BY <1>2, <2>1, HandlersStep DEF PayoutInv
<1>5. SignedOnce' /\ Backed'
    <2>1. NoneStartsPaying
        BY <1>2, PayingStep
    <2>2. QED
        BY <1>1, <2>1, ClaimsStep DEF PayoutInv
<1>6. ApprovedIsDebited'
    <2>1. \A p \in Payout : Debited(p) => Debited(p)'
        BY <1>1 DEF DebitsKept, Debited
    <2>2. QED
        BY <2>1 DEF PayoutInv, ApprovedIsDebited, NoFalseApproval, PayoutExists
<1>7. QED
    BY <1>1, <1>3, <1>4, <1>5, <1>6 DEF PayoutInv

\* The same for a handler that leaves the rows and the votes alone too.
LEMMA IdleStep ==
    ASSUME PayoutInv, NEW c \in PayoutCaller, NEW x \in Calls,
           payoutCall' = [payoutCall EXCEPT ![c] = x],
           UNCHANGED <<payout, vote, minApprovals, ledger, tx>>,
           x \in DecisionCall => payout[x.payout] # None,
           x # None => x.pc \notin {"debit", "ledger"},
           ~ PayoutAt(c, "ledger"),
           HandlerOK(c)'
    PROVE  PayoutInv'
<1>1. /\ payout' \in [Payout -> PayoutRow \cup {None}]
      /\ vote' \in [Payout -> [Officer -> Votes]]
    BY DEF PayoutInv, PayoutTypeOK, Votes
<1>2. VotesGrow /\ NoFalseApproval
    BY DEF VotesGrow, NoFalseApproval, Approvers
<1>3. QED
    BY <1>1, <1>2, QuietStep

\* A handler that returns knows nothing.
LEMMA ReturnCall ==
    ASSUME PayoutTypeOK, NEW c \in PayoutCaller, PayoutReturn(c)
    PROVE  /\ None \in Calls
           /\ payoutCall' = [payoutCall EXCEPT ![c] = None]
           /\ None \notin DecisionCall
           /\ HandlerOK(c)'
<1>1. payoutCall' = [payoutCall EXCEPT ![c] = None] /\ payoutCall'[c] = None
    BY DEF PayoutReturn, PayoutTypeOK
<1>2. HandlerOK(c)'
    BY <1>1 DEF HandlerOK, PayoutAt
<1>3. QED
    BY <1>1, <1>2, PayoutAssumption DEF Calls

\* A row's status changes, and nothing else about the rows.
LEMMA StatusStep ==
    ASSUME PayoutTypeOK, NEW p \in Payout, payout[p] # None,
           NEW status \in Status, SetPayoutStatus(p, status),
           status = "APPROVED" => Debited(p)
    PROVE  /\ payout' \in [Payout -> PayoutRow \cup {None}]
           /\ \A q \in Payout : payout[q] # None => payout'[q] # None
           /\ NoFalseApproval
<1> DEFINE row == [payout[p] EXCEPT !.status = status]
<1>1. payout[p] \in PayoutRow /\ payout \in [Payout -> PayoutRow \cup {None}]
    BY DEF PayoutTypeOK
<1>2. row \in PayoutRow /\ row.status = status
    BY <1>1 DEF PayoutRow
<1>3. row # None
    BY <1>2, PayoutAssumption
<1>4. payout' = [payout EXCEPT ![p] = row]
    BY DEF SetPayoutStatus
<1> HIDE DEF row
<1>5. payout' \in [Payout -> PayoutRow \cup {None}]
    BY <1>1, <1>2, <1>4
<1>6. \A q \in Payout : payout'[q] = IF q = p THEN row ELSE payout[q]
    BY <1>1, <1>4
<1>7. QED
    BY <1>2, <1>3, <1>5, <1>6 DEF NoFalseApproval

-----------------------------------------------------------------------------
(* The operations, one lemma each. *)

LEMMA CreatePayoutInv ==
    ASSUME PayoutInv, NEW c \in PayoutCaller, NEW p \in Payout, NEW u \in User,
           NEW a \in Amount, NEW k \in Key \cup {None},
           CreatePayout(c, p, u, a, k)
    PROVE  PayoutInv'
<1> DEFINE x == [pc |-> "insert", payout |-> p, user |-> u, amount |-> a,
                 key |-> k]
<1>1. x \in CreateCall /\ x \notin DecisionCall /\ x.pc = "insert"
    BY DEF CreateCall, DecisionCall
<1>2. payoutCall' = [payoutCall EXCEPT ![c] = x] /\ payoutCall[c] = None
    BY DEF CreatePayout
<1> HIDE DEF x
<1>3. payoutCall'[c] = x
    BY <1>2 DEF PayoutInv, PayoutTypeOK
<1>4. HandlerOK(c)'
    BY <1>1, <1>3 DEF HandlerOK, PayoutAt
<1>5. ~ PayoutAt(c, "ledger") /\ x \in Calls
    BY <1>1, <1>2 DEF PayoutAt, Calls
<1>6. UNCHANGED <<payout, vote, minApprovals, ledger, tx>>
    BY DEF CreatePayout
<1>7. QED
    BY <1>1, <1>2, <1>4, <1>5, <1>6, IdleStep

LEMMA InsertPayoutInv ==
    ASSUME PayoutInv, NEW c \in PayoutCaller, InsertPayout(c)
    PROVE  PayoutInv'
<1>1. PayoutTypeOK /\ payoutCall[c] # None /\ payoutCall[c].pc = "insert"
    BY DEF PayoutInv, InsertPayout, PayoutAt
<1>2. payoutCall[c] \in CreateCall
    BY <1>1 DEF PayoutTypeOK, DecisionCall
<1>3. PICK call \in CreateCall : call = payoutCall[c]
    BY <1>2
<1> DEFINE row == [status |-> "PENDING", amount |-> call.amount,
                   creator |-> call.user, key |-> call.key]
<1>4. call.payout \in Payout /\ row \in PayoutRow /\ row.status = "PENDING"
    BY DEF CreateCall, PayoutRow, Status
<1>5. row # None
    BY <1>4, PayoutAssumption
<1>6. payout' = payout \/ payout' = [payout EXCEPT ![call.payout] = row]
    BY <1>3 DEF InsertPayout
<1>7. payout \in [Payout -> PayoutRow \cup {None}]
    BY <1>1 DEF PayoutTypeOK
<1> HIDE DEF row
<1>8. /\ payout' \in [Payout -> PayoutRow \cup {None}]
      /\ \A q \in Payout : payout'[q] = payout[q] \/ payout'[q] = row
    BY <1>4, <1>6, <1>7
<1>9. /\ \A q \in Payout : payout[q] # None => payout'[q] # None
      /\ NoFalseApproval
    BY <1>4, <1>5, <1>8 DEF NoFalseApproval
<1>10. /\ vote' \in [Payout -> [Officer -> Votes]]
       /\ VotesGrow
       /\ minApprovals' = minApprovals /\ ledger' = ledger /\ tx' = tx
    BY <1>1 DEF InsertPayout, PayoutTypeOK, Votes, VotesGrow, Approvers
<1>11. /\ None \in Calls /\ None \notin DecisionCall
       /\ payoutCall' = [payoutCall EXCEPT ![c] = None]
       /\ HandlerOK(c)'
    BY <1>1, ReturnCall DEF InsertPayout
<1>12. ~ PayoutAt(c, "ledger")
    BY <1>1 DEF PayoutAt
<1>13. QED
    BY <1>8, <1>9, <1>10, <1>11, <1>12, QuietStep

\* A decision handler starts, with votes that stand.
LEMMA StartInv ==
    ASSUME PayoutInv, NEW c \in PayoutCaller, NEW p \in Payout, NEW u \in User,
           NEW pc \in {"balance", "veto", "cancel"}, NEW seen \in SUBSET Officer,
           payout[p] # None,
           pc \in {"balance", "veto"} => u \in Officer,
           seen \subseteq Approvers(p),
           StartDecision(c, pc, p, u, seen),
           UNCHANGED <<payout, vote, minApprovals, ledger, tx>>
    PROVE  PayoutInv'
<1>1. PICK n \in MinApprovals : n = minApprovals
    BY DEF PayoutInv, PayoutTypeOK
<1> DEFINE x == [pc |-> pc, payout |-> p, user |-> u, seen |-> seen,
                 required |-> n]
<1>2. /\ x \in DecisionCall
      /\ x.pc = pc /\ x.payout = p /\ x.user = u /\ x.seen = seen
    BY DEF DecisionCall
<1>3. payoutCall' = [payoutCall EXCEPT ![c] = x] /\ payoutCall[c] = None
    BY <1>1 DEF StartDecision
<1> HIDE DEF x
<1>4. payoutCall'[c] = x
    BY <1>3 DEF PayoutInv, PayoutTypeOK
<1>5. Approvers(p)' = Approvers(p)
    BY DEF Approvers
<1>6. HandlerOK(c)'
    BY <1>2, <1>4, <1>5 DEF HandlerOK, PayoutAt
<1>7. ~ PayoutAt(c, "ledger") /\ x \in Calls
    BY <1>2, <1>3 DEF PayoutAt, Calls
<1>8. QED
    BY <1>2, <1>3, <1>6, <1>7, IdleStep

LEMMA ReadInv ==
    ASSUME PayoutInv, NEW c \in PayoutCaller, NEW p \in Payout, NEW u \in User,
           \/ ReadForApproval(c, p, u)
           \/ ReadForRejection(c, p, u)
           \/ ReadForCancel(c, p, u)
    PROVE  PayoutInv'
<1>1. CASE ReadForApproval(c, p, u)
    <2>1. PICK seen \in SUBSET Officer : seen = Approvers(p)
        BY DEF Approvers
    <2>2. QED
        BY <1>1, <2>1, StartInv DEF ReadForApproval, PayoutPending, PayoutExists
<1>2. CASE ReadForRejection(c, p, u)
    BY <1>2, StartInv DEF ReadForRejection, PayoutPending, PayoutExists
<1>3. CASE ReadForCancel(c, p, u)
    BY <1>3, StartInv DEF ReadForCancel, PayoutPending, PayoutExists
<1>4. QED
    BY <1>1, <1>2, <1>3

LEMMA CheckBalanceInv ==
    ASSUME PayoutInv, NEW c \in PayoutCaller, CheckBalance(c)
    PROVE  PayoutInv'
<1>1. /\ PayoutTypeOK /\ PayoutAt(c, "balance") /\ ~ PayoutAt(c, "ledger")
      /\ UNCHANGED <<payout, vote, minApprovals, ledger, tx>>
    BY DEF PayoutInv, CheckBalance, PayoutAt
<1>2. payoutCall[c] \in DecisionCall /\ payout[payoutCall[c].payout] # None
    BY <1>1, CallKind DEF PayoutExists
<1>3. CASE PayoutReturn(c)
    BY <1>1, <1>3, ReturnCall, IdleStep
<1>4. CASE PayoutGoto(c, "vote")
    <2>1. PICK x \in DecisionCall :
              /\ payoutCall' = [payoutCall EXCEPT ![c] = x]
              /\ x.pc = "vote"
              /\ x.payout = payoutCall[c].payout
              /\ x.user = payoutCall[c].user
              /\ x.seen = payoutCall[c].seen
        BY <1>1, <1>2, <1>4, GotoCall
    <2>2. payoutCall'[c] = x
        BY <1>1, <2>1 DEF PayoutTypeOK
    <2>3. x.user \in Officer /\ x.seen \subseteq Approvers(x.payout)
        BY <1>1, <2>1 DEF PayoutInv, HandlersOK, HandlerOK
    <2>4. Approvers(x.payout)' = Approvers(x.payout)
        BY <1>1 DEF Approvers
    <2>5. HandlerOK(c)'
        BY <2>1, <2>2, <2>3, <2>4 DEF HandlerOK, PayoutAt
    <2>6. QED
        BY <1>1, <1>2, <2>1, <2>5, IdleStep DEF Calls
<1>5. QED
    BY <1>3, <1>4 DEF CheckBalance

\* The status updates at the end of the three handlers.
LEMMA SettleInv ==
    ASSUME PayoutInv, NEW c \in PayoutCaller,
           SettlePayout(c) \/ RejectPayout(c) \/ CancelPayout(c)
    PROVE  PayoutInv'
<1>1. /\ PayoutAt(c, "settle") \/ PayoutAt(c, "reject") \/ PayoutAt(c, "cancel")
      /\ PayoutReturn(c)
      /\ UNCHANGED <<vote, minApprovals, ledger, tx>>
      /\ PayoutTypeOK /\ HandlerOK(c)
    BY DEF PayoutInv, HandlersOK, SettlePayout, RejectPayout, CancelPayout
<1>2. payoutCall[c].payout \in Payout /\ payout[payoutCall[c].payout] # None
    BY <1>1, CallKind DEF PayoutExists
<1>3. PICK p \in Payout : p = payoutCall[c].payout
    BY <1>2
<1>4. PICK status \in Status :
          /\ SetPayoutStatus(p, status)
          /\ status = "APPROVED" => PayoutAt(c, "settle")
    BY <1>3 DEF SettlePayout, RejectPayout, CancelPayout, Status
<1>5. status = "APPROVED" => Debited(p)
    BY <1>1, <1>3, <1>4 DEF HandlerOK
<1>6. /\ payout' \in [Payout -> PayoutRow \cup {None}]
      /\ \A q \in Payout : payout[q] # None => payout'[q] # None
      /\ NoFalseApproval
    BY <1>1, <1>2, <1>3, <1>4, <1>5, StatusStep
<1>7. ~ PayoutAt(c, "ledger")
    BY <1>1 DEF PayoutAt
<1>8. vote' \in [Payout -> [Officer -> Votes]] /\ VotesGrow
    BY <1>1 DEF PayoutTypeOK, Votes, VotesGrow, Approvers
<1>9. QED
    BY <1>1, <1>6, <1>7, <1>8, ReturnCall, QuietStep

LEMMA InsertRejectionInv ==
    ASSUME PayoutInv, NEW c \in PayoutCaller, InsertRejection(c)
    PROVE  PayoutInv'
<1>1. /\ PayoutTypeOK /\ PayoutAt(c, "veto") /\ ~ PayoutAt(c, "ledger")
      /\ UNCHANGED <<payout, minApprovals, ledger, tx>>
    BY DEF PayoutInv, InsertRejection, PayoutAt
<1>2. /\ payoutCall[c] \in DecisionCall
      /\ payoutCall[c].payout \in Payout
      /\ payout[payoutCall[c].payout] # None
      /\ payoutCall[c].user \in Officer
    BY <1>1, CallKind DEF PayoutExists, PayoutInv, HandlersOK, HandlerOK
<1>3. /\ payout' \in [Payout -> PayoutRow \cup {None}]
      /\ \A q \in Payout : payout[q] # None => payout'[q] # None
      /\ NoFalseApproval
    BY <1>1 DEF PayoutTypeOK, NoFalseApproval
<1>4. CASE vote' = vote /\ PayoutReturn(c)
    BY <1>1, <1>4, ReturnCall, IdleStep
<1>5. CASE MayVote(c) /\ Vote(c, "REJECTED") /\ PayoutGoto(c, "reject")
    <2>1. PICK p \in Payout, u \in Officer :
              p = payoutCall[c].payout /\ u = payoutCall[c].user
        BY <1>2
    <2>2. vote' \in [Payout -> [Officer -> Votes]] /\ VotesGrow
        BY <1>1, <1>5, <2>1, VoteCast
    <2>3. PICK x \in DecisionCall :
              /\ payoutCall' = [payoutCall EXCEPT ![c] = x]
              /\ x.pc = "reject"
              /\ x.payout = payoutCall[c].payout
        BY <1>1, <1>2, <1>5, GotoCall
    <2>4. payoutCall'[c] = x
        BY <1>1, <2>3 DEF PayoutTypeOK
    <2>5. HandlerOK(c)'
        BY <2>3, <2>4 DEF HandlerOK, PayoutAt
    <2>6. QED
        BY <1>1, <1>2, <1>3, <2>2, <2>3, <2>5, QuietStep DEF Calls
<1>6. QED
    BY <1>4, <1>5 DEF InsertRejection

\* The vote that reaches the quorum.  Its officer has signed nothing yet, and
\* if nobody else has, the votes the handler read stand behind its debit.
LEMMA ReserveClaims ==
    ASSUME PayoutInv, NEW c \in PayoutCaller, NEW x \in DecisionCall,
           NEW p \in Payout, NEW u \in Officer,
           PayoutAt(c, "vote"),
           payoutCall' = [payoutCall EXCEPT ![c] = x],
           x.pc = "debit", x.payout = p, x.user = u,
           x.seen \subseteq Approvers(p),
           Cardinality(x.seen) + 1 >= x.required,
           u \notin Approvers(p), u \in Approvers(p)',
           VotesGrow, ledger' = ledger
    PROVE  SignedOnce' /\ Backed'
<1>1. ASSUME NEW q \in Payout
      PROVE  /\ Debits(q)' = Debits(q)
             /\ Approvers(q) \subseteq Approvers(q)'
    BY DEF Debits, VotesGrow
<1>2. payoutCall'[c] = x /\ \A d \in PayoutCaller \ {c} : payoutCall'[d] = payoutCall[d]
    BY DEF PayoutInv, PayoutTypeOK
<1>3. x # None
    BY PayoutAssumption
<1>4. ASSUME NEW q \in Payout, q # p
      PROVE  /\ Paying(q)' = Paying(q)
             /\ \A d \in Paying(q) : payoutCall'[d] = payoutCall[d]
    <2>1. c \notin Paying(q) /\ c \notin Paying(q)'
        BY <1>2, <1>4 DEF Paying, PayoutAt
    <2>2. QED
        BY <1>2, <2>1 DEF Paying, PayoutAt
<1>5. /\ c \notin Paying(p)
      /\ Paying(p)' = Paying(p) \cup {c}
      /\ \A d \in Paying(p) : payoutCall'[d] = payoutCall[d]
    <2>1. c \notin Paying(p)
        BY DEF Paying, PayoutAt
    <2>2. c \in Paying(p)'
        BY <1>2, <1>3 DEF Paying, PayoutAt
    <2>3. QED
        BY <1>2, <2>1, <2>2 DEF Paying, PayoutAt
<1>6. \A d \in Paying(p) : payoutCall[d].user \in Approvers(p)
    BY DEF Paying, PayoutInv, HandlersOK, HandlerOK
<1>7. \A i \in Debits(p) : ledger[i].by \in Approvers(p)
    BY DEF PayoutInv, SignedOnce
<1>8. SignedOnce'
    <2>1. SUFFICES ASSUME NEW q \in Payout
                   PROVE  /\ \A d, e \in Paying(q)' :
                                payoutCall'[d].user = payoutCall'[e].user => d = e
                          /\ \A d \in Paying(q)', i \in Debits(q)' :
                                payoutCall'[d].user # ledger'[i].by
                          /\ \A i, j \in Debits(q)' :
                                ledger'[i].by = ledger'[j].by => i = j
                          /\ \A i \in Debits(q)' : ledger'[i].by \in Approvers(q)'
        BY DEF SignedOnce
    <2>2. /\ \A d, e \in Paying(q) :
                payoutCall[d].user = payoutCall[e].user => d = e
          /\ \A d \in Paying(q), i \in Debits(q) :
                payoutCall[d].user # ledger[i].by
          /\ \A i, j \in Debits(q) : ledger[i].by = ledger[j].by => i = j
          /\ \A i \in Debits(q) : ledger[i].by \in Approvers(q)
        BY DEF PayoutInv, SignedOnce
    <2>3. CASE q # p
        BY <1>1, <1>4, <2>2, <2>3
    <2>4. CASE q = p
        BY <1>1, <1>2, <1>5, <1>6, <1>7, <2>2, <2>4
    <2>5. QED
        BY <2>3, <2>4
<1>9. ASSUME NEW q \in Payout, Paying(q)' # {} \/ Debited(q)'
      PROVE  \E n \in MinApprovals : \E rest \in SUBSET Officer :
                Backing(q, n, rest)'
    <2>1. CASE Paying(q) # {} \/ Debited(q)
        <3>1. PICK n \in MinApprovals, rest \in SUBSET Officer :
                  Backing(q, n, rest)
            BY <2>1 DEF PayoutInv, Backed
        <3>2. CASE q # p
            <4>1. Backing(q, n, rest)'
                BY <1>1, <1>4, <3>1, <3>2 DEF Backing
            <4>2. QED
                BY <4>1
        <3>3. CASE q = p
            <4>1. Backing(q, n, rest)'
                BY <1>1, <1>2, <1>5, <3>1, <3>3 DEF Backing
            <4>2. QED
                BY <4>1
        <3>4. QED
            BY <3>2, <3>3
    <2>2. CASE Paying(q) = {} /\ Debits(q) = {}
        <3>1. q = p
            BY <1>1, <1>4, <1>9, <2>2 DEF Debited
        <3>2. x.required \in MinApprovals /\ x.seen \in SUBSET Officer
            BY DEF DecisionCall
        <3>3. Cardinality(x.seen) >= x.required - 1
            <4>1. x.required \in Int
                <5>1. \A n \in MinApprovals : n \in 1..10
                    BY PayoutAssumption
                <5>2. QED
                    BY <3>2, <5>1
            <4>2. Cardinality(x.seen) \in Nat
                BY <3>2, GroupAssumption, FS_Subset, FS_CardinalityType
            <4>3. QED
                BY <4>1, <4>2
        <3>4. u \notin x.seen
            OBVIOUS
        <3>5. Backing(p, x.required, x.seen)'
            BY <1>1, <1>2, <1>5, <2>2, <3>1, <3>3, <3>4 DEF Backing
        <3>6. QED
            BY <3>1, <3>2, <3>5
    <2>3. QED
        BY <2>1, <2>2 DEF Debited
<1>10. QED
    BY <1>8, <1>9 DEF Backed

LEMMA InsertApprovalInv ==
    ASSUME PayoutInv, NEW c \in PayoutCaller, InsertApproval(c)
    PROVE  PayoutInv'
<1>1. /\ PayoutTypeOK /\ PayoutAt(c, "vote") /\ ~ PayoutAt(c, "ledger")
      /\ UNCHANGED <<payout, minApprovals, ledger, tx>>
    BY DEF PayoutInv, InsertApproval, PayoutAt
<1>2. /\ payoutCall[c] \in DecisionCall
      /\ payoutCall[c].payout \in Payout
      /\ payout[payoutCall[c].payout] # None
      /\ payoutCall[c].user \in Officer
      /\ payoutCall[c].seen \subseteq Approvers(payoutCall[c].payout)
    BY <1>1, CallKind DEF PayoutExists, PayoutInv, HandlersOK, HandlerOK
<1>3. /\ payout' \in [Payout -> PayoutRow \cup {None}]
      /\ \A q \in Payout : payout[q] # None => payout'[q] # None
      /\ NoFalseApproval
    BY <1>1 DEF PayoutTypeOK, NoFalseApproval
<1>4. CASE vote' = vote /\ PayoutReturn(c)
    BY <1>1, <1>4, ReturnCall, IdleStep
<1>5. ASSUME MayVote(c), Vote(c, "APPROVED"),
             IF Quorum(payoutCall[c]) THEN PayoutGoto(c, "debit")
                                      ELSE PayoutReturn(c)
      PROVE  PayoutInv'
    <2>1. PICK p \in Payout, u \in Officer :
              payoutCall[c].payout = p /\ payoutCall[c].user = u
        BY <1>2
    <2>2. /\ vote' \in [Payout -> [Officer -> Votes]]
          /\ VotesGrow
          /\ u \notin Approvers(p)
          /\ u \in Approvers(p)'
        BY <1>1, <1>5, <2>1, VoteCast
    <2>3. CASE PayoutReturn(c)
        BY <1>1, <1>3, <2>2, <2>3, ReturnCall, QuietStep
    <2>4. CASE Quorum(payoutCall[c]) /\ PayoutGoto(c, "debit")
        <3>1. PICK x \in DecisionCall :
                  /\ payoutCall' = [payoutCall EXCEPT ![c] = x]
                  /\ x.pc = "debit"
                  /\ x.payout = payoutCall[c].payout
                  /\ x.user = payoutCall[c].user
                  /\ x.seen = payoutCall[c].seen
                  /\ x.required = payoutCall[c].required
            BY <1>1, <1>2, <2>4, GotoCall
        <3>2. payoutCall'[c] = x
            BY <1>1, <3>1 DEF PayoutTypeOK
        <3>3. LedgerInv' /\ OthersCredit' /\ DebitsKept
            BY <1>1, LedgerStands DEF PayoutInv
        <3>4. HandlerOK(c)'
            BY <2>1, <2>2, <3>1, <3>2 DEF HandlerOK, PayoutAt
        <3>5. HandlersOK'
            <4>1. \A q \in Payout : Debits(q) \subseteq Debits(q)'
                BY <3>3 DEF DebitsKept
            <4>2. QED
                BY <1>1, <2>2, <3>1, <3>4, <4>1, HandlersStep
                   DEF PayoutInv, Calls
        <3>6. PayoutTypeOK'
            <4>1. tx'[c] = None
                BY <1>1 DEF PayoutTypeOK
            <4>2. QED
                BY <1>1, <1>2, <1>3, <2>2, <3>1, <4>1, TypeStep DEF Calls
        <3>7. SignedOnce' /\ Backed'
            <4>1. Cardinality(x.seen) + 1 >= x.required
                BY <2>4, <3>1 DEF Quorum
            <4>2. QED
                BY <1>1, <1>2, <2>1, <2>2, <3>1, <4>1, ReserveClaims
        <3>8. ApprovedIsDebited'
            BY <1>1, <3>3 DEF PayoutInv, ApprovedIsDebited, PayoutExists,
                              Debited, DebitsKept
        <3>9. QED
            BY <3>3, <3>5, <3>6, <3>7, <3>8 DEF PayoutInv
    <2>5. QED
        BY <1>5, <2>3, <2>4
<1>6. QED
    BY <1>4, <1>5 DEF InsertApproval

\* A step of one handler that opens or closes its transaction and leaves the
\* rows, the votes and the ledger alone.
LEMMA TxStep ==
    ASSUME PayoutInv, NEW c \in PayoutCaller, NEW x \in Calls,
           payoutCall' = [payoutCall EXCEPT ![c] = x],
           UNCHANGED <<payout, vote, minApprovals, ledger>>,
           \A d \in Caller \ {c} : tx'[d] = tx[d],
           tx'[c] # None <=> x # None /\ x.pc = "ledger",
           x \in DecisionCall => payout[x.payout] # None,
           x # None /\ x.pc \in {"debit", "ledger"} =>
               /\ PayoutAt(c, "debit") \/ PayoutAt(c, "ledger")
               /\ x.payout = payoutCall[c].payout
               /\ x.user = payoutCall[c].user,
           LedgerInv', HandlerOK(c)'
    PROVE  PayoutInv'
<1>1. /\ PayoutTypeOK
      /\ payout' \in [Payout -> PayoutRow \cup {None}]
      /\ vote' \in [Payout -> [Officer -> Votes]]
      /\ \A d \in PayoutCaller \ {c} : tx'[d] = tx[d]
    BY PayoutAssumption DEF PayoutInv, PayoutTypeOK, Votes
<1>2. VotesGrow /\ DebitsKept
    BY DEF VotesGrow, Approvers, DebitsKept, Debits
<1>3. PayoutTypeOK'
    BY <1>1, TypeStep
<1>4. HandlersOK'
    BY <1>1, <1>2, HandlersStep DEF PayoutInv, DebitsKept
<1>5. NoneStartsPaying
    BY <1>1, PayingStep
<1>6. SignedOnce' /\ Backed'
    BY <1>2, <1>5, ClaimsStep DEF PayoutInv
<1>7. OthersCredit'
    BY DEF PayoutInv, OthersCredit
<1>8. ApprovedIsDebited'
    BY <1>2 DEF PayoutInv, ApprovedIsDebited, PayoutExists, Debited, DebitsKept
<1>9. QED
    BY <1>3, <1>4, <1>6, <1>7, <1>8 DEF PayoutInv

LEMMA StartDebitInv ==
    ASSUME PayoutInv, NEW c \in PayoutCaller, StartDebit(c)
    PROVE  PayoutInv'
<1>1. /\ PayoutTypeOK /\ LedgerInv /\ PayoutAt(c, "debit")
      /\ PayoutGoto(c, "ledger")
      /\ UNCHANGED <<payout, vote, minApprovals>>
    BY DEF PayoutInv, StartDebit
<1>2. /\ payoutCall[c] \in DecisionCall
      /\ payoutCall[c].payout \in Payout
      /\ payoutCall[c].user \in User
      /\ payoutCall[c].user \in Approvers(payoutCall[c].payout)
      /\ payout[payoutCall[c].payout] # None
      /\ payout[payoutCall[c].payout] \in PayoutRow
    BY <1>1, CallKind DEF PayoutExists, PayoutInv, HandlersOK, HandlerOK
<1>3. PICK p \in Payout, u \in User, a \in Amount :
          /\ p = payoutCall[c].payout
          /\ u = payoutCall[c].user
          /\ a = payout[p].amount
    BY <1>2 DEF PayoutRow
<1>4. BeginEntry(c, "PAYOUT_DEBIT", a, p, u)
    BY <1>3 DEF StartDebit, DebitPayout
<1>5. /\ a \in Int /\ p \in Ref \cup {None} /\ c \in Caller
      /\ "PAYOUT_DEBIT" \in EntryType /\ "PAYOUT_DEBIT" \notin CreditTypes
    BY LedgerAssumption, PayoutAssumption DEF EntryType, DebitTypes, CreditTypes
<1>6. LedgerInv'
    BY <1>1, <1>4, <1>5, BeginKeepsInv
<1>7. /\ ledger' = ledger
      /\ tx'[c].type = "PAYOUT_DEBIT"
      /\ tx'[c].ref = p
      /\ tx'[c].by = u
      /\ \A d \in Caller \ {c} : tx'[d] = tx[d]
    BY <1>1, <1>4, <1>5 DEF BeginEntry, LedgerInv, LedgerTypeOK
<1>8. tx'[c] # None
    <2>1. /\ tx'[c] = [type |-> "PAYOUT_DEBIT", amount |-> a, ref |-> p,
                       by |-> u, snap |-> Len(ledger)]
          /\ Len(ledger) \in Nat
        BY <1>1, <1>4, <1>5 DEF BeginEntry, LedgerInv, LedgerTypeOK
    <2>2. tx'[c] \in Txn
        BY <1>5, <2>1 DEF Txn
    <2>3. QED
        BY <2>2, LedgerAssumption
<1>9. PICK x \in DecisionCall :
          /\ payoutCall' = [payoutCall EXCEPT ![c] = x]
          /\ x.pc = "ledger"
          /\ x.payout = payoutCall[c].payout
          /\ x.user = payoutCall[c].user
    BY <1>1, <1>2, GotoCall
<1>10. payoutCall'[c] = x
    BY <1>1, <1>9 DEF PayoutTypeOK
<1>11. u \in Approvers(p)'
    BY <1>1, <1>2, <1>3 DEF Approvers
<1>12. HandlerOK(c)'
    BY <1>3, <1>7, <1>9, <1>10, <1>11 DEF HandlerOK, PayoutAt
<1>13. x \in Calls /\ x # None /\ payout[x.payout] # None
    BY <1>2, <1>9, PayoutAssumption DEF Calls
<1>14. QED
    BY <1>1, <1>6, <1>7, <1>8, <1>9, <1>12, <1>13, TxStep

\* debitPayout throws, or the handler dies wherever it is.
LEMMA AbortInv ==
    ASSUME PayoutInv, NEW c \in PayoutCaller,
           FailDebit(c) \/ CrashPayoutCall(c)
    PROVE  PayoutInv'
<1>1. /\ PayoutReturn(c)
      /\ tx' = [tx EXCEPT ![c] = None]
      /\ UNCHANGED <<payout, vote, minApprovals, ledger>>
    BY DEF FailDebit, CrashPayoutCall, AbortEntry
<1>2. c \in Caller /\ PayoutTypeOK /\ LedgerInv
    BY PayoutAssumption DEF PayoutInv
<1>3. LedgerInv'
    BY <1>1, <1>2, AbortKeepsInv
<1>4. tx'[c] = None /\ \A d \in Caller \ {c} : tx'[d] = tx[d]
    BY <1>1, <1>2 DEF LedgerInv, LedgerTypeOK
<1>5. QED
    BY <1>1, <1>2, <1>3, <1>4, ReturnCall, TxStep

\* What a commit does to the rows: they stay, and one is added.
LEMMA CommitRows ==
    ASSUME LedgerInv, NEW c \in Caller, CommitEntry(c)
    PROVE  LET i == Len(ledger) + 1 IN
           /\ i \notin DOMAIN ledger
           /\ DOMAIN ledger' = DOMAIN ledger \cup {i}
           /\ ledger'[i].type = tx[c].type
           /\ ledger'[i].ref = tx[c].ref
           /\ ledger'[i].by = tx[c].by
           /\ \A j \in DOMAIN ledger : ledger'[j] = ledger[j]
           /\ tx'[c] = None
           /\ \A d \in Caller \ {c} : tx'[d] = tx[d]
<1> DEFINE e == [type |-> tx[c].type, amount |-> tx[c].amount,
                 balanceAfter |-> NewBalance(tx[c]),
                 ref |-> tx[c].ref, by |-> tx[c].by]
<1>1. tx[c] \in Txn /\ NewBalance(tx[c]) \in Int
    BY CommitEffect
<1>2. e \in Entry
    BY <1>1 DEF Txn, Entry
<1>3. /\ e.type = tx[c].type /\ e.ref = tx[c].ref /\ e.by = tx[c].by
    OBVIOUS
<1>4. ledger' = Append(ledger, e)
    BY DEF CommitEntry
<1>5. ledger \in Seq(Entry)
    BY DEF LedgerInv, LedgerTypeOK
<1> HIDE DEF e
<1>6. /\ Len(ledger) \in Nat /\ DOMAIN ledger = 1..Len(ledger)
      /\ DOMAIN ledger' = 1..(Len(ledger) + 1)
      /\ ledger'[Len(ledger) + 1] = e
      /\ \A j \in 1..Len(ledger) : ledger'[j] = ledger[j]
    BY <1>2, <1>4, <1>5, BalanceAfterAppend
<1>7. tx'[c] = None /\ \A d \in Caller \ {c} : tx'[d] = tx[d]
    BY DEF CommitEntry, LedgerInv, LedgerTypeOK
<1>8. /\ Len(ledger) + 1 \notin DOMAIN ledger
      /\ DOMAIN ledger' = DOMAIN ledger \cup {Len(ledger) + 1}
    BY <1>6
<1>9. QED
    BY <1>3, <1>6, <1>7, <1>8

LEMMA FinishDebitInv ==
    ASSUME PayoutInv, NEW c \in PayoutCaller, FinishDebit(c)
    PROVE  PayoutInv'
<1>1. /\ PayoutTypeOK /\ LedgerInv /\ PayoutAt(c, "ledger")
      /\ CommitEntry(c) /\ PayoutGoto(c, "settle") /\ c \in Caller
      /\ UNCHANGED <<payout, vote, minApprovals>>
    BY PayoutAssumption DEF PayoutInv, FinishDebit
<1>2. /\ payoutCall[c] \in DecisionCall
      /\ payoutCall[c].payout \in Payout
      /\ payout[payoutCall[c].payout] # None
      /\ payoutCall[c].user \in Approvers(payoutCall[c].payout)
      /\ tx[c].type = "PAYOUT_DEBIT"
      /\ tx[c].ref = payoutCall[c].payout
      /\ tx[c].by = payoutCall[c].user
    BY <1>1, CallKind DEF PayoutExists, PayoutInv, HandlersOK, HandlerOK
<1>3. PICK p \in Payout, u \in Officer :
          payoutCall[c].payout = p /\ payoutCall[c].user = u
    BY <1>2 DEF Approvers
<1>4. PICK i : i = Len(ledger) + 1
    OBVIOUS
<1>5. /\ i \notin DOMAIN ledger
      /\ DOMAIN ledger' = DOMAIN ledger \cup {i}
      /\ ledger'[i].type = "PAYOUT_DEBIT"
      /\ ledger'[i].ref = p
      /\ ledger'[i].by = u
      /\ \A j \in DOMAIN ledger : ledger'[j] = ledger[j]
      /\ tx'[c] = None
      /\ \A d \in Caller \ {c} : tx'[d] = tx[d]
    BY <1>1, <1>2, <1>3, <1>4, CommitRows
<1>6. PICK x \in DecisionCall :
          /\ payoutCall' = [payoutCall EXCEPT ![c] = x]
          /\ x.pc = "settle"
          /\ x.payout = payoutCall[c].payout
    BY <1>1, <1>2, GotoCall
<1>7. payoutCall'[c] = x /\ \A d \in PayoutCaller \ {c} : payoutCall'[d] = payoutCall[d]
    BY <1>1, <1>6 DEF PayoutTypeOK
<1>8. /\ i \notin Debits(p)
      /\ Debits(p)' = Debits(p) \cup {i}
      /\ \A q \in Payout \ {p} : Debits(q)' = Debits(q)
      /\ \A q \in Payout : \A j \in Debits(q) : ledger'[j] = ledger[j]
    BY <1>5 DEF Debits
<1>9. /\ c \in Paying(p)
      /\ \A q \in Payout : c \notin Paying(q)'
      /\ \A q \in Payout : \A d \in Paying(q)' :
            d # c /\ d \in Paying(q) /\ payoutCall'[d] = payoutCall[d]
    BY <1>1, <1>3, <1>6, <1>7 DEF Paying, PayoutAt
<1>10. VotesGrow /\ \A q \in Payout : Approvers(q)' = Approvers(q)
    BY <1>1 DEF VotesGrow, Approvers
<1>11. LedgerInv'
    BY <1>1, CommitKeepsInv
<1>12. PayoutTypeOK'
    <2>1. /\ payout' \in [Payout -> PayoutRow \cup {None}]
          /\ vote' \in [Payout -> [Officer -> Votes]]
        BY <1>1 DEF PayoutTypeOK, Votes
    <2>2. \A d \in PayoutCaller \ {c} : tx'[d] = tx[d]
        BY <1>5, PayoutAssumption
    <2>3. QED
        BY <1>1, <1>2, <1>5, <1>6, <2>1, <2>2, TypeStep DEF Calls
<1>13. \A q \in Payout : Debits(q) \subseteq Debits(q)'
    BY <1>8
<1>14. HandlersOK'
    <2>1. Debited(p)'
        BY <1>8 DEF Debited
    <2>2. HandlerOK(c)'
        BY <1>3, <1>6, <1>7, <2>1 DEF HandlerOK, PayoutAt
    <2>3. \A d \in PayoutCaller \ {c} : tx'[d] = tx[d]
        BY <1>5, PayoutAssumption
    <2>4. QED
        BY <1>1, <1>6, <1>10, <1>13, <2>2, <2>3, HandlersStep
           DEF PayoutInv, Calls
<1>15. OthersCredit'
    BY <1>5 DEF PayoutInv, OthersCredit
<1>16. SignedOnce'
    <2>1. SUFFICES ASSUME NEW q \in Payout
                   PROVE  /\ \A d, e \in Paying(q)' :
                                payoutCall'[d].user = payoutCall'[e].user => d = e
                          /\ \A d \in Paying(q)', j \in Debits(q)' :
                                payoutCall'[d].user # ledger'[j].by
                          /\ \A j, k \in Debits(q)' :
                                ledger'[j].by = ledger'[k].by => j = k
                          /\ \A j \in Debits(q)' : ledger'[j].by \in Approvers(q)'
        BY DEF SignedOnce
    <2>2. /\ \A d, e \in Paying(q) :
                payoutCall[d].user = payoutCall[e].user => d = e
          /\ \A d \in Paying(q), j \in Debits(q) :
                payoutCall[d].user # ledger[j].by
          /\ \A j, k \in Debits(q) : ledger[j].by = ledger[k].by => j = k
          /\ \A j \in Debits(q) : ledger[j].by \in Approvers(q)
        BY DEF PayoutInv, SignedOnce
    <2>3. CASE q # p
        BY <1>8, <1>9, <1>10, <2>2, <2>3
    <2>4. CASE q = p
        BY <1>2, <1>3, <1>5, <1>8, <1>9, <1>10, <2>2, <2>4
    <2>5. QED
        BY <2>3, <2>4
<1>17. ASSUME NEW q \in Payout, Paying(q)' # {} \/ Debited(q)'
       PROVE  \E n \in MinApprovals : \E rest \in SUBSET Officer :
                 Backing(q, n, rest)'
    <2>1. Paying(q) # {} \/ Debited(q)
        BY <1>8, <1>9, <1>17 DEF Debited
    <2>2. PICK n \in MinApprovals, rest \in SUBSET Officer : Backing(q, n, rest)
        BY <2>1 DEF PayoutInv, Backed
    <2>3. q = p => u \notin rest
        BY <1>3, <1>9, <2>2 DEF Backing
    <2>4. Backing(q, n, rest)'
        BY <1>5, <1>8, <1>9, <1>10, <2>2, <2>3 DEF Backing
    <2>5. QED
        BY <2>4
<1>18. Backed'
    BY <1>17 DEF Backed
<1>19. ApprovedIsDebited'
    BY <1>1, <1>13 DEF PayoutInv, ApprovedIsDebited, PayoutExists, Debited
<1>20. QED
    BY <1>11, <1>12, <1>14, <1>15, <1>16, <1>18, <1>19 DEF PayoutInv

LEMMA UpdateRulesInv ==
    ASSUME PayoutInv, NEW n \in MinApprovals, UpdateRules(n)
    PROVE  PayoutInv'
<1>1. UNCHANGED <<payout, vote, payoutCall, ledger, tx>> /\ minApprovals' = n
    BY DEF UpdateRules
<1>2. LedgerInv' /\ OthersCredit' /\ DebitsKept
    BY <1>1, LedgerStands DEF PayoutInv
<1>3. PayoutTypeOK'
    BY <1>1 DEF PayoutInv, PayoutTypeOK, PayoutExists, PayoutAt
<1>4. HandlersOK'
    BY <1>1 DEF PayoutInv, HandlersOK, HandlerOK, PayoutAt, Approvers, Debited,
                Debits
<1>5. VotesGrow /\ NoneStartsPaying
    BY <1>1 DEF VotesGrow, Approvers, NoneStartsPaying, Paying, PayoutAt
<1>6. SignedOnce' /\ Backed'
    BY <1>2, <1>5, ClaimsStep DEF PayoutInv
<1>7. ApprovedIsDebited'
    BY <1>1 DEF PayoutInv, ApprovedIsDebited, PayoutExists, Debited, Debits
<1>8. QED
    BY <1>2, <1>3, <1>4, <1>6, <1>7 DEF PayoutInv

\* Whatever the other service does to the ledger, it makes no debit of a
\* payout.
LEMMA OutsideStep ==
    ASSUME PayoutInv, UNCHANGED <<payout, vote, minApprovals, payoutCall>>,
           \A d \in PayoutCaller : tx'[d] = tx[d],
           LedgerInv', OthersCredit', DebitsKept
    PROVE  PayoutInv'
<1>1. PayoutTypeOK'
    BY DEF PayoutInv, PayoutTypeOK, PayoutExists, PayoutAt
<1>2. \A p \in Payout : Approvers(p)' = Approvers(p)
    BY DEF Approvers
<1>3. VotesGrow /\ NoneStartsPaying
    BY <1>2 DEF VotesGrow, NoneStartsPaying, Paying, PayoutAt
<1>4. SignedOnce' /\ Backed'
    BY <1>3, ClaimsStep DEF PayoutInv
<1>5. \A p \in Payout : Debited(p)' <=> Debited(p)
    BY DEF DebitsKept, Debited
<1>6. HandlersOK'
    <2>1. SUFFICES ASSUME NEW c \in PayoutCaller PROVE HandlerOK(c)'
        BY DEF HandlersOK
    <2>2. HandlerOK(c) /\ tx'[c] = tx[c]
        BY DEF PayoutInv, HandlersOK
    <2>3. ASSUME NEW pc, pc # "insert", PayoutAt(c, pc)
          PROVE  payoutCall[c].payout \in Payout
        BY <2>3, CallKind DEF PayoutInv
    <2>4. PICK call : call = payoutCall[c]
        OBVIOUS
    <2>5. PayoutAt(c, "balance") \/ PayoutAt(c, "vote") =>
              call.user \in Officer /\ call.seen \subseteq Approvers(call.payout)'
        BY <1>2, <2>2, <2>3, <2>4 DEF HandlerOK
    <2>6. PayoutAt(c, "debit") \/ PayoutAt(c, "ledger") =>
              call.user \in Approvers(call.payout)'
        BY <1>2, <2>2, <2>3, <2>4 DEF HandlerOK
    <2>7. PayoutAt(c, "settle") => Debited(call.payout)'
        BY <1>5, <2>2, <2>3, <2>4 DEF HandlerOK
    <2>8. payoutCall'[c] = call
        BY <2>4
    <2>9. QED
        BY <2>2, <2>4, <2>5, <2>6, <2>7, <2>8 DEF HandlerOK, PayoutAt
<1>7. ApprovedIsDebited'
    BY <1>5 DEF PayoutInv, ApprovedIsDebited, PayoutExists
<1>8. QED
    BY <1>1, <1>4, <1>6, <1>7 DEF PayoutInv

LEMMA DepositInv ==
    ASSUME PayoutInv, NEW c \in Caller \ PayoutCaller, Deposit(c)
    PROVE  PayoutInv'
<1>1. /\ UNCHANGED <<payout, vote, minApprovals, payoutCall>>
      /\ LedgerInv /\ OthersCredit /\ c \in Caller
    BY DEF PayoutInv, Deposit
<1>2. \A d \in PayoutCaller : d # c /\ d \in Caller
    BY PayoutAssumption
<1>3. ASSUME NEW a \in Amount, NEW r \in Ref \ Payout, NEW u \in Chair,
             CreditContribution(c, r, a, u)
      PROVE  PayoutInv'
    <2>1. BeginEntry(c, "CONTRIBUTION_CREDIT", a, r, u)
        BY <1>3 DEF CreditContribution
    <2>2. /\ a \in Int /\ a >= 0 /\ u \in User /\ r \in Ref \cup {None}
          /\ "CONTRIBUTION_CREDIT" \in EntryType
        BY LedgerAssumption, GroupAssumption DEF EntryType, CreditTypes
    <2>3. LedgerInv'
        BY <1>1, <2>1, <2>2, BeginKeepsInv
    <2>4. /\ ledger' = ledger
          /\ tx'[c].type = "CONTRIBUTION_CREDIT"
          /\ \A d \in Caller \ {c} : tx'[d] = tx[d]
        BY <1>1, <2>1 DEF BeginEntry, LedgerInv, LedgerTypeOK
    <2>5. OthersCredit'
        BY <1>1, <2>4 DEF OthersCredit
    <2>6. DebitsKept
        BY <2>4 DEF DebitsKept, Debits
    <2>7. QED
        BY <1>1, <1>2, <2>3, <2>4, <2>5, <2>6, OutsideStep
<1>4. CASE CommitEntry(c)
    <2>1. LedgerInv'
        BY <1>1, <1>4, CommitKeepsInv
    <2>2. PICK i : i = Len(ledger) + 1
        OBVIOUS
    <2>3. /\ DOMAIN ledger' = DOMAIN ledger \cup {i}
          /\ i \notin DOMAIN ledger
          /\ ledger'[i].type = tx[c].type
          /\ \A j \in DOMAIN ledger : ledger'[j] = ledger[j]
          /\ tx'[c] = None
          /\ \A d \in Caller \ {c} : tx'[d] = tx[d]
        BY <1>1, <1>4, <2>2, CommitRows
    <2>4. tx[c].type = "CONTRIBUTION_CREDIT"
        BY <1>1, <1>4 DEF OthersCredit, CommitEntry
    <2>5. DebitsKept
        BY <2>3, <2>4 DEF DebitsKept, Debits
    <2>6. OthersCredit'
        BY <1>1, <2>3 DEF OthersCredit
    <2>7. QED
        BY <1>1, <1>2, <2>1, <2>3, <2>5, <2>6, OutsideStep
<1>5. CASE AbortEntry(c)
    <2>1. ledger' = ledger /\ tx' = [tx EXCEPT ![c] = None]
        BY <1>5 DEF AbortEntry
    <2>2. LedgerInv'
        BY <1>1, <2>1, AbortKeepsInv
    <2>3. tx'[c] = None /\ \A d \in Caller \ {c} : tx'[d] = tx[d]
        BY <1>1, <2>1 DEF LedgerInv, LedgerTypeOK
    <2>4. OthersCredit' /\ DebitsKept
        BY <1>1, <2>1, <2>3 DEF OthersCredit, DebitsKept, Debits
    <2>5. QED
        BY <1>1, <1>2, <2>2, <2>3, <2>4, OutsideStep
<1>6. QED
    BY <1>3, <1>4, <1>5 DEF Deposit

-----------------------------------------------------------------------------

\* A new group has no payouts, no votes and no handlers.
LEMMA PayoutInitInv == PayoutInit => PayoutInv
<1> SUFFICES ASSUME PayoutInit PROVE PayoutInv
    OBVIOUS
<1>1. PICK u \in Chair : ledger = <<OpeningEntry(u)>>
    BY DEF PayoutInit, GroupLedgerInit
<1>2. LedgerInv
    <2>1. LedgerInit
        BY <1>1, GroupAssumption DEF PayoutInit, GroupLedgerInit, LedgerInit
    <2>2. QED
        BY <2>1, LedgerInitInv
<1>3. /\ payout = [p \in Payout |-> None]
      /\ vote = [p \in Payout |-> [o \in Officer |-> "NONE"]]
      /\ minApprovals \in MinApprovals
      /\ payoutCall = [c \in PayoutCaller |-> None]
      /\ \A c \in Caller : tx[c] = None
    BY DEF PayoutInit, GroupLedgerInit
<1>4. /\ \A c \in PayoutCaller : payoutCall[c] = None /\ tx[c] = None
      /\ None \notin DecisionCall
    BY <1>3, PayoutAssumption
<1>5. PayoutTypeOK
    BY <1>3, <1>4 DEF PayoutTypeOK, PayoutAt
<1>6. HandlersOK /\ OthersCredit
    BY <1>3, <1>4 DEF HandlersOK, HandlerOK, OthersCredit, PayoutAt
<1>7. ASSUME NEW p \in Payout
      PROVE  Paying(p) = {} /\ Debits(p) = {} /\ payout[p] = None
    <2>1. DOMAIN ledger = {1} /\ ledger[1] = OpeningEntry(u)
        BY <1>1
    <2>2. Debits(p) = {}
        BY <2>1 DEF Debits, OpeningEntry
    <2>3. Paying(p) = {} /\ payout[p] = None
        BY <1>3, <1>4 DEF Paying, PayoutAt
    <2>4. QED
        BY <2>2, <2>3
<1>8. SignedOnce /\ Backed /\ ApprovedIsDebited
    BY <1>7 DEF SignedOnce, Backed, ApprovedIsDebited, Debited, PayoutExists
<1>9. QED
    BY <1>2, <1>5, <1>6, <1>8 DEF PayoutInv

\* No step of any handler, and nothing from outside, breaks the invariant.
LEMMA PayoutStepInv == PayoutInv /\ [PayoutNext]_payoutVars => PayoutInv'
<1> SUFFICES ASSUME PayoutInv, [PayoutNext]_payoutVars PROVE PayoutInv'
    OBVIOUS
<1>1. ASSUME NEW c \in PayoutCaller, PayoutRequest(c)
      PROVE  PayoutInv'
    BY <1>1, CreatePayoutInv, ReadInv DEF PayoutRequest
<1>2. ASSUME NEW c \in PayoutCaller, PayoutStep(c)
      PROVE  PayoutInv'
    BY <1>2, InsertPayoutInv, CheckBalanceInv, InsertApprovalInv, StartDebitInv,
       FinishDebitInv, AbortInv, SettleInv, InsertRejectionInv DEF PayoutStep
<1>3. ASSUME NEW c \in PayoutCaller, CrashPayoutCall(c)
      PROVE  PayoutInv'
    BY <1>3, AbortInv
<1>4. ASSUME NEW n \in MinApprovals, UpdateRules(n)
      PROVE  PayoutInv'
    BY <1>4, UpdateRulesInv
<1>5. ASSUME NEW c \in Caller \ PayoutCaller, Deposit(c)
      PROVE  PayoutInv'
    BY <1>5, DepositInv
<1>6. CASE UNCHANGED payoutVars
    <2>1. UNCHANGED <<payout, vote, minApprovals, payoutCall, ledger, tx>>
        BY <1>6 DEF payoutVars
    <2>2. LedgerInv' /\ OthersCredit' /\ DebitsKept
        BY <2>1, LedgerStands DEF PayoutInv
    <2>3. QED
        BY <2>1, <2>2, OutsideStep
<1>7. QED
    BY <1>1, <1>2, <1>3, <1>4, <1>5, <1>6 DEF PayoutNext

\* Rows, votes and handlers keep their types, and a handler holds a ledger
\* transaction exactly while it waits for its debit.
THEOREM PayoutTypeCorrect == PayoutSpec => []PayoutTypeOK
<1>1. PayoutInv => PayoutTypeOK
    BY DEF PayoutInv
<1>2. QED
    BY PayoutInitInv, PayoutStepInv, <1>1, PTL DEF PayoutSpec

\* The pot of a group is never overdrawn by payouts, however many approvals
\* race for it and whichever of them fail.
THEOREM PayoutsNeverOverdraw == PayoutSpec => []NeverNegative
<1>1. PayoutInv => NeverNegative
    BY DEF PayoutInv, LedgerInv
<1>2. QED
    BY PayoutInitInv, PayoutStepInv, <1>1, PTL DEF PayoutSpec

\* A payout that approvePayout has marked APPROVED has been taken from the pot.
THEOREM ApprovedPayoutIsDebited == PayoutSpec => []ApprovedIsDebited
<1>1. PayoutInv => ApprovedIsDebited
    BY DEF PayoutInv
<1>2. QED
    BY PayoutInitInv, PayoutStepInv, <1>1, PTL DEF PayoutSpec

-----------------------------------------------------------------------------
(* From who signed what to how many. *)

\* The officers that signed the debits of p.
Signers(p) == {ledger[i].by : i \in Debits(p)}

\* No officer signs twice, so there are as many signers as debits.
LEMMA SignersCount ==
    ASSUME PayoutInv, NEW p \in Payout
    PROVE  /\ IsFiniteSet(Debits(p)) /\ IsFiniteSet(Signers(p))
           /\ Cardinality(Signers(p)) = Cardinality(Debits(p))
<1> DEFINE f == [i \in Debits(p) |-> ledger[i].by]
<1>1. IsFiniteSet(Debits(p))
    <2>1. Len(ledger) \in Nat /\ DOMAIN ledger = 1..Len(ledger)
        BY DEF PayoutInv, LedgerInv, LedgerTypeOK
    <2>2. IsFiniteSet(1..Len(ledger))
        BY <2>1, FS_Interval
    <2>3. Debits(p) \subseteq 1..Len(ledger)
        BY <2>1 DEF Debits
    <2>4. QED
        BY <2>2, <2>3, FS_Subset
<1>2. f \in Bijection(Debits(p), Signers(p))
    BY DEF Signers, Bijection, Injection, Surjection, IsInjective,
           PayoutInv, SignedOnce
<1>3. ExistsBijection(Debits(p), Signers(p))
    BY <1>2 DEF ExistsBijection
<1>4. QED
    BY <1>1, <1>3, FS_Bijection

\* The signers and those behind the first of them are different approvers.
LEMMA VotesBehindDebits ==
    ASSUME PayoutInv, NEW p \in Payout, Debited(p)
    PROVE  \E n \in MinApprovals :
              Cardinality(Debits(p)) + n - 1 <= Cardinality(Approvers(p))
<1>1. PICK n \in MinApprovals, rest \in SUBSET Officer : Backing(p, n, rest)
    BY DEF PayoutInv, Backed
<1>2. Signers(p) \subseteq Approvers(p) /\ rest \subseteq Approvers(p)
    BY <1>1 DEF Signers, Backing, PayoutInv, SignedOnce
<1>3. Signers(p) \cap rest = {}
    BY <1>1 DEF Signers, Backing
<1>4. IsFiniteSet(Approvers(p))
    BY GroupAssumption, FS_Subset DEF Approvers
<1>5. IsFiniteSet(rest) /\ IsFiniteSet(Signers(p))
    BY <1>2, <1>4, FS_Subset
<1>6. Cardinality(Signers(p) \cup rest) <= Cardinality(Approvers(p))
    BY <1>2, <1>4, FS_Subset
<1>7. Cardinality(Signers(p) \cup rest) = Cardinality(Signers(p)) + Cardinality(rest)
    <2>1. Cardinality(Signers(p) \cap rest) = 0
        BY <1>3, FS_EmptySet
    <2>2. Cardinality(Signers(p)) \in Nat /\ Cardinality(rest) \in Nat
        BY <1>5, FS_CardinalityType
    <2>3. Cardinality(Signers(p) \cup rest) =
              Cardinality(Signers(p)) + Cardinality(rest)
                - Cardinality(Signers(p) \cap rest)
        BY <1>5, FS_Union
    <2>4. QED
        BY <2>1, <2>2, <2>3
<1>8. Cardinality(Signers(p)) = Cardinality(Debits(p))
    BY SignersCount
<1>9. n \in Int /\ Cardinality(rest) >= n - 1
    <2>1. \A m \in MinApprovals : m \in 1..10
        BY PayoutAssumption
    <2>2. QED
        BY <1>1, <2>1 DEF Backing
<1>10. /\ Cardinality(Debits(p)) \in Nat /\ Cardinality(rest) \in Nat
       /\ Cardinality(Approvers(p)) \in Nat
    BY <1>4, <1>5, SignersCount, FS_CardinalityType
<1>11. Cardinality(Debits(p)) + n - 1 <= Cardinality(Approvers(p))
    BY <1>6, <1>7, <1>8, <1>9, <1>10
<1>12. QED
    BY <1>11

\* Each further debit of one payout takes a further approving officer: with k
\* approvers and n approvals required at most k - n + 1 debits are made, for
\* any number of racing and failing approvals.
THEOREM DebitsAreBacked == PayoutSpec => []DebitsBackedByVotes
<1>1. PayoutInv => DebitsBackedByVotes
    BY VotesBehindDebits DEF DebitsBackedByVotes
<1>2. QED
    BY PayoutInitInv, PayoutStepInv, <1>1, PTL DEF PayoutSpec

\* A debit leaves a quorum of approvers.
LEMMA QuorumFollows == PayoutInv => QuorumBehindDebit
<1>1. ASSUME PayoutInv, NEW p \in Payout, Debited(p)
      PROVE  \E n \in MinApprovals : Cardinality(Approvers(p)) >= n
    <2>1. PICK n \in MinApprovals :
              Cardinality(Debits(p)) + n - 1 <= Cardinality(Approvers(p))
        BY <1>1, VotesBehindDebits
    <2>2. IsFiniteSet(Debits(p)) /\ Debits(p) # {}
        BY <1>1, SignersCount DEF Debited
    <2>3. Cardinality(Debits(p)) \in Nat /\ Cardinality(Debits(p)) # 0
        BY <2>2, FS_CardinalityType, FS_EmptySet
    <2>4. Cardinality(Approvers(p)) \in Nat
        BY GroupAssumption, FS_Subset, FS_CardinalityType DEF Approvers
    <2>5. n \in Int
        <3>1. \A m \in MinApprovals : m \in 1..10
            BY PayoutAssumption
        <3>2. QED
            BY <3>1
    <2>6. QED
        BY <2>1, <2>3, <2>4, <2>5
<1>2. QED
    BY <1>1 DEF QuorumBehindDebit

\* No payout is debited without the recorded approvals of a quorum.
THEOREM DebitHasQuorum == PayoutSpec => []QuorumBehindDebit
BY PayoutInitInv, PayoutStepInv, QuorumFollows, PTL DEF PayoutSpec

=============================================================================
