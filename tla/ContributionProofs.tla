-------------------------- MODULE ContributionProofs --------------------------
(***************************************************************************)
(* The safety of the contributions service for any number of rows,         *)
(* members, requests in flight and outside callers, with either unique     *)
(* index and with failures at every step.                                  *)
(***************************************************************************)
EXTENDS Contributions, LedgerProofs, FiniteSetTheorems

ContributionCalls == SubmitCall \cup ReviewCall \cup {None}

-----------------------------------------------------------------------------
(* Rows and handlers. *)

\* A handler past create reviews a row that exists.
LEMMA ReviewKind ==
    ASSUME ContributionTypeOK, NEW c \in ContributionCaller, NEW pc,
           ContributionAt(c, pc), pc \notin {"pending", "insert"}
    PROVE  /\ contributionCall[c] \in ReviewCall
           /\ contributionCall[c].id \in Contribution
           /\ contributionCall[c].user \in User
           /\ contributionCall[c].pc = pc
           /\ ContributionExists(contributionCall[c].id)
           /\ contribution[contributionCall[c].id] \in ContributionRow
<1>1. contributionCall[c] \in SubmitCall \cup ReviewCall
    BY DEF ContributionTypeOK, ContributionAt
<1>2. contributionCall[c] \notin SubmitCall
    BY DEF ContributionAt, SubmitCall
<1>3. contributionCall[c] \in ReviewCall
    BY <1>1, <1>2
<1>4. ContributionExists(contributionCall[c].id)
    BY <1>3 DEF ContributionTypeOK
<1>5. /\ contributionCall[c].id \in Contribution
      /\ contributionCall[c].user \in User
    BY <1>3 DEF ReviewCall
<1>6. contribution[contributionCall[c].id] \in ContributionRow
    BY <1>4, <1>5 DEF ContributionTypeOK, ContributionExists
<1>7. QED
    BY <1>3, <1>4, <1>5, <1>6 DEF ContributionAt

\* A handler of create has checked and stored nothing yet.
LEMMA SubmitKind ==
    ASSUME ContributionTypeOK, NEW c \in ContributionCaller, NEW pc,
           ContributionAt(c, pc), pc \in {"pending", "insert"}
    PROVE  /\ contributionCall[c] \in SubmitCall
           /\ contributionCall[c].id \in Contribution
           /\ contributionCall[c].member \in User
           /\ contributionCall[c].period \in Period
           /\ contributionCall[c].amount \in Amount
           /\ contributionCall[c].key \in Key \cup {None}
<1>1. contributionCall[c] \in SubmitCall \cup ReviewCall
    BY DEF ContributionTypeOK, ContributionAt
<1>2. contributionCall[c] \notin ReviewCall
    BY DEF ContributionAt, ReviewCall
<1>3. QED
    BY <1>1, <1>2 DEF SubmitCall

\* Rows stay, decided rows stay decided, and a row appears only under the id
\* that handler c is about to insert.
RowsKept(c) ==
    \A i \in Contribution :
        /\ ContributionExists(i) => ContributionExists(i)'
        /\ Decided(i) => Decided(i)'
        /\ ContributionExists(i)' =>
              \/ ContributionExists(i)
              \/ contributionCall[c] # None /\ i = contributionCall[c].id

\* What a step of handler c, from contributionCall[c] to x, leaves true of all
\* handlers.
LEMMA ReviewersStep ==
    ASSUME ContributionInv, NEW c \in ContributionCaller,
           NEW x \in ContributionCalls,
           contributionCall' = [contributionCall EXCEPT ![c] = x],
           contribution' \in [Contribution -> ContributionRow \cup {None}],
           RowsKept(c),
           x \in ReviewCall => ContributionExists(x.id)',
           tx'[c] # None <=> x # None /\ x.pc = "ledger",
           \A d \in Caller \ {c} : tx'[d] = tx[d],
           \A d \in ContributionCaller \ {c} :
               contributionCall[d] \in SubmitCall /\ x # None
                   => x.id # contributionCall[d].id,
           ReviewerOK(c)', SubmitterOK(c)'
    PROVE  /\ ContributionTypeOK'
           /\ \A d \in ContributionCaller : ReviewerOK(d)' /\ SubmitterOK(d)'
           /\ OthersDebit'
<1>1. contributionCall \in [ContributionCaller -> ContributionCalls]
    BY DEF ContributionInv, ContributionTypeOK, ContributionCalls
<1>2. contributionCall' \in [ContributionCaller -> ContributionCalls]
    BY <1>1
<1>3. contributionCall'[c] = x
    BY <1>1
<1>4. ASSUME NEW d \in ContributionCaller, d # c
      PROVE  contributionCall'[d] = contributionCall[d] /\ tx'[d] = tx[d]
    BY <1>1, <1>4, ContributionAssumption
<1>5. ContributionTypeOK'
    <2>1. ASSUME NEW d \in ContributionCaller
          PROVE  /\ contributionCall'[d] \in ReviewCall =>
                        contribution'[contributionCall'[d].id] # None
                 /\ tx'[d] # None <=>
                        contributionCall'[d] # None
                          /\ contributionCall'[d].pc = "ledger"
        <3>1. CASE d = c
            BY <1>3, <3>1 DEF ContributionExists
        <3>2. CASE d # c
            <4>1. contributionCall[d] \in ReviewCall =>
                      /\ contributionCall[d].id \in Contribution
                      /\ ContributionExists(contributionCall[d].id)
                BY DEF ContributionInv, ContributionTypeOK, ReviewCall
            <4>2. contributionCall[d] \in ReviewCall =>
                      contribution'[contributionCall[d].id] # None
                BY <4>1 DEF RowsKept, ContributionExists
            <4>3. tx[d] # None <=>
                      contributionCall[d] # None
                        /\ contributionCall[d].pc = "ledger"
                BY DEF ContributionInv, ContributionTypeOK, ContributionAt
            <4>4. QED
                BY <1>4, <3>2, <4>2, <4>3
        <3>3. QED
            BY <3>1, <3>2
    <2>2. QED
        BY <1>2, <2>1 DEF ContributionTypeOK, ContributionExists,
                          ContributionAt, ContributionCalls
<1>6. ASSUME NEW d \in ContributionCaller, d # c
      PROVE  ReviewerOK(d)'
    <2>1. ReviewerOK(d)
        BY DEF ContributionInv
    <2>2. PICK call : call = contributionCall[d]
        OBVIOUS
    <2>3. contributionCall'[d] = call /\ tx'[d] = tx[d]
        BY <1>4, <1>6, <2>2
    <2>4. /\ ContributionAt(d, "credit")' => ContributionAt(d, "credit")
          /\ ContributionAt(d, "ledger")' => ContributionAt(d, "ledger")
        BY <2>2, <2>3 DEF ContributionAt
    <2>5. ContributionAt(d, "credit") \/ ContributionAt(d, "ledger")
              => call.id \in Contribution
        BY <2>2, ReviewKind DEF ContributionInv
    <2>6. ContributionAt(d, "credit")' \/ ContributionAt(d, "ledger")'
              => Decided(call.id)'
        BY <2>1, <2>2, <2>4, <2>5 DEF ReviewerOK, RowsKept
    <2>7. ContributionAt(d, "ledger")' =>
              tx'[d].type = "CONTRIBUTION_CREDIT" /\ tx'[d].ref = call.id
        BY <2>1, <2>2, <2>3, <2>4 DEF ReviewerOK
    <2>8. QED
        BY <2>3, <2>6, <2>7 DEF ReviewerOK
<1>7. ASSUME NEW d \in ContributionCaller, d # c
      PROVE  SubmitterOK(d)'
    <2>1. SubmitterOK(d)
        BY DEF ContributionInv
    <2>2. PICK call : call = contributionCall[d]
        OBVIOUS
    <2>3. contributionCall'[d] = call
        BY <1>4, <1>7, <2>2
    <2>4. SUFFICES ASSUME call \in SubmitCall
                   PROVE  /\ ~ ContributionExists(call.id)'
                          /\ \A e \in ContributionCaller \ {d} :
                                contributionCall'[e] # None
                                    => contributionCall'[e].id # call.id
        BY <2>3 DEF SubmitterOK
    <2>5. call.id \in Contribution
        BY <2>4 DEF SubmitCall
    <2>6. ~ ContributionExists(call.id)'
        BY <1>7, <2>1, <2>2, <2>4, <2>5 DEF SubmitterOK, RowsKept
    <2>7. ASSUME NEW e \in ContributionCaller, e # d,
                 contributionCall'[e] # None
          PROVE  contributionCall'[e].id # call.id
        <3>1. CASE e = c
            BY <1>3, <1>7, <2>2, <2>4, <2>7, <3>1
        <3>2. CASE e # c
            BY <1>4, <2>1, <2>2, <2>4, <2>7, <3>2 DEF SubmitterOK
        <3>3. QED
            BY <3>1, <3>2
    <2>8. QED
        BY <2>6, <2>7
<1>8. OthersDebit'
    BY ContributionAssumption DEF ContributionInv, OthersDebit
<1>9. QED
    BY <1>5, <1>6, <1>7, <1>8

\* As long as the rows are the same, so is what is said of them.
LEMMA SameRows ==
    ASSUME ContributionInv, contribution' = contribution
    PROVE  /\ OneApproved'
           /\ contribution' \in [Contribution -> ContributionRow \cup {None}]
           /\ \A c \in ContributionCaller : RowsKept(c)
           /\ \A i : Decided(i)' <=> Decided(i)
           /\ \A i : ContributionExists(i)' <=> ContributionExists(i)
<1>1. \A i : Decided(i)' <=> Decided(i)
    BY DEF Decided, ContributionExists, InStatus
<1>2. \A i : ContributionExists(i)' <=> ContributionExists(i)
    BY DEF ContributionExists
<1>3. OneApproved'
    BY DEF ContributionInv, OneApproved, InStatus, ContributionExists
<1>4. contribution' \in [Contribution -> ContributionRow \cup {None}]
    BY DEF ContributionInv, ContributionTypeOK
<1>5. QED
    BY <1>1, <1>2, <1>3, <1>4 DEF RowsKept

\* Nothing is booked: what was credited stays, and it was decided.
LEMMA SameLedger ==
    ASSUME ContributionInv, ledger' = ledger,
           \A i \in Contribution : Decided(i) => Decided(i)'
    PROVE  CreditedWasDecided'
<1>1. \A i : Credited(i)' <=> Credited(i)
    BY DEF Credited, Credits
<1>2. QED
    BY <1>1 DEF ContributionInv, CreditedWasDecided

\* Neither the ledger nor any transaction moves.
LEMMA SamePot ==
    ASSUME ContributionInv, ledger' = ledger, tx' = tx
    PROVE  LedgerInv'
BY DEF ContributionInv, LedgerInv, LedgerTypeOK, RunningBalance,
       NeverNegative, BalanceAt

\* A step of handler c that writes no row and no entry.
LEMMA UneventfulStep ==
    ASSUME ContributionInv, NEW c \in ContributionCaller,
           NEW x \in ContributionCalls,
           contributionCall' = [contributionCall EXCEPT ![c] = x],
           UNCHANGED <<contribution, ledger, tx>>,
           ~ ContributionAt(c, "ledger"),
           x # None => x.pc \notin {"credit", "ledger"},
           x \in ReviewCall => ContributionExists(x.id),
           x # None => \A d \in ContributionCaller \ {c} :
               contributionCall[d] \in SubmitCall
                   => x.id # contributionCall[d].id,
           x \in SubmitCall =>
               /\ ~ ContributionExists(x.id)
               /\ \A d \in ContributionCaller \ {c} :
                     contributionCall[d] # None => contributionCall[d].id # x.id
    PROVE  ContributionInv'
<1>1. /\ OneApproved'
      /\ contribution' \in [Contribution -> ContributionRow \cup {None}]
      /\ RowsKept(c)
      /\ \A i : Decided(i)' <=> Decided(i)
      /\ \A i : ContributionExists(i)' <=> ContributionExists(i)
    BY SameRows
<1>2. tx'[c] = None
    BY DEF ContributionInv, ContributionTypeOK
<1>3. /\ contributionCall'[c] = x
      /\ \A d \in ContributionCaller \ {c} :
            contributionCall'[d] = contributionCall[d]
    BY DEF ContributionInv, ContributionTypeOK
<1>4. ReviewerOK(c)'
    BY <1>3 DEF ReviewerOK, ContributionAt
<1>5. SubmitterOK(c)'
    BY <1>1, <1>3 DEF SubmitterOK
<1>6. /\ ContributionTypeOK'
      /\ \A d \in ContributionCaller : ReviewerOK(d)' /\ SubmitterOK(d)'
      /\ OthersDebit'
    BY <1>1, <1>2, <1>4, <1>5, ReviewersStep
<1>7. LedgerInv' /\ CreditedWasDecided'
    BY <1>1, SamePot, SameLedger
<1>8. QED
    BY <1>1, <1>6, <1>7 DEF ContributionInv

\* A handler that returns or dies, with its transaction rolled back.
LEMMA ReturnStep ==
    ASSUME ContributionInv, NEW c \in ContributionCaller,
           ContributionReturn(c),
           UNCHANGED <<contribution, ledger>>,
           tx' = [tx EXCEPT ![c] = None]
    PROVE  ContributionInv'
<1>1. None \in ContributionCalls
    BY DEF ContributionCalls
<1>2. contributionCall' = [contributionCall EXCEPT ![c] = None]
    BY DEF ContributionReturn
<1>3. /\ OneApproved'
      /\ contribution' \in [Contribution -> ContributionRow \cup {None}]
      /\ RowsKept(c)
      /\ \A i : Decided(i)' <=> Decided(i)
    BY SameRows
<1>4. c \in Caller
    BY ContributionAssumption
<1>5. tx'[c] = None /\ \A d \in Caller \ {c} : tx'[d] = tx[d]
    BY <1>4 DEF ContributionInv, LedgerInv, LedgerTypeOK
<1>6. contributionCall'[c] = None
    BY <1>2 DEF ContributionInv, ContributionTypeOK
<1>7. None \notin SubmitCall \cup ReviewCall
    BY ContributionAssumption
<1>8. ReviewerOK(c)' /\ SubmitterOK(c)'
    BY <1>6, <1>7 DEF ReviewerOK, SubmitterOK, ContributionAt
<1>9. /\ ContributionTypeOK'
      /\ \A d \in ContributionCaller : ReviewerOK(d)' /\ SubmitterOK(d)'
      /\ OthersDebit'
    BY <1>1, <1>2, <1>3, <1>5, <1>7, <1>8, ReviewersStep
<1>10. LedgerInv'
    BY <1>4, AbortKeepsInv DEF ContributionInv
<1>11. CreditedWasDecided'
    BY <1>3, SameLedger
<1>12. QED
    BY <1>3, <1>9, <1>10, <1>11 DEF ContributionInv

-----------------------------------------------------------------------------
(* Writes to the rows. *)

\* A review that decides a row, APPROVED only if the unique index admits it.
LEMMA DecisionStep ==
    ASSUME ContributionInv, NEW i \in Contribution, ContributionExists(i),
           NEW s \in Status, s # "PENDING", UpdateStatus(i, s),
           s = "APPROVED" => SlotFree(i, contribution[i].member,
                                      contribution[i].period, "APPROVED")
    PROVE  /\ contribution' \in [Contribution -> ContributionRow \cup {None}]
           /\ \A c \in ContributionCaller : RowsKept(c)
           /\ Decided(i)'
           /\ \A j \in Contribution : Decided(j) => Decided(j)'
           /\ OneApproved'
<1> DEFINE row == [contribution[i] EXCEPT !.status = s]
<1>1. contribution \in [Contribution -> ContributionRow \cup {None}]
    BY DEF ContributionInv, ContributionTypeOK
<1>2. contribution[i] \in ContributionRow
    BY <1>1 DEF ContributionExists
<1>3. /\ row \in ContributionRow
      /\ row.status = s
      /\ row.member = contribution[i].member
      /\ row.period = contribution[i].period
      /\ row.key = contribution[i].key
    BY <1>2 DEF ContributionRow
<1>4. row # None
    BY <1>3, ContributionAssumption
<1>5. contribution' = [contribution EXCEPT ![i] = row]
    BY DEF UpdateStatus
<1> HIDE DEF row
<1>6. /\ contribution'[i] = row
      /\ \A j \in Contribution : j # i => contribution'[j] = contribution[j]
    BY <1>1, <1>5
<1>7. contribution' \in [Contribution -> ContributionRow \cup {None}]
    BY <1>1, <1>3, <1>5
<1>8. \A j \in Contribution : ContributionExists(j)' <=> ContributionExists(j)
    BY <1>4, <1>6 DEF ContributionExists
<1>9. Decided(i)'
    BY <1>3, <1>4, <1>6 DEF Decided, InStatus, ContributionExists
<1>10. \A j \in Contribution : Decided(j) => Decided(j)'
    <2>1. SUFFICES ASSUME NEW j \in Contribution, Decided(j), j # i
                   PROVE  Decided(j)'
        BY <1>9
    <2>2. QED
        BY <1>6, <2>1 DEF Decided, InStatus, ContributionExists
<1>11. \A c \in ContributionCaller : RowsKept(c)
    BY <1>8, <1>10 DEF RowsKept
<1>12. ASSUME NEW j \in Contribution, j # i, s = "APPROVED",
              InStatus(j, "APPROVED"),
              contribution[j].member = contribution[i].member,
              contribution[j].period = contribution[i].period
       PROVE  FALSE
    <2>1. "APPROVED" \in UniqueOver
        BY ContributionAssumption DEF Status
    <2>2. Rows(contribution[i].member, contribution[i].period, "APPROVED")
              \subseteq {i}
        BY <1>12, <2>1 DEF SlotFree
    <2>3. j \in Rows(contribution[i].member, contribution[i].period, "APPROVED")
        BY <1>12 DEF Rows
    <2>4. QED
        BY <1>12, <2>2, <2>3
<1>13. OneApproved'
    <2>1. SUFFICES ASSUME NEW j \in Contribution, NEW k \in Contribution,
                          j # k,
                          InStatus(j, "APPROVED")', InStatus(k, "APPROVED")',
                          contribution'[j].member = contribution'[k].member,
                          contribution'[j].period = contribution'[k].period
                   PROVE  FALSE
        BY DEF OneApproved
    <2>2. CASE j = i
        <3>1. s = "APPROVED"
            BY <1>3, <1>6, <2>1, <2>2 DEF InStatus
        <3>2. InStatus(k, "APPROVED")
            BY <1>6, <2>1, <2>2 DEF InStatus, ContributionExists
        <3>3. QED
            BY <1>3, <1>6, <1>12, <2>1, <2>2, <3>1, <3>2
    <2>3. CASE k = i
        <3>1. s = "APPROVED"
            BY <1>3, <1>6, <2>1, <2>3 DEF InStatus
        <3>2. InStatus(j, "APPROVED")
            BY <1>6, <2>1, <2>3 DEF InStatus, ContributionExists
        <3>3. QED
            BY <1>3, <1>6, <1>12, <2>1, <2>3, <3>1, <3>2
    <2>4. CASE j # i /\ k # i
        BY <1>6, <2>1, <2>4 DEF ContributionInv, OneApproved, InStatus,
                                ContributionExists
    <2>5. QED
        BY <2>2, <2>3, <2>4
<1>14. QED
    BY <1>7, <1>9, <1>10, <1>11, <1>13

\* An inserted row is PENDING.
LEMMA InsertStep ==
    ASSUME ContributionInv, NEW c \in ContributionCaller,
           ContributionAt(c, "insert"), NEW row \in ContributionRow,
           row.status = "PENDING",
           contribution' = [contribution EXCEPT ![contributionCall[c].id] = row]
    PROVE  /\ contribution' \in [Contribution -> ContributionRow \cup {None}]
           /\ RowsKept(c)
           /\ \A j \in Contribution : Decided(j) => Decided(j)'
           /\ OneApproved'
<1>1. contribution \in [Contribution -> ContributionRow \cup {None}]
    BY DEF ContributionInv, ContributionTypeOK
<1>2. PICK i : i = contributionCall[c].id
    OBVIOUS
<1>3. i \in Contribution /\ ~ ContributionExists(i)
    BY <1>2, SubmitKind DEF ContributionInv, SubmitterOK
<1>4. row # None
    BY ContributionAssumption
<1>5. /\ contribution'[i] = row
      /\ \A j \in Contribution : j # i => contribution'[j] = contribution[j]
    BY <1>1, <1>2, <1>3
<1>6. contribution' \in [Contribution -> ContributionRow \cup {None}]
    BY <1>1
<1>7. \A j \in Contribution : Decided(j) => Decided(j)'
    <2>1. SUFFICES ASSUME NEW j \in Contribution, Decided(j) PROVE Decided(j)'
        OBVIOUS
    <2>2. j # i
        BY <1>3, <2>1 DEF Decided
    <2>3. QED
        BY <1>5, <2>1, <2>2 DEF Decided, InStatus, ContributionExists
<1>8. RowsKept(c)
    BY <1>2, <1>4, <1>5, <1>7 DEF RowsKept, ContributionExists, ContributionAt
<1>9. ~ InStatus(i, "APPROVED")'
    BY <1>5 DEF InStatus
<1>10. OneApproved'
    <2>1. SUFFICES ASSUME NEW j \in Contribution, NEW k \in Contribution,
                          j # k,
                          InStatus(j, "APPROVED")', InStatus(k, "APPROVED")',
                          contribution'[j].member = contribution'[k].member,
                          contribution'[j].period = contribution'[k].period
                   PROVE  FALSE
        BY DEF OneApproved
    <2>2. j # i /\ k # i
        BY <1>9, <2>1
    <2>3. QED
        BY <1>5, <2>1, <2>2 DEF ContributionInv, OneApproved, InStatus,
                                ContributionExists
<1>11. QED
    BY <1>6, <1>7, <1>8, <1>10

-----------------------------------------------------------------------------
(* The operations. *)

\* A step of handler c that writes rows and leaves the ledger alone: the
\* handler returns, or goes on to credit the row that it has decided.
LEMMA RowStep ==
    ASSUME ContributionInv, NEW c \in ContributionCaller,
           NEW x \in ContributionCalls,
           contributionCall' = [contributionCall EXCEPT ![c] = x],
           contributionCall[c] # None, ~ ContributionAt(c, "ledger"),
           UNCHANGED <<ledger, tx>>,
           contribution' \in [Contribution -> ContributionRow \cup {None}],
           RowsKept(c),
           \A j \in Contribution : Decided(j) => Decided(j)',
           OneApproved',
           x # None => /\ x \in ReviewCall
                       /\ x.pc = "credit"
                       /\ x.id = contributionCall[c].id
                       /\ Decided(x.id)'
    PROVE  ContributionInv'
<1>1. tx'[c] = None
    BY DEF ContributionInv, ContributionTypeOK
<1>2. contributionCall'[c] = x
    BY DEF ContributionInv, ContributionTypeOK
<1>3. ReviewerOK(c)'
    BY <1>2 DEF ReviewerOK, ContributionAt
<1>4. x \notin SubmitCall
    <2>1. None \notin SubmitCall
        BY ContributionAssumption
    <2>2. QED
        BY <2>1 DEF SubmitCall
<1>5. SubmitterOK(c)'
    BY <1>2, <1>4 DEF SubmitterOK
<1>6. ASSUME NEW d \in ContributionCaller \ {c}, contributionCall[d] \in SubmitCall,
             x # None
      PROVE  x.id # contributionCall[d].id
    BY <1>6 DEF ContributionInv, SubmitterOK
<1>7. x \in ReviewCall => ContributionExists(x.id)'
    <2>1. None \notin ReviewCall
        BY ContributionAssumption
    <2>2. QED
        BY <2>1 DEF Decided
<1>8. x # None => x.pc # "ledger"
    OBVIOUS
<1>9. \A d \in Caller \ {c} : tx'[d] = tx[d]
    OBVIOUS
<1>10. /\ ContributionTypeOK'
       /\ \A d \in ContributionCaller : ReviewerOK(d)' /\ SubmitterOK(d)'
       /\ OthersDebit'
    BY <1>1, <1>3, <1>5, <1>6, <1>7, <1>8, <1>9, ReviewersStep
<1>11. LedgerInv' /\ CreditedWasDecided'
    BY SamePot, SameLedger
<1>12. QED
    BY <1>10, <1>11 DEF ContributionInv

\* create: the checks before the insert.
LEMMA SubmitContributionInv ==
    ASSUME ContributionInv, NEW c \in ContributionCaller,
           NEW i \in Contribution, NEW m \in User, NEW per \in Period,
           NEW a \in Amount, NEW k \in Key \cup {None},
           SubmitContribution(c, i, m, per, a, k)
    PROVE  ContributionInv'
<1> DEFINE x == [pc |-> "pending", id |-> i, member |-> m, period |-> per,
                 amount |-> a, key |-> k]
<1>1. x \in SubmitCall
    BY DEF SubmitCall
<1>2. /\ x.pc = "pending"
      /\ x.id = i
      /\ x \in ContributionCalls
      /\ x \notin ReviewCall
    BY <1>1 DEF ContributionCalls, ReviewCall
<1>3. /\ contributionCall' = [contributionCall EXCEPT ![c] = x]
      /\ UNCHANGED <<contribution, ledger, tx>>
      /\ ~ ContributionAt(c, "ledger")
      /\ ~ ContributionExists(i)
      /\ \A d \in ContributionCaller :
            contributionCall[d] # None => contributionCall[d].id # i
    BY DEF SubmitContribution, ContributionAt
<1> HIDE DEF x
<1>4. None \notin SubmitCall
    BY ContributionAssumption
<1>5. QED
    BY <1>1, <1>2, <1>3, <1>4, UneventfulStep

LEMMA CheckPendingInv ==
    ASSUME ContributionInv, NEW c \in ContributionCaller, CheckPending(c)
    PROVE  ContributionInv'
<1>1. /\ ContributionAt(c, "pending")
      /\ UNCHANGED <<contribution, ledger, tx>>
      /\ ContributionGoto(c, "insert") \/ ContributionReturn(c)
    BY DEF CheckPending
<1>2. contributionCall[c] \in SubmitCall
    BY <1>1, SubmitKind DEF ContributionInv
<1>3. ~ ContributionAt(c, "ledger") /\ contributionCall[c] # None
    BY <1>1 DEF ContributionAt
<1>4. CASE ContributionGoto(c, "insert")
    <2> DEFINE x == [contributionCall[c] EXCEPT !.pc = "insert"]
    <2>1. /\ x \in SubmitCall
          /\ x.pc = "insert"
          /\ x.id = contributionCall[c].id
        BY <1>2 DEF SubmitCall
    <2>2. contributionCall' = [contributionCall EXCEPT ![c] = x]
        BY <1>4 DEF ContributionGoto
    <2> HIDE DEF x
    <2>3. x \in ContributionCalls /\ x \notin ReviewCall
        BY <2>1 DEF ContributionCalls, ReviewCall
    <2>4. /\ ~ ContributionExists(x.id)
          /\ \A d \in ContributionCaller \ {c} :
                contributionCall[d] # None => contributionCall[d].id # x.id
        BY <1>2, <2>1 DEF ContributionInv, SubmitterOK
    <2>5. \A d \in ContributionCaller \ {c} :
              contributionCall[d] \in SubmitCall => x.id # contributionCall[d].id
        BY <1>3, <2>1 DEF ContributionInv, SubmitterOK
    <2>6. QED
        BY <1>1, <1>3, <2>1, <2>2, <2>3, <2>4, <2>5, UneventfulStep
<1>5. CASE ContributionReturn(c)
    <2>1. None \in ContributionCalls /\ None \notin SubmitCall \cup ReviewCall
        BY ContributionAssumption DEF ContributionCalls
    <2>2. contributionCall' = [contributionCall EXCEPT ![c] = None]
        BY <1>5 DEF ContributionReturn
    <2>3. QED
        BY <1>1, <1>3, <2>1, <2>2, UneventfulStep
<1>6. QED
    BY <1>1, <1>4, <1>5

LEMMA InsertContributionInv ==
    ASSUME ContributionInv, NEW c \in ContributionCaller, InsertContribution(c)
    PROVE  ContributionInv'
<1> DEFINE call == contributionCall[c]
           row == [status |-> "PENDING", member |-> call.member,
                   period |-> call.period, amount |-> call.amount,
                   key |-> call.key]
<1>1. /\ ContributionAt(c, "insert")
      /\ ContributionReturn(c)
      /\ UNCHANGED <<ledger, tx>>
    BY DEF InsertContribution
<1>2. /\ contributionCall[c] # None
      /\ ~ ContributionAt(c, "ledger")
      /\ None \in ContributionCalls
      /\ contributionCall' = [contributionCall EXCEPT ![c] = None]
    BY <1>1 DEF ContributionAt, ContributionReturn, ContributionCalls
<1>3. CASE /\ ContributionKeyUnused(call.key)
           /\ contribution' = [contribution EXCEPT ![call.id] = row]
    <2>1. row \in ContributionRow /\ row.status = "PENDING"
        BY <1>1, SubmitKind DEF ContributionInv, ContributionRow, Status
    <2> HIDE DEF row
    <2>2. /\ contribution' \in [Contribution -> ContributionRow \cup {None}]
          /\ RowsKept(c)
          /\ \A j \in Contribution : Decided(j) => Decided(j)'
          /\ OneApproved'
        BY <1>1, <1>3, <2>1, InsertStep
    <2>3. QED
        BY <1>1, <1>2, <2>2, RowStep
<1>4. CASE UNCHANGED contribution
    BY <1>1, <1>2, <1>4, SameRows, RowStep
<1>5. QED
    BY <1>3, <1>4 DEF InsertContribution

\* approve, reject and cancel start from a row that exists.
LEMMA StartReviewInv ==
    ASSUME ContributionInv, NEW c \in ContributionCaller,
           NEW pc \in {"approve", "reject", "cancel"},
           NEW i \in Contribution, NEW u \in User,
           InStatus(i, "PENDING"), StartReview(c, pc, i, u),
           UNCHANGED <<contribution, ledger, tx>>
    PROVE  ContributionInv'
<1> DEFINE x == [pc |-> pc, id |-> i, user |-> u]
<1>1. x \in ReviewCall /\ x.pc = pc /\ x.id = i
    BY DEF ReviewCall
<1>2. contributionCall' = [contributionCall EXCEPT ![c] = x]
    BY DEF StartReview
<1> HIDE DEF x
<1>3. x \in ContributionCalls /\ x \notin SubmitCall
    BY <1>1 DEF ContributionCalls, SubmitCall
<1>4. ContributionExists(i)
    BY DEF InStatus
<1>5. \A d \in ContributionCaller \ {c} :
          contributionCall[d] \in SubmitCall => contributionCall[d].id # i
    BY <1>4 DEF ContributionInv, SubmitterOK
<1>6. ~ ContributionAt(c, "ledger")
    BY DEF StartReview, ContributionAt
<1>7. QED
    BY <1>1, <1>2, <1>3, <1>4, <1>5, <1>6, UneventfulStep

LEMMA ApproveContributionInv ==
    ASSUME ContributionInv, NEW c \in ContributionCaller, ApproveContribution(c)
    PROVE  ContributionInv'
<1>1. /\ ContributionAt(c, "approve")
      /\ UNCHANGED <<ledger, tx>>
    BY DEF ApproveContribution
<1>2. PICK i \in Contribution : i = contributionCall[c].id
    BY <1>1, ReviewKind DEF ContributionInv
<1>3. contributionCall[c] \in ReviewCall /\ ContributionExists(i)
    BY <1>1, <1>2, ReviewKind DEF ContributionInv
<1>4. contributionCall[c] # None /\ ~ ContributionAt(c, "ledger")
    BY <1>1 DEF ContributionAt
<1>5. CASE /\ SlotFree(i, contribution[i].member, contribution[i].period,
                       "APPROVED")
           /\ UpdateStatus(i, "APPROVED")
           /\ ContributionGoto(c, "credit")
    <2>1. PICK x : x = [contributionCall[c] EXCEPT !.pc = "credit"]
        OBVIOUS
    <2>2. x \in ReviewCall /\ x.pc = "credit" /\ x.id = i
        BY <1>2, <1>3, <2>1 DEF ReviewCall
    <2>3. contributionCall' = [contributionCall EXCEPT ![c] = x]
        BY <1>5, <2>1 DEF ContributionGoto
    <2>4. "APPROVED" \in Status /\ "APPROVED" # "PENDING"
        BY DEF Status
    <2>5. /\ contribution' \in [Contribution -> ContributionRow \cup {None}]
          /\ RowsKept(c)
          /\ Decided(i)'
          /\ \A j \in Contribution : Decided(j) => Decided(j)'
          /\ OneApproved'
        BY <1>3, <1>5, <2>4, DecisionStep
    <2>6. x \in ContributionCalls /\ Decided(x.id)'
        BY <2>2, <2>5 DEF ContributionCalls
    <2>7. QED
        BY <1>1, <1>2, <1>4, <2>2, <2>3, <2>5, <2>6, RowStep
<1>6. CASE UNCHANGED contribution /\ ContributionReturn(c)
    <2>1. /\ None \in ContributionCalls
          /\ contributionCall' = [contributionCall EXCEPT ![c] = None]
        BY <1>6 DEF ContributionReturn, ContributionCalls
    <2>2. QED
        BY <1>1, <1>4, <1>6, <2>1, SameRows, RowStep
<1>7. QED
    BY <1>2, <1>5, <1>6 DEF ApproveContribution

\* reject and cancel decide a row and return.
LEMMA DismissInv ==
    ASSUME ContributionInv, NEW c \in ContributionCaller,
           NEW pc \in {"reject", "cancel"},
           NEW s \in {"REJECTED", "CANCELLED"},
           ContributionAt(c, pc), UpdateStatus(contributionCall[c].id, s),
           ContributionReturn(c), UNCHANGED <<ledger, tx>>
    PROVE  ContributionInv'
<1>1. PICK i \in Contribution : i = contributionCall[c].id /\ ContributionExists(i)
    BY ReviewKind DEF ContributionInv
<1>2. s \in Status /\ s # "PENDING" /\ s # "APPROVED"
    BY DEF Status
<1>3. /\ contribution' \in [Contribution -> ContributionRow \cup {None}]
      /\ RowsKept(c)
      /\ \A j \in Contribution : Decided(j) => Decided(j)'
      /\ OneApproved'
    BY <1>1, <1>2, DecisionStep
<1>4. /\ contributionCall[c] # None
      /\ ~ ContributionAt(c, "ledger")
      /\ None \in ContributionCalls
      /\ contributionCall' = [contributionCall EXCEPT ![c] = None]
    BY DEF ContributionAt, ContributionReturn, ContributionCalls
<1>5. QED
    BY <1>3, <1>4, RowStep

\* creditContribution begins: the transaction is this handler's credit.
LEMMA StartCreditInv ==
    ASSUME ContributionInv, NEW c \in ContributionCaller, StartCredit(c)
    PROVE  ContributionInv'
<1>1. /\ ContributionAt(c, "credit")
      /\ ContributionGoto(c, "ledger")
      /\ contribution' = contribution
    BY DEF StartCredit
<1>2. PICK i \in Contribution : i = contributionCall[c].id
    BY <1>1, ReviewKind DEF ContributionInv
<1>3. /\ contributionCall[c] \in ReviewCall
      /\ contributionCall[c].user \in User
      /\ contributionCall[c] # None
      /\ ContributionExists(i)
      /\ contribution[i] \in ContributionRow
    BY <1>1, <1>2, ReviewKind DEF ContributionInv, ContributionAt
<1>4. Decided(i)
    BY <1>1, <1>2 DEF ContributionInv, ReviewerOK
<1>5. PICK x : x = [contributionCall[c] EXCEPT !.pc = "ledger"]
    OBVIOUS
<1>6. x \in ReviewCall /\ x.pc = "ledger" /\ x.id = i
    BY <1>2, <1>3, <1>5 DEF ReviewCall
<1>7. contributionCall' = [contributionCall EXCEPT ![c] = x]
    BY <1>1, <1>5 DEF ContributionGoto
<1>8. PICK amount \in Amount, by \in User :
          BeginEntry(c, "CONTRIBUTION_CREDIT", amount, i, by)
    <2>1. contribution[i].amount \in Amount
        BY <1>3 DEF ContributionRow
    <2>2. BeginEntry(c, "CONTRIBUTION_CREDIT", contribution[i].amount, i,
                     contributionCall[c].user)
        BY <1>2 DEF StartCredit, CreditContribution
    <2>3. QED
        BY <1>3, <2>1, <2>2
<1>9. c \in Caller
    BY ContributionAssumption
<1>10. LedgerInv'
    <2>1. amount \in Int /\ amount >= 0
        BY LedgerAssumption
    <2>2. "CONTRIBUTION_CREDIT" \in EntryType /\ i \in Ref \cup {None}
        BY ContributionAssumption DEF EntryType, CreditTypes
    <2>3. QED
        BY <1>8, <1>9, <2>1, <2>2, BeginKeepsInv DEF ContributionInv
<1>11. /\ ledger' = ledger
       /\ tx'[c].type = "CONTRIBUTION_CREDIT"
       /\ tx'[c].ref = i
       /\ tx'[c] # None
       /\ \A d \in Caller \ {c} : tx'[d] = tx[d]
    <2> DEFINE t == [type |-> "CONTRIBUTION_CREDIT", amount |-> amount,
                     ref |-> i, by |-> by, snap |-> Len(ledger)]
    <2>1. ledger' = ledger /\ tx' = [tx EXCEPT ![c] = t]
        BY <1>8 DEF BeginEntry
    <2>2. t # None
        <3>1. Len(ledger) \in Nat /\ amount \in Int
            BY LedgerAssumption DEF ContributionInv, LedgerInv, LedgerTypeOK
        <3>2. t \in Txn
            BY <3>1, ContributionAssumption DEF Txn, EntryType, CreditTypes
        <3>3. QED
            BY <3>2, LedgerAssumption
    <2>3. tx \in [Caller -> Txn \cup {None}]
        BY DEF ContributionInv, LedgerInv, LedgerTypeOK
    <2>4. tx'[c] = t /\ \A d \in Caller \ {c} : tx'[d] = tx[d]
        BY <1>9, <2>1, <2>3
    <2>5. QED
        BY <2>1, <2>2, <2>4
<1>12. /\ OneApproved'
       /\ contribution' \in [Contribution -> ContributionRow \cup {None}]
       /\ RowsKept(c)
       /\ \A j : Decided(j)' <=> Decided(j)
       /\ \A j : ContributionExists(j)' <=> ContributionExists(j)
    BY <1>1, SameRows
<1>13. contributionCall'[c] = x
    BY <1>7 DEF ContributionInv, ContributionTypeOK
<1>14. x \in ContributionCalls /\ x # None /\ x \notin SubmitCall
    BY <1>6, ContributionAssumption DEF ContributionCalls, SubmitCall
<1>15. ReviewerOK(c)' /\ SubmitterOK(c)'
    BY <1>4, <1>6, <1>11, <1>12, <1>13, <1>14
       DEF ReviewerOK, SubmitterOK, ContributionAt
<1>16. \A d \in ContributionCaller \ {c} :
          contributionCall[d] \in SubmitCall => x.id # contributionCall[d].id
    BY <1>2, <1>3, <1>6 DEF ContributionInv, SubmitterOK
<1>17. /\ ContributionTypeOK'
       /\ \A d \in ContributionCaller : ReviewerOK(d)' /\ SubmitterOK(d)'
       /\ OthersDebit'
    BY <1>3, <1>6, <1>7, <1>11, <1>12, <1>14, <1>15, <1>16, ReviewersStep
<1>18. CreditedWasDecided'
    BY <1>11, <1>12, SameLedger
<1>19. QED
    BY <1>10, <1>12, <1>17, <1>18 DEF ContributionInv

\* An entry that is committed credits its own row and no other.
LEMMA CommitCredits ==
    ASSUME LedgerInv, NEW c \in Caller, CommitEntry(c), NEW i, Credited(i)'
    PROVE  \/ Credited(i)
           \/ tx[c].type = "CONTRIBUTION_CREDIT" /\ tx[c].ref = i
<1> DEFINE e == [type |-> tx[c].type, amount |-> tx[c].amount,
                 balanceAfter |-> NewBalance(tx[c]),
                 ref |-> tx[c].ref, by |-> tx[c].by]
<1>1. tx[c] \in Txn /\ NewBalance(tx[c]) \in Int
    BY CommitEffect
<1>2. e \in Entry
    BY <1>1 DEF Txn, Entry
<1>3. ledger \in Seq(Entry) /\ Len(ledger) \in Nat
    BY DEF LedgerInv, LedgerTypeOK
<1>4. ledger' = Append(ledger, e)
    BY DEF CommitEntry
<1>5. e.type = tx[c].type /\ e.ref = tx[c].ref
    OBVIOUS
<1> HIDE DEF e
<1>6. /\ DOMAIN ledger' = 1 .. Len(ledger) + 1
      /\ ledger'[Len(ledger) + 1] = e
      /\ \A n \in 1 .. Len(ledger) : ledger'[n] = ledger[n]
    BY <1>2, <1>3, <1>4, BalanceAfterAppend
<1>7. PICK n \in DOMAIN ledger' : /\ ledger'[n].type = "CONTRIBUTION_CREDIT"
                                  /\ ledger'[n].ref = i
    BY DEF Credited, Credits
<1>8. CASE n = Len(ledger) + 1
    BY <1>5, <1>6, <1>7, <1>8
<1>9. CASE n # Len(ledger) + 1
    <2>1. n \in DOMAIN ledger /\ ledger'[n] = ledger[n]
        BY <1>3, <1>6, <1>7, <1>9
    <2>2. QED
        BY <1>7, <2>1 DEF Credited, Credits
<1>10. QED
    BY <1>8, <1>9

LEMMA FinishCreditInv ==
    ASSUME ContributionInv, NEW c \in ContributionCaller, FinishCredit(c)
    PROVE  ContributionInv'
<1>1. /\ ContributionAt(c, "ledger")
      /\ CommitEntry(c)
      /\ contributionCall' = [contributionCall EXCEPT ![c] = None]
      /\ contribution' = contribution
    BY DEF FinishCredit, ContributionReturn
<1>2. c \in Caller
    BY ContributionAssumption
<1>3. LedgerInv'
    BY <1>1, <1>2, CommitKeepsInv DEF ContributionInv
<1>4. tx'[c] = None /\ \A d \in Caller \ {c} : tx'[d] = tx[d]
    BY <1>1, <1>2 DEF CommitEntry, ContributionInv, LedgerInv, LedgerTypeOK
<1>5. /\ OneApproved'
      /\ contribution' \in [Contribution -> ContributionRow \cup {None}]
      /\ RowsKept(c)
      /\ \A j : Decided(j)' <=> Decided(j)
    BY <1>1, SameRows
<1>6. contributionCall'[c] = None
    BY <1>1 DEF ContributionInv, ContributionTypeOK
<1>7. None \in ContributionCalls /\ None \notin SubmitCall \cup ReviewCall
    BY ContributionAssumption DEF ContributionCalls
<1>8. ReviewerOK(c)' /\ SubmitterOK(c)'
    BY <1>6, <1>7 DEF ReviewerOK, SubmitterOK, ContributionAt
<1>9. /\ ContributionTypeOK'
      /\ \A d \in ContributionCaller : ReviewerOK(d)' /\ SubmitterOK(d)'
      /\ OthersDebit'
    BY <1>1, <1>4, <1>5, <1>7, <1>8, ReviewersStep
<1>10. CreditedWasDecided'
    <2>1. SUFFICES ASSUME NEW i \in Contribution, Credited(i)'
                   PROVE  Decided(i)
        BY <1>5 DEF CreditedWasDecided
    <2>2. CASE Credited(i)
        BY <2>2 DEF ContributionInv, CreditedWasDecided
    <2>3. CASE tx[c].ref = i
        BY <1>1, <2>3 DEF ContributionInv, ReviewerOK
    <2>4. QED
        BY <1>1, <1>2, <2>1, <2>2, <2>3, CommitCredits DEF ContributionInv
<1>11. QED
    BY <1>3, <1>5, <1>9, <1>10 DEF ContributionInv

\* creditContribution throws, or the process dies with the handler.
LEMMA FailCreditInv ==
    ASSUME ContributionInv, NEW c \in ContributionCaller,
           FailCredit(c) \/ CrashContributionCall(c)
    PROVE  ContributionInv'
BY ReturnStep DEF FailCredit, CrashContributionCall, AbortEntry

-----------------------------------------------------------------------------
(* The rest of the group, and the specification. *)

\* A step of nobody's handler that leaves the handlers' transactions alone.
LEMMA ElsewhereStep ==
    ASSUME ContributionInv, UNCHANGED <<contribution, contributionCall>>,
           \A d \in ContributionCaller : tx'[d] = tx[d],
           LedgerInv', OthersDebit',
           \A i \in Contribution : Credited(i)' => Credited(i)
    PROVE  ContributionInv'
<1>1. /\ OneApproved'
      /\ \A i : Decided(i)' <=> Decided(i)
      /\ \A i : ContributionExists(i)' <=> ContributionExists(i)
    BY SameRows
<1>2. ContributionTypeOK'
    BY DEF ContributionInv, ContributionTypeOK, ContributionExists, ContributionAt
<1>3. ASSUME NEW d \in ContributionCaller
      PROVE  ReviewerOK(d)' /\ SubmitterOK(d)'
    <2>1. ReviewerOK(d) /\ SubmitterOK(d)
        BY DEF ContributionInv
    <2>2. PICK call : call = contributionCall[d] /\ contributionCall'[d] = call
        OBVIOUS
    <2>3. ReviewerOK(d)'
        BY <1>1, <2>1, <2>2 DEF ReviewerOK, ContributionAt
    <2>4. SubmitterOK(d)'
        BY <1>1, <2>1, <2>2 DEF SubmitterOK
    <2>5. QED
        BY <2>3, <2>4
<1>4. CreditedWasDecided'
    BY <1>1 DEF ContributionInv, CreditedWasDecided
<1>5. QED
    BY <1>1, <1>2, <1>3, <1>4 DEF ContributionInv

LEMMA WithdrawInv ==
    ASSUME ContributionInv, NEW c \in Caller \ ContributionCaller, Withdraw(c)
    PROVE  ContributionInv'
<1>1. UNCHANGED <<contribution, contributionCall>>
    BY DEF Withdraw
<1>2. tx \in [Caller -> Txn \cup {None}]
    BY DEF ContributionInv, LedgerInv, LedgerTypeOK
<1>3. \A d \in ContributionCaller : d \in Caller /\ d # c
    BY ContributionAssumption
<1>4. ASSUME NEW a \in Amount, NEW r \in Ref, NEW u \in Chair,
             DebitPayout(c, r, a, u)
      PROVE  ContributionInv'
    <2>1. a \in Int /\ u \in User
        BY LedgerAssumption, GroupAssumption
    <2>2. "PAYOUT_DEBIT" \in EntryType /\ "PAYOUT_DEBIT" \notin CreditTypes
        BY DEF EntryType, CreditTypes, DebitTypes
    <2>3. BeginEntry(c, "PAYOUT_DEBIT", a, r, u)
        BY <1>4 DEF DebitPayout
    <2>4. LedgerInv'
        BY <2>1, <2>2, <2>3, BeginKeepsInv DEF ContributionInv
    <2>5. /\ ledger' = ledger
          /\ tx'[c].type = "PAYOUT_DEBIT"
          /\ \A d \in Caller \ {c} : tx'[d] = tx[d]
        BY <1>2, <2>3 DEF BeginEntry
    <2>6. OthersDebit'
        BY <2>5 DEF ContributionInv, OthersDebit
    <2>7. \A i : Credited(i)' => Credited(i)
        BY <2>5 DEF Credited, Credits
    <2>8. QED
        BY <1>1, <1>3, <2>4, <2>5, <2>6, <2>7, ElsewhereStep
<1>5. CASE CommitEntry(c)
    <2>1. LedgerInv'
        BY <1>5, CommitKeepsInv DEF ContributionInv
    <2>2. tx'[c] = None /\ \A d \in Caller \ {c} : tx'[d] = tx[d]
        BY <1>2, <1>5 DEF CommitEntry
    <2>3. OthersDebit'
        BY <2>2 DEF ContributionInv, OthersDebit
    <2>4. tx[c].type # "CONTRIBUTION_CREDIT"
        BY <1>5 DEF CommitEntry, ContributionInv, OthersDebit
    <2>5. \A i \in Contribution : Credited(i)' => Credited(i)
        BY <1>5, <2>4, CommitCredits DEF ContributionInv
    <2>6. QED
        BY <1>1, <1>3, <2>1, <2>2, <2>3, <2>5, ElsewhereStep
<1>6. CASE AbortEntry(c)
    <2>1. ledger' = ledger /\ tx' = [tx EXCEPT ![c] = None]
        BY <1>6 DEF AbortEntry
    <2>2. LedgerInv'
        BY <2>1, AbortKeepsInv DEF ContributionInv
    <2>3. tx'[c] = None /\ \A d \in Caller \ {c} : tx'[d] = tx[d]
        BY <1>2, <2>1
    <2>4. OthersDebit'
        BY <2>3 DEF ContributionInv, OthersDebit
    <2>5. \A i : Credited(i)' => Credited(i)
        BY <2>1 DEF Credited, Credits
    <2>6. QED
        BY <1>1, <1>3, <2>1, <2>2, <2>3, <2>4, <2>5, ElsewhereStep
<1>7. QED
    BY <1>4, <1>5, <1>6 DEF Withdraw

LEMMA ContributionInitInv == ContributionInit => ContributionInv
<1> SUFFICES ASSUME ContributionInit PROVE ContributionInv
    OBVIOUS
<1>1. /\ contribution = [i \in Contribution |-> None]
      /\ contributionCall = [c \in ContributionCaller |-> None]
      /\ tx = [c \in Caller |-> None]
    BY DEF ContributionInit, GroupLedgerInit
<1>2. PICK u \in Chair : ledger = <<OpeningEntry(u)>>
    BY DEF ContributionInit, GroupLedgerInit
<1>3. LedgerInv
    BY <1>1, <1>2, GroupAssumption, LedgerInitInv DEF LedgerInit
<1>4. \A i \in Contribution : ~ ContributionExists(i)
    BY <1>1 DEF ContributionExists
<1>5. None \notin SubmitCall \cup ReviewCall
    BY ContributionAssumption
<1>6. ContributionTypeOK
    BY <1>1, <1>5, ContributionAssumption
       DEF ContributionTypeOK, ContributionExists, ContributionAt
<1>7. \A c \in ContributionCaller : ReviewerOK(c) /\ SubmitterOK(c)
    BY <1>1, <1>5 DEF ReviewerOK, SubmitterOK, ContributionAt
<1>8. OthersDebit
    BY <1>1 DEF OthersDebit
<1>9. OneApproved
    BY <1>4 DEF OneApproved, InStatus
<1>10. \A i : ~ Credited(i)
    <2>1. \A n \in DOMAIN ledger : ledger[n].type = "OPENING_BALANCE"
        BY <1>2 DEF OpeningEntry
    <2>2. QED
        BY <2>1 DEF Credited, Credits
<1>11. QED
    BY <1>3, <1>6, <1>7, <1>8, <1>9, <1>10 DEF ContributionInv, CreditedWasDecided

LEMMA ContributionStepInv ==
    ContributionInv /\ [ContributionNext]_contributionVars => ContributionInv'
<1> SUFFICES ASSUME ContributionInv, [ContributionNext]_contributionVars
             PROVE  ContributionInv'
    OBVIOUS
<1>1. ASSUME NEW c \in ContributionCaller, ContributionRequest(c)
      PROVE  ContributionInv'
    <2>1. PICK i \in Contribution, u \in User :
              \/ \E per \in Period, a \in Amount, k \in Key \cup {None} :
                    SubmitContribution(c, i, u, per, a, k)
              \/ ReadForApprove(c, i, u)
              \/ ReadForReject(c, i, u)
              \/ ReadForCancelling(c, i, u)
        BY <1>1 DEF ContributionRequest
    <2>2. CASE \E per \in Period, a \in Amount, k \in Key \cup {None} :
                  SubmitContribution(c, i, u, per, a, k)
        BY <2>2, SubmitContributionInv
    <2>3. CASE ReadForApprove(c, i, u)
        BY <2>3, StartReviewInv DEF ReadForApprove
    <2>4. CASE ReadForReject(c, i, u)
        BY <2>4, StartReviewInv DEF ReadForReject
    <2>5. CASE ReadForCancelling(c, i, u)
        BY <2>5, StartReviewInv DEF ReadForCancelling
    <2>6. QED
        BY <2>1, <2>2, <2>3, <2>4, <2>5
<1>2. ASSUME NEW c \in ContributionCaller, ContributionStep(c)
      PROVE  ContributionInv'
    <2>1. CASE RejectContribution(c)
        BY <2>1, DismissInv DEF RejectContribution
    <2>2. CASE CancelContribution(c)
        BY <2>2, DismissInv DEF CancelContribution
    <2>3. QED
        BY <1>2, <2>1, <2>2, CheckPendingInv, InsertContributionInv,
           ApproveContributionInv, StartCreditInv, FinishCreditInv, FailCreditInv
           DEF ContributionStep
<1>3. ASSUME NEW c \in ContributionCaller, CrashContributionCall(c)
      PROVE  ContributionInv'
    BY <1>3, FailCreditInv
<1>4. ASSUME NEW c \in Caller \ ContributionCaller, Withdraw(c)
      PROVE  ContributionInv'
    BY <1>4, WithdrawInv
<1>5. CASE UNCHANGED contributionVars
    <2>1. UNCHANGED <<contribution, contributionCall, ledger, tx>>
        BY <1>5 DEF contributionVars
    <2>2. LedgerInv' /\ OthersDebit'
        BY <2>1, SamePot DEF ContributionInv, OthersDebit
    <2>3. \A i : Credited(i)' => Credited(i)
        BY <2>1 DEF Credited, Credits
    <2>4. QED
        BY <2>1, <2>2, <2>3, ElsewhereStep
<1>6. QED
    BY <1>1, <1>2, <1>3, <1>4, <1>5 DEF ContributionNext

\* Rows and handlers keep their types, a review refers to a row that exists,
\* and a handler holds a ledger transaction exactly while it waits for its
\* credit.
THEOREM ContributionTypeCorrect == ContributionSpec => []ContributionTypeOK
<1>1. ContributionInv => ContributionTypeOK
    BY DEF ContributionInv
<1>2. QED
    BY ContributionInitInv, ContributionStepInv, <1>1, PTL DEF ContributionSpec

\* Whatever is booked in the pot belongs to a row that has left PENDING, also
\* when handlers race or die between their writes.
THEOREM CreditFollowsDecision == ContributionSpec => []CreditedIsDecided
<1>1. ContributionInv => CreditedIsDecided
    BY DEF ContributionInv, CreditedWasDecided, Decided, CreditedIsDecided
<1>2. QED
    BY ContributionInitInv, ContributionStepInv, <1>1, PTL DEF ContributionSpec

\* No two approved rows of a member for a period are no more than one.
LEMMA OneApprovedFollows == ContributionInv => OneApprovedPerPeriod
<1>1. ASSUME ContributionInv, NEW m \in User, NEW per \in Period
      PROVE  Cardinality(Rows(m, per, "APPROVED")) <= 1
    <2>1. \A i, j \in Rows(m, per, "APPROVED") : i = j
        BY <1>1 DEF Rows, ContributionInv, OneApproved
    <2>2. CASE Rows(m, per, "APPROVED") = {}
        BY <2>2, FS_EmptySet
    <2>3. CASE Rows(m, per, "APPROVED") # {}
        <3>1. PICK i : i \in Rows(m, per, "APPROVED")
            BY <2>3
        <3>2. Rows(m, per, "APPROVED") = {i}
            BY <2>1, <3>1
        <3>3. QED
            BY <3>2, FS_Singleton
    <2>4. QED
        BY <2>2, <2>3
<1>2. QED
    BY <1>1 DEF OneApprovedPerPeriod

\* A member has one approved contribution per period at most, with either of
\* the two unique indexes.
THEOREM OneApprovedEachPeriod == ContributionSpec => []OneApprovedPerPeriod
BY ContributionInitInv, ContributionStepInv, OneApprovedFollows, PTL
   DEF ContributionSpec
=============================================================================
