----------------------------- MODULE LedgerProofs -----------------------------
(***************************************************************************)
(* The ledger's invariants and its refinement of the atomic pot, for every *)
(* number of callers, every set of amounts and every length of the ledger. *)
(***************************************************************************)
EXTENDS Ledger, SumProofs, SequenceTheorems, TLAPS

\* The signed amount of an entry is a number.
LEMMA SignedType ==
    ASSUME NEW type \in EntryType, NEW amount \in Int
    PROVE  Signed(type, amount) \in Int
BY DEF Signed

\* Appending a row leaves the balances of the earlier rows alone and makes
\* the new row's balance the current one (getBalance after createEntry).
LEMMA BalanceAfterAppend ==
    ASSUME NEW l \in Seq(Entry), NEW e \in Entry
    PROVE  /\ Append(l, e) \in Seq(Entry)
           /\ Len(Append(l, e)) = Len(l) + 1
           /\ Append(l, e)[Len(l) + 1] = e
           /\ \A i \in 1..Len(l) : Append(l, e)[i] = l[i]
OBVIOUS

\* BalanceAt is a number on every prefix of a well-typed ledger.
LEMMA BalanceAtType ==
    ASSUME LedgerTypeOK, NEW n \in 0..Len(ledger)
    PROVE  BalanceAt(n) \in Int
<1>1. CASE n = 0
    BY <1>1 DEF BalanceAt
<1>2. CASE n # 0
    <2>1. n \in 1..Len(ledger)
        BY <1>2
    <2>2. ledger[n] \in Entry
        BY <2>1 DEF LedgerTypeOK
    <2>3. QED
        BY <1>2, <2>2 DEF BalanceAt, Entry
<1>3. QED
    BY <1>1, <1>2

\* The invariant holds of a new group, with or without an opening entry.
LEMMA LedgerInitInv == LedgerInit => LedgerInv
<1> SUFFICES ASSUME LedgerInit PROVE LedgerInv
    OBVIOUS
<1>1. tx \in [Caller -> Txn \cup {None}] /\ \A c \in Caller : tx[c] = None
    BY DEF LedgerInit
<1>2. CASE ledger = <<>>
    BY <1>1, <1>2 DEF LedgerInv, LedgerTypeOK, RunningBalance, NeverNegative
<1>3. CASE \E u \in User : ledger = <<OpeningEntry(u)>>
    <2>1. PICK u \in User : ledger = <<OpeningEntry(u)>>
        BY <1>3
    <2>2. OpeningEntry(u) \in Entry
        BY DEF OpeningEntry, Entry, EntryType, CreditTypes
    <2>3. /\ ledger \in Seq(Entry)
          /\ Len(ledger) = 1
          /\ ledger[1] = OpeningEntry(u)
          /\ DOMAIN ledger = {1}
        BY <2>1, <2>2
    <2>4. LedgerTypeOK
        BY <1>1, <2>3 DEF LedgerTypeOK
    <2>5. RunningBalance /\ NeverNegative
        BY <2>3 DEF RunningBalance, NeverNegative, OpeningEntry, BalanceAt,
                    Signed, CreditTypes
    <2>6. QED
        BY <2>4, <2>5 DEF LedgerInv
<1>4. QED
    BY <1>2, <1>3 DEF LedgerInit

\* Starting a transaction keeps the invariant, whatever operation starts it.
\* A credit has to come with an amount that is not negative.
LEMMA BeginKeepsInv ==
    ASSUME LedgerInv, NEW c \in Caller, NEW type \in EntryType,
           NEW amount \in Int, NEW ref \in Ref \cup {None}, NEW by \in User,
           type \in CreditTypes => amount >= 0,
           BeginEntry(c, type, amount, ref, by)
    PROVE  LedgerInv'
<1> DEFINE t == [type |-> type, amount |-> amount, ref |-> ref, by |-> by,
                 snap |-> Len(ledger)]
<1>1. Len(ledger) \in Nat
    BY DEF LedgerInv, LedgerTypeOK
<1>2. t \in Txn
    BY <1>1 DEF Txn
<1>3. ledger' = ledger /\ tx' = [tx EXCEPT ![c] = t]
    BY DEF BeginEntry
<1>4. LedgerTypeOK'
    <2>1. tx' \in [Caller -> Txn \cup {None}]
        BY <1>2, <1>3 DEF LedgerInv, LedgerTypeOK
    <2>2. ASSUME NEW d \in Caller, tx'[d] # None
          PROVE  /\ tx'[d].snap <= Len(ledger')
                 /\ tx'[d].type \in CreditTypes => tx'[d].amount >= 0
        <3>1. CASE d = c
            BY <1>1, <1>3, <3>1 DEF LedgerInv, LedgerTypeOK
        <3>2. CASE d # c
            BY <1>3, <2>2, <3>2 DEF LedgerInv, LedgerTypeOK
        <3>3. QED
            BY <3>1, <3>2
    <2>3. QED
        BY <1>3, <2>1, <2>2 DEF LedgerInv, LedgerTypeOK
<1>5. RunningBalance' /\ NeverNegative'
    BY <1>3 DEF LedgerInv, RunningBalance, NeverNegative, BalanceAt
<1>6. QED
    BY <1>4, <1>5 DEF LedgerInv

\* What a commit does: the row it appends carries the current balance moved
\* by the amount, because the transaction has read the newest row.
LEMMA CommitEffect ==
    ASSUME LedgerInv, NEW c \in Caller, CommitEntry(c)
    PROVE  /\ tx[c] \in Txn
           /\ NewBalance(tx[c]) = Balance + Signed(tx[c].type, tx[c].amount)
           /\ NewBalance(tx[c]) \in Int
           /\ NewBalance(tx[c]) >= 0
<1>1. tx[c] \in Txn /\ tx[c].snap = Len(ledger)
    BY DEF LedgerInv, LedgerTypeOK, CommitEntry, Conflict
<1>2. Balance \in Int /\ Balance >= 0
    <2>1. Len(ledger) \in 0..Len(ledger)
        BY DEF LedgerInv, LedgerTypeOK
    <2>2. Balance \in Int
        BY <2>1, BalanceAtType DEF LedgerInv, Balance
    <2>3. Balance >= 0
        BY <2>1 DEF LedgerInv, LedgerTypeOK, NeverNegative, Balance, BalanceAt
    <2>4. QED
        BY <2>2, <2>3
<1>3. tx[c].type \in EntryType /\ tx[c].amount \in Int
    BY <1>1 DEF Txn
<1>4. NewBalance(tx[c]) = Balance + Signed(tx[c].type, tx[c].amount)
    BY <1>1 DEF NewBalance, Balance
<1>5. CASE tx[c].type \in CreditTypes
    <2>1. tx[c].amount >= 0
        BY <1>5 DEF LedgerInv, LedgerTypeOK, CommitEntry
    <2>2. QED
        BY <1>1, <1>2, <1>3, <1>4, <1>5, <2>1 DEF Signed
<1>6. CASE tx[c].type \notin CreditTypes
    <2>1. ~ (NewBalance(tx[c]) < 0)
        BY <1>6 DEF CommitEntry, Overdrawn
    <2>2. QED
        BY <1>1, <1>2, <1>3, <1>4, <1>6, <2>1 DEF Signed
<1>7. QED
    BY <1>5, <1>6

\* A commit keeps the invariant.
LEMMA CommitKeepsInv ==
    ASSUME LedgerInv, NEW c \in Caller, CommitEntry(c)
    PROVE  LedgerInv'
<1> DEFINE t == tx[c]
           e == [type |-> t.type, amount |-> t.amount,
                 balanceAfter |-> NewBalance(t), ref |-> t.ref, by |-> t.by]
<1>1. /\ t \in Txn
      /\ NewBalance(t) = Balance + Signed(t.type, t.amount)
      /\ NewBalance(t) \in Int
      /\ NewBalance(t) >= 0
    BY CommitEffect
<1>2. e \in Entry
    BY <1>1 DEF Txn, Entry
<1>3. ledger \in Seq(Entry) /\ Len(ledger) \in Nat
    BY DEF LedgerInv, LedgerTypeOK
<1>4. ledger' = Append(ledger, e) /\ tx' = [tx EXCEPT ![c] = None]
    BY DEF CommitEntry
<1> HIDE DEF e
<1>5. /\ ledger' \in Seq(Entry)
      /\ Len(ledger') = Len(ledger) + 1
      /\ DOMAIN ledger' = 1 .. Len(ledger) + 1
      /\ ledger'[Len(ledger) + 1] = e
      /\ \A i \in 1..Len(ledger) : ledger'[i] = ledger[i]
    BY <1>2, <1>3, <1>4, BalanceAfterAppend
<1>6. LedgerTypeOK'
    <2>1. tx' \in [Caller -> Txn \cup {None}]
        BY <1>4 DEF LedgerInv, LedgerTypeOK
    <2>2. ASSUME NEW d \in Caller, tx'[d] # None
          PROVE  /\ tx'[d].snap <= Len(ledger')
                 /\ tx'[d].type \in CreditTypes => tx'[d].amount >= 0
        <3>1. d # c /\ tx'[d] = tx[d]
            BY <1>4, <2>2 DEF LedgerInv, LedgerTypeOK
        <3>2. /\ tx[d] \in Txn
              /\ tx[d].snap <= Len(ledger)
              /\ tx[d].type \in CreditTypes => tx[d].amount >= 0
            BY <2>2, <3>1 DEF LedgerInv, LedgerTypeOK
        <3>3. QED
            BY <1>3, <1>5, <3>1, <3>2 DEF Txn
    <2>3. QED
        BY <1>5, <2>1, <2>2 DEF LedgerTypeOK
<1>7. RunningBalance'
    <2>1. SUFFICES ASSUME NEW i \in 1 .. Len(ledger) + 1
                   PROVE  ledger'[i].balanceAfter =
                            (BalanceAt(i - 1))'
                              + Signed(ledger'[i].type, ledger'[i].amount)
        BY <1>5 DEF RunningBalance, Signed
    <2>2. (BalanceAt(i - 1))' = BalanceAt(i - 1)
        BY <1>3, <1>5 DEF BalanceAt
    <2>3. CASE i = Len(ledger) + 1
        <3>1. i - 1 = Len(ledger)
            BY <1>3, <2>3
        <3>2. (BalanceAt(i - 1))' = Balance
            BY <2>2, <3>1 DEF Balance
        <3>3. QED
            BY <1>1, <1>5, <2>3, <3>2 DEF e
    <2>4. CASE i # Len(ledger) + 1
        <3>1. i \in 1 .. Len(ledger) /\ ledger'[i] = ledger[i]
            BY <1>3, <1>5, <2>4
        <3>2. QED
            BY <1>3, <2>2, <3>1 DEF LedgerInv, RunningBalance
    <2>5. QED
        BY <2>3, <2>4
<1>8. NeverNegative'
    <2>1. SUFFICES ASSUME NEW i \in 1 .. Len(ledger) + 1
                   PROVE  ledger'[i].balanceAfter >= 0
        BY <1>5 DEF NeverNegative
    <2>2. CASE i = Len(ledger) + 1
        BY <1>1, <1>5, <2>2 DEF e
    <2>3. CASE i # Len(ledger) + 1
        <3>1. i \in 1 .. Len(ledger) /\ ledger'[i] = ledger[i]
            BY <1>3, <1>5, <2>3
        <3>2. QED
            BY <1>3, <3>1 DEF LedgerInv, NeverNegative
    <2>4. QED
        BY <2>2, <2>3
<1>9. QED
    BY <1>6, <1>7, <1>8 DEF LedgerInv

\* A rollback keeps the invariant.
LEMMA AbortKeepsInv ==
    ASSUME LedgerInv, NEW c \in Caller,
           ledger' = ledger, tx' = [tx EXCEPT ![c] = None]
    PROVE  LedgerInv'
<1>1. LedgerTypeOK'
    BY DEF LedgerInv, LedgerTypeOK
<1>2. RunningBalance' /\ NeverNegative'
    BY DEF LedgerInv, RunningBalance, NeverNegative, BalanceAt
<1>3. QED
    BY <1>1, <1>2 DEF LedgerInv

\* A request of any kind starts one transaction, with an amount of the right
\* sign for its type.
LEMMA RequestBegins ==
    ASSUME NEW c \in Caller, Request(c)
    PROVE  \E type \in EntryType, amount \in Int, ref \in Ref \cup {None},
                 by \in User :
              /\ type \in CreditTypes => amount >= 0
              /\ Signed(type, amount) \in Amount \cup {-a : a \in Amount}
              /\ BeginEntry(c, type, amount, ref, by)
<1>1. PICK a \in Amount, r \in Ref, u \in User :
          \/ CreditContribution(c, r, a, u)
          \/ DebitPayout(c, r, a, u)
          \/ DebitPurchase(c, r, a, u)
          \/ \E isCredit \in BOOLEAN : CreateCorrection(c, a, isCredit, u)
    BY DEF Request
<1>2. a \in Nat /\ a > 0 /\ -a \in Int
    BY LedgerAssumption
<1> DEFINE Delta == Amount \cup {-b : b \in Amount}
<1>3. CASE CreditContribution(c, r, a, u)
    BY <1>2, <1>3 DEF CreditContribution, EntryType, CreditTypes, Signed
<1>4. CASE DebitPayout(c, r, a, u)
    BY <1>2, <1>4 DEF DebitPayout, EntryType, DebitTypes, CreditTypes, Signed
<1>5. CASE DebitPurchase(c, r, a, u)
    BY <1>2, <1>5 DEF DebitPurchase, EntryType, DebitTypes, CreditTypes, Signed
<1>6. ASSUME NEW isCredit \in BOOLEAN, CreateCorrection(c, a, isCredit, u)
      PROVE  \E type \in EntryType, amount \in Int, ref \in Ref \cup {None},
                   by \in User :
                /\ type \in CreditTypes => amount >= 0
                /\ Signed(type, amount) \in Amount \cup {-b : b \in Amount}
                /\ BeginEntry(c, type, amount, ref, by)
    <2> DEFINE amt == IF isCredit THEN a ELSE -a
    <2>1. "CORRECTION" \in EntryType /\ "CORRECTION" \notin CreditTypes
        BY DEF EntryType, DebitTypes, CreditTypes
    <2>2. amt \in Int
        BY <1>2
    <2>3. BeginEntry(c, "CORRECTION", amt, None, u)
        BY <1>6 DEF CreateCorrection
    <2>4. Signed("CORRECTION", amt) \in Delta
        <3>1. Signed("CORRECTION", amt) = -amt
            BY <2>1 DEF Signed
        <3>2. -amt = a \/ -amt = -a
            BY <1>2
        <3>3. QED
            BY <3>1, <3>2
    <2>5. QED
        BY <2>1, <2>2, <2>3, <2>4
<1>7. QED
    BY <1>1, <1>3, <1>4, <1>5, <1>6

-----------------------------------------------------------------------------

\* No step of any caller breaks the invariant.
LEMMA LedgerStepInv == LedgerInv /\ [LedgerNext]_ledgerVars => LedgerInv'
<1> SUFFICES ASSUME LedgerInv, [LedgerNext]_ledgerVars PROVE LedgerInv'
    OBVIOUS
<1>1. ASSUME NEW c \in Caller, Request(c)
      PROVE  LedgerInv'
    <2>1. PICK type \in EntryType, amount \in Int, ref \in Ref \cup {None},
                  by \in User :
              /\ type \in CreditTypes => amount >= 0
              /\ BeginEntry(c, type, amount, ref, by)
        BY <1>1, RequestBegins
    <2>2. QED
        BY <2>1, BeginKeepsInv
<1>2. ASSUME NEW c \in Caller, CommitEntry(c)
      PROVE  LedgerInv'
    BY <1>2, CommitKeepsInv
<1>3. ASSUME NEW c \in Caller, AbortEntry(c)
      PROVE  LedgerInv'
    BY <1>3, AbortKeepsInv DEF AbortEntry
<1>4. CASE UNCHANGED ledgerVars
    BY <1>4 DEF ledgerVars, LedgerInv, LedgerTypeOK, RunningBalance,
                NeverNegative, BalanceAt
<1>5. QED
    BY <1>1, <1>2, <1>3, <1>4 DEF LedgerNext

\* Rows and transactions keep their types, whatever the callers do.
THEOREM LedgerTypeCorrect == LedgerSpec => []LedgerTypeOK
<1>1. LedgerInv => LedgerTypeOK
    BY DEF LedgerInv
<1>2. QED
    BY LedgerInitInv, LedgerStepInv, <1>1, PTL DEF LedgerSpec

\* No write to the ledger is lost: every row's balance is the previous row's
\* moved by its own amount, for any number of concurrent callers.
THEOREM LedgerRunningBalance == LedgerSpec => []RunningBalance
<1>1. LedgerInv => RunningBalance
    BY DEF LedgerInv
<1>2. QED
    BY LedgerInitInv, LedgerStepInv, <1>1, PTL DEF LedgerSpec

\* The pot is never overdrawn, for any number of concurrent callers.
THEOREM LedgerNeverNegative == LedgerSpec => []NeverNegative
<1>1. LedgerInv => NeverNegative
    BY DEF LedgerInv
<1>2. QED
    BY LedgerInitInv, LedgerStepInv, <1>1, PTL DEF LedgerSpec
-----------------------------------------------------------------------------
(* The totals of getSummary. *)

\* The amounts of the first n rows on one side.
TotalUpTo(n, types) ==
    SumFunctionOnSet([i \in DOMAIN ledger |-> ledger[i].amount],
                     {i \in 1..n : ledger[i].type \in types})

\* One row more moves the total of its own side.
LEMMA TotalOfNext ==
    ASSUME LedgerTypeOK, NEW n \in 1..Len(ledger), NEW types
    PROVE  /\ TotalUpTo(n, types) =
                 TotalUpTo(n - 1, types)
                   + (IF ledger[n].type \in types THEN ledger[n].amount ELSE 0)
           /\ TotalUpTo(n - 1, types) \in Int
<1>1. PICK f : f = [i \in DOMAIN ledger |-> ledger[i].amount]
    OBVIOUS
<1>2. PICK S : S = {i \in 1 .. n - 1 : ledger[i].type \in types}
    OBVIOUS
<1>3. PICK R : R = {i \in 1..n : ledger[i].type \in types}
    OBVIOUS
<1>4. Len(ledger) \in Nat /\ DOMAIN ledger = 1..Len(ledger)
    BY DEF LedgerTypeOK
<1>5. \A i \in 1..n : f[i] = ledger[i].amount /\ f[i] \in Int
    <2>1. \A i \in 1..n : i \in DOMAIN ledger /\ ledger[i] \in Entry
        BY <1>4 DEF LedgerTypeOK
    <2>2. QED
        BY <1>1, <2>1 DEF Entry
<1>6. IsFiniteSet(S) /\ S \subseteq 1..n /\ n \notin S
    <2>1. IsFiniteSet(1 .. n - 1)
        BY <1>4, FS_Interval
    <2>2. QED
        BY <1>2, <1>4, <2>1, FS_Subset
<1>7. SumFunctionOnSet(f, S) \in Int
    BY <1>5, <1>6, SumInt
<1>8. TotalUpTo(n - 1, types) = SumFunctionOnSet(f, S)
    BY <1>1, <1>2 DEF TotalUpTo
<1>9. TotalUpTo(n, types) = SumFunctionOnSet(f, R)
    BY <1>1, <1>3 DEF TotalUpTo
<1>10. CASE ledger[n].type \in types
    <2>1. R = S \cup {n}
        BY <1>2, <1>3, <1>4, <1>10
    <2>2. SumFunctionOnSet(f, R) = SumFunctionOnSet(f, S \cup {n})
        BY ONLY <2>1
    <2>3. \A i \in S \cup {n} : f[i] \in Int
        <3>1. n \in 1..n
            BY <1>4
        <3>2. QED
            BY <1>5, <1>6, <3>1
    <2>4. SumFunctionOnSet(f, S \cup {n}) = f[n] + SumFunctionOnSet(f, S)
        BY <1>6, <2>3, SumAdd
    <2>5. f[n] = ledger[n].amount /\ f[n] \in Int
        BY <1>5
    <2>6. QED
        BY <1>7, <1>8, <1>9, <1>10, <2>2, <2>4, <2>5
<1>11. CASE ledger[n].type \notin types
    <2>1. R = S
        BY <1>2, <1>3, <1>4, <1>11
    <2>2. SumFunctionOnSet(f, R) = SumFunctionOnSet(f, S)
        BY ONLY <2>1
    <2>3. QED
        BY <1>7, <1>8, <1>9, <1>11, <2>2
<1>12. QED
    BY <1>10, <1>11

\* On every prefix of the ledger the two totals differ by the stored balance.
LEMMA SummaryFollows ==
    ASSUME LedgerInv
    PROVE  SummaryAgrees
<1> DEFINE C == {n \in 0..Len(ledger) :
                   TotalUpTo(n, CreditTypes) - TotalUpTo(n, DebitTypes) =
                      BalanceAt(n)}
<1>1. Len(ledger) \in Nat /\ DOMAIN ledger = 1..Len(ledger) /\ LedgerTypeOK
    BY DEF LedgerInv, LedgerTypeOK
<1>2. 0 \in C
    <2>1. ASSUME NEW types PROVE TotalUpTo(0, types) = 0
        <3>1. {i \in 1..0 : ledger[i].type \in types} = {}
            OBVIOUS
        <3>2. PICK f : f = [i \in DOMAIN ledger |-> ledger[i].amount]
            OBVIOUS
        <3>3. TotalUpTo(0, types) = SumFunctionOnSet(f, {})
            BY <3>1, <3>2 DEF TotalUpTo
        <3>4. QED
            BY <3>3, SumEmpty
    <2>2. /\ TotalUpTo(0, CreditTypes) = 0 /\ TotalUpTo(0, DebitTypes) = 0
          /\ BalanceAt(0) = 0
        BY <2>1 DEF BalanceAt
    <2>3. QED
        BY <1>1, <2>2
<1>3. ASSUME NEW n \in 1..Len(ledger), n - 1 \in C
      PROVE  n \in C
    <2>1. ledger[n].type \in EntryType /\ ledger[n].amount \in Int
        <3>1. ledger[n] \in Entry
            BY <1>1 DEF LedgerTypeOK
        <3>2. QED
            BY <3>1 DEF Entry
    <2>2. /\ TotalUpTo(n, CreditTypes) = TotalUpTo(n - 1, CreditTypes)
                + (IF ledger[n].type \in CreditTypes THEN ledger[n].amount ELSE 0)
          /\ TotalUpTo(n, DebitTypes) = TotalUpTo(n - 1, DebitTypes)
                + (IF ledger[n].type \in DebitTypes THEN ledger[n].amount ELSE 0)
          /\ TotalUpTo(n - 1, CreditTypes) \in Int
          /\ TotalUpTo(n - 1, DebitTypes) \in Int
        BY <1>1, TotalOfNext
    <2>3. ledger[n].type \in DebitTypes <=> ledger[n].type \notin CreditTypes
        BY <2>1 DEF EntryType, CreditTypes, DebitTypes
    <2>4. BalanceAt(n) =
             BalanceAt(n - 1) + Signed(ledger[n].type, ledger[n].amount)
        BY <1>1 DEF LedgerInv, RunningBalance, BalanceAt
    <2>5. TotalUpTo(n - 1, CreditTypes) - TotalUpTo(n - 1, DebitTypes) =
             BalanceAt(n - 1)
        BY <1>3
    <2>6. BalanceAt(n) = TotalUpTo(n, CreditTypes) - TotalUpTo(n, DebitTypes)
        BY <2>1, <2>2, <2>3, <2>4, <2>5 DEF Signed
    <2>7. QED
        BY <1>1, <2>6
<1>4. Len(ledger) \in C
    <2> HIDE DEF C
    <2>1. QED
        BY <1>1, <1>2, <1>3, PrefixInduction
<1>5. QED
    BY <1>1, <1>4 DEF SummaryAgrees, TotalCredits, TotalDebits, TotalOf,
                      TotalUpTo, Balance

\* What getSummary adds up over all rows is what getBalance reads from the
\* newest one, however many callers wrote them at the same time.
THEOREM LedgerSummaryAgrees == LedgerSpec => []SummaryAgrees
<1>1. LedgerInv => SummaryAgrees
    BY SummaryFollows
<1>2. QED
    BY LedgerInitInv, LedgerStepInv, <1>1, PTL DEF LedgerSpec
-----------------------------------------------------------------------------
(* The refinement of AtomicPot. *)

\* What the callers have asked for, as AtomicPot sees it.
Wanted == [c \in Caller |-> IF tx[c] = None THEN None
                            ELSE Signed(tx[c].type, tx[c].amount)]

\* Opening and closing a transaction changes what one caller has asked for.
LEMMA WantedAfter ==
    ASSUME LedgerTypeOK, NEW c \in Caller, NEW t \in Txn \cup {None},
           tx' = [tx EXCEPT ![c] = t]
    PROVE  Wanted' = [Wanted EXCEPT ![c] =
                        IF t = None THEN None ELSE Signed(t.type, t.amount)]
BY DEF Wanted, LedgerTypeOK, Signed

\* A group starts with an empty pot and nobody asking.
LEMMA PotStarts == LedgerInit => Pot!Init
<1> SUFFICES ASSUME LedgerInit PROVE Pot!Init
    OBVIOUS
<1>1. Balance = 0
    <2>1. CASE ledger = <<>>
        BY <2>1 DEF Balance, BalanceAt
    <2>2. CASE \E u \in User : ledger = <<OpeningEntry(u)>>
        BY <2>2 DEF Balance, BalanceAt, OpeningEntry
    <2>3. QED
        BY <2>1, <2>2 DEF LedgerInit
<1>2. Wanted = [c \in Caller |-> None]
    BY DEF Wanted, LedgerInit
<1>3. QED
    BY <1>1, <1>2 DEF Pot!Init, Wanted

\* Starting a transaction is asking; committing is the atomic change; rolling
\* back is a refusal.
LEMMA PotMoves ==
    LedgerInv /\ [LedgerNext]_ledgerVars => [Pot!Next]_(Pot!potVars)
<1> SUFFICES ASSUME LedgerInv, [LedgerNext]_ledgerVars
             PROVE  [Pot!Next]_(Pot!potVars)
    OBVIOUS
<1> DEFINE Deltas == Amount \cup {-a : a \in Amount}
<1>0. LedgerTypeOK
    BY DEF LedgerInv
<1>1. ASSUME NEW c \in Caller, Request(c)
      PROVE  \E d \in Deltas : Pot!Ask(c, d)
    <2>1. PICK type \in EntryType, amount \in Int, ref \in Ref \cup {None},
                  by \in User :
              /\ Signed(type, amount) \in Deltas
              /\ BeginEntry(c, type, amount, ref, by)
        BY <1>1, RequestBegins
    <2> DEFINE t == [type |-> type, amount |-> amount, ref |-> ref, by |-> by,
                     snap |-> Len(ledger)]
    <2>2. t \in Txn /\ t # None
        BY <1>0, LedgerAssumption DEF Txn, LedgerTypeOK
    <2>3. tx' = [tx EXCEPT ![c] = t] /\ ledger' = ledger /\ tx[c] = None
        BY <2>1 DEF BeginEntry
    <2>4. Wanted' = [Wanted EXCEPT ![c] = Signed(type, amount)]
        <3>1. t.type = type /\ t.amount = amount
            OBVIOUS
        <3> HIDE DEF t
        <3>2. Wanted' = [Wanted EXCEPT ![c] = IF t = None THEN None
                                              ELSE Signed(t.type, t.amount)]
            BY <1>0, <2>2, <2>3, WantedAfter
        <3>3. QED
            BY <2>2, <3>1, <3>2
    <2>5. Wanted[c] = None
        BY <2>3 DEF Wanted
    <2>6. Balance' = Balance
        BY <2>3 DEF Balance, BalanceAt
    <2>7. Pot!Ask(c, Signed(type, amount))
        BY <2>4, <2>5, <2>6 DEF Pot!Ask, Wanted
    <2>8. QED
        BY <2>1, <2>7
<1>2. ASSUME NEW c \in Caller, CommitEntry(c)
      PROVE  Pot!Apply(c)
    <2>1. /\ tx[c] \in Txn
          /\ NewBalance(tx[c]) = Balance + Signed(tx[c].type, tx[c].amount)
          /\ NewBalance(tx[c]) \in Int
          /\ NewBalance(tx[c]) >= 0
        BY <1>2, CommitEffect
    <2>2. tx[c] # None
        BY <1>2 DEF CommitEntry
    <2>3. Wanted[c] = Signed(tx[c].type, tx[c].amount)
        BY <2>2 DEF Wanted
    <2>4. Wanted[c] # None
        BY <2>1, <2>3, LedgerAssumption, SignedType DEF Txn
    <2>5. Wanted' = [Wanted EXCEPT ![c] = None]
        BY <1>0, <1>2, WantedAfter DEF CommitEntry
    <2>6. Balance' = NewBalance(tx[c])
        <3> DEFINE e == [type |-> tx[c].type, amount |-> tx[c].amount,
                         balanceAfter |-> NewBalance(tx[c]),
                         ref |-> tx[c].ref, by |-> tx[c].by]
        <3>1. e \in Entry
            BY <2>1 DEF Txn, Entry
        <3>2. ledger' = Append(ledger, e)
            BY <1>2 DEF CommitEntry
        <3>3. Len(ledger') = Len(ledger) + 1 /\ ledger'[Len(ledger')] = e
            BY <1>0, <3>1, <3>2, BalanceAfterAppend DEF LedgerTypeOK
        <3>4. Len(ledger) \in Nat
            BY <1>0 DEF LedgerTypeOK
        <3>5. QED
            BY <3>3, <3>4 DEF Balance, BalanceAt
    <2>7. QED
        BY <2>1, <2>3, <2>4, <2>5, <2>6 DEF Pot!Apply, Wanted
<1>3. ASSUME NEW c \in Caller, AbortEntry(c)
      PROVE  Pot!Refuse(c)
    <2>1. tx[c] \in Txn /\ tx[c] # None /\ ledger' = ledger
        BY <1>0, <1>3 DEF AbortEntry, LedgerTypeOK
    <2>2. Wanted[c] # None
        BY <2>1, LedgerAssumption, SignedType DEF Txn, Wanted
    <2>3. Wanted' = [Wanted EXCEPT ![c] = None]
        BY <1>0, <1>3, WantedAfter DEF AbortEntry
    <2>4. Balance' = Balance
        BY <2>1 DEF Balance, BalanceAt
    <2>5. QED
        BY <2>2, <2>3, <2>4 DEF Pot!Refuse, Wanted
<1>4. CASE UNCHANGED ledgerVars
    BY <1>4 DEF ledgerVars, Pot!potVars, Balance, BalanceAt
<1>5. QED
    BY <1>1, <1>2, <1>3, <1>4 DEF LedgerNext, Pot!Next

\* The ledger implements the atomic pot: concurrent calls of createEntry have
\* the effect of calls made one after another, each of them all or nothing.
THEOREM LedgerImplementsPot == LedgerSpec => ImplementsPot
BY LedgerInitInv, LedgerStepInv, PotStarts, PotMoves, PTL
   DEF LedgerSpec, ImplementsPot, Pot!Spec
=============================================================================
