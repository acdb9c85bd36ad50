-------------------------- MODULE WalletLedgerProofs --------------------------
(***************************************************************************)
(* Theorems about what the ledger records and what balances tell: for      *)
(* every set of requests, wallets and keys and every choice of failures.   *)
(***************************************************************************)
EXTENDS WalletOutcomeProofs

------------------------------------------------------------------------------
(* What a commit appends to the ledger.                                    *)

\* The wallets a posting has a row for are those it touches; the row starts
\* from the balance read and names its log row.
LEMMA LegOfPosting ==
  ASSUME NEW i, NEW id, NEW rows, NEW w \in WalletIds, Posting(i)
  PROVE  /\ Legs(i, id, rows)[w] = None \/ Takes(i, w) \/ Gives(i, w)
         /\ Takes(i, w) \/ Gives(i, w) =>
              /\ w \in Touched(i)
              /\ Legs(i, id, rows)[w].log = id
              /\ Legs(i, id, rows)[w].before = rows[w]
              /\ Legs(i, id, rows)[w].amount = Format(i.amount)
              /\ Legs(i, id, rows)[w].type = ExpectedType(i, w)
<1>1. Takes(i, w) \/ Gives(i, w) => w \in Touched(i)
  BY DEF Takes, Gives, Touched
<1>2. CASE Takes(i, w)
  <2>1. Legs(i, id, rows)[w] = DebitLeg(i, id, rows[w])
    BY <1>2 DEF Legs
  <2> QED BY <1>1, <1>2, <2>1 DEF DebitLeg, ExpectedType
<1>3. CASE ~Takes(i, w) /\ Gives(i, w)
  <2>1. Legs(i, id, rows)[w] = CreditLeg(i, id, rows[w])
    BY <1>3 DEF Legs
  <2> QED BY <1>1, <1>3, <2>1 DEF CreditLeg, ExpectedType
<1>4. CASE ~Takes(i, w) /\ ~Gives(i, w)
  BY <1>4 DEF Legs
<1> QED BY <1>2, <1>3, <1>4

\* A commit appends one row to the ledger of every wallet it moves money of or
\* to, from the balance the wallet has, and leaves the others.
LEMMA CommitAppends ==
  ASSUME IInv, NEW r \in Requests, Ends(r), NEW w \in WalletIds
  PROVE  \/ /\ Takes(req[r], w) \/ Gives(req[r], w)
            /\ \E e \in Entry :
                 /\ ledgers'[w] = Append(ledgers[w], e)
                 /\ e.log = r /\ e.before = balance[w] /\ e.after = balance'[w]
                 /\ e.amount = Format(req[r].amount)
                 /\ e.type = ExpectedType(req[r], w)
            /\ balance[w] # None
         \/ /\ ~Takes(req[r], w) /\ ~Gives(req[r], w)
            /\ ledgers'[w] = ledgers[w] /\ balance'[w] = balance[w]
<1>1. /\ TypeOK /\ pc[r] = "commit" /\ Publish(r) /\ Posting(req[r])
  BY CommitRow DEF IInv
<1>2. /\ writes[r] = Legs(req[r], r, seen[r])
      /\ \A v \in Touched(req[r]) : seen[r][v] # None
  BY <1>1 DEF IInv, Postable, Prepared, Written
<1>3. CASE Takes(req[r], w) \/ Gives(req[r], w)
  <2>1. /\ w \in Touched(req[r])
        /\ writes[r][w].log = r /\ writes[r][w].before = seen[r][w]
        /\ writes[r][w].amount = Format(req[r].amount)
        /\ writes[r][w].type = ExpectedType(req[r], w)
    BY <1>1, <1>2, <1>3, LegOfPosting
  <2>2. seen[r][w] = balance[w] /\ balance[w] # None
    BY <1>2, <2>1 DEF IInv, Locking, LockedReadsAreCurrent
  <2>3. writes[r] \in [WalletIds -> Entry \cup {None}]
    BY <1>1 DEF TypeOK
  <2>4. writes[r][w] # None
    <3>1. writes[r][w] = DebitLeg(req[r], r, seen[r][w])
          \/ writes[r][w] = CreditLeg(req[r], r, seen[r][w])
      BY <1>2, <1>3 DEF Legs
    <3>2. req[r] \in Inputs /\ seen[r][w] \in Int
      BY <1>1, <2>1, <1>2 DEF TypeOK, Amounts
    <3>3. DebitLeg(req[r], r, seen[r][w]) \in Entry
      BY <3>2, InputType, RoundingInt DEF DebitLeg, Entry, Format, Subtract
    <3>4. CreditLeg(req[r], r, seen[r][w]) \in Entry
      BY <3>2, InputType, RoundingInt DEF CreditLeg, Entry, Format, Add
    <3> QED BY <3>1, <3>3, <3>4, RowsAssumption
  <2>5. writes[r][w] \in Entry
    BY <2>3, <2>4
  <2>6. /\ ledgers'[w] = Append(ledgers[w], writes[r][w])
        /\ balance'[w] = writes[r][w].after
    BY <1>1, <2>4 DEF Publish, PostedLedgers, PostedBalance
  <2> QED BY <1>3, <2>1, <2>2, <2>5, <2>6
<1>4. CASE ~Takes(req[r], w) /\ ~Gives(req[r], w)
  <2>1. writes[r][w] = None
    BY <1>1, <1>2, <1>4, LegOfPosting
  <2> QED BY <1>1, <1>4, <2>1 DEF Publish, PostedLedgers, PostedBalance
<1> QED BY <1>3, <1>4

\* The rows of a sequence that grows by one.
LEMMA AppendedRows ==
  ASSUME NEW s \in Seq(Entry), NEW e \in Entry
  PROVE  /\ Append(s, e) \in Seq(Entry)
         /\ Len(s) \in Nat /\ DOMAIN s = 1 .. Len(s)
         /\ DOMAIN Append(s, e) = DOMAIN s \cup {Len(s) + 1}
         /\ Len(s) + 1 \notin DOMAIN s
         /\ \A n \in DOMAIN s : n \in Nat /\ n < Len(s) + 1
         /\ \A n \in DOMAIN s : Append(s, e)[n] = s[n]
         /\ Append(s, e)[Len(s) + 1] = e
  OBVIOUS

\* What createWallet does to a ledger: nothing, or one opening row.
LEMMA OpeningAppends ==
  ASSUME IInv, NEW r \in Requests, OpenLedger(r), NEW w \in WalletIds
  PROVE  \/ ledgers'[w] = ledgers[w]
         \/ /\ w = req[r].wallet
            /\ \E e \in Entry : e.log = None /\ ledgers'[w] = Append(ledgers[w], e)
<1> DEFINE e == OpeningEntry(req[r].amount)
<1>1. ledgers \in [WalletIds -> Seq(Entry)] /\ req[r] \in Inputs
  BY DEF IInv, TypeOK
<1>2. e \in Entry /\ e.log = None
  <2>1. req[r].amount \in Int
    BY <1>1, InputType
  <2> QED BY <2>1, OpeningEntryType DEF OpeningEntry
<1>3. \/ ledgers' = ledgers
      \/ ledgers' = [ledgers EXCEPT ![req[r].wallet] =
                       Append(ledgers[req[r].wallet], e)]
  BY DEF OpenLedger
<1> HIDE DEF e
<1> QED BY <1>1, <1>2, <1>3

------------------------------------------------------------------------------
(* Wallets and their ledgers.                                              *)

\* A wallet that is not there has no rows.
RowsNeedWallets == \A w \in WalletIds : balance[w] = None => ledgers[w] = <<>>

\* A wallet being opened is there.
WalletsComeFirst == Opened /\ RowsNeedWallets

LEMMA InitWallets == Init => WalletsComeFirst
  BY DEF Init, WalletsComeFirst, Opened, RowsNeedWallets, OpeningRows

\* What the insert of a wallet row does.
LEMMA InsertedWallet ==
  ASSUME IInv, NEW r \in Requests, InsertWallet(r)
  PROVE  /\ req[r].wallet \in WalletIds
         /\ balance[req[r].wallet] = None /\ balance'[req[r].wallet] # None
         /\ \A w \in WalletIds : w # req[r].wallet => balance'[w] = balance[w]
         /\ UNCHANGED <<ledgers, logs>>
<1>1. req[r] \in Inputs /\ req[r].wallet \in WalletIds
  BY InputType DEF IInv, TypeOK
<1>2. Format(req[r].amount) # None
  BY <1>1, InputType, RoundingInt, NamesAssumption DEF Format
<1> QED
  BY <1>1, <1>2 DEF InsertWallet, IInv, TypeOK

LEMMA WalletsStep ==
  ASSUME IInv, WalletsComeFirst, [Next]_vars
  PROVE  WalletsComeFirst'
<1>1. TypeOK /\ req' = req /\ Opened /\ RowsNeedWallets
  BY DatabaseSteps DEF IInv, WalletsComeFirst
<1>2. \A w \in WalletIds : balance[w] # None => balance'[w] # None
  BY HistoryStep DEF Extends
<1>3. Opened'
  BY <1>1, OpenedStep
<1>4. ASSUME NEW w \in WalletIds, balance'[w] = None
      PROVE  ledgers'[w] = <<>>
  <2>1. balance[w] = None /\ ledgers[w] = <<>>
    BY <1>1, <1>2, <1>4 DEF RowsNeedWallets
  <2>2. CASE UNCHANGED dbVars
    BY <2>1, <2>2 DEF dbVars
  <2>3. ASSUME NEW r \in Requests, Ends(r)
        PROVE  ledgers'[w] = <<>>
    BY <2>1, <2>3, CommitAppends
  <2>4. ASSUME NEW r \in Requests, InsertWallet(r)
        PROVE  ledgers'[w] = <<>>
    BY <2>1, <2>4, InsertedWallet
  <2>5. ASSUME NEW r \in Requests, OpenLedger(r)
        PROVE  ledgers'[w] = <<>>
    <3>1. w # req[r].wallet
      BY <1>1, <2>1, <2>5 DEF Opened, OpenLedger
    <3> QED BY <2>1, <2>5, <3>1, OpeningAppends
  <2> QED BY <2>2, <2>3, <2>4, <2>5, DatabaseSteps
<1> QED
  BY <1>3, <1>4 DEF WalletsComeFirst, RowsNeedWallets

------------------------------------------------------------------------------
(* The chain of balances.                                                  *)

\* The postings after the n-th row.
Later(s, n) == {m \in DOMAIN s : m > n /\ Posted(s[m])}

\* The rows of postings follow one another up to the balance.
Chained(s, bal) ==
  \A n \in DOMAIN s : Posted(s[n]) =>
    \/ Later(s, n) = {} /\ s[n].after = bal
    \/ \E m \in Later(s, n) : /\ \A i \in Later(s, n) : m <= i
                              /\ s[m].before = s[n].after

LEMMA ChainOfLedger == LedgerChain <=> \A w \in WalletIds : Chained(ledgers[w], balance[w])
  BY DEF LedgerChain, Chained, Later

\* A posting from the balance of now prolongs the chain.
LEMMA PostingProlongs ==
  ASSUME NEW s \in Seq(Entry), NEW e \in Entry, NEW bal,
         Chained(s, bal), Posted(e), e.before = bal
  PROVE  Chained(Append(s, e), e.after)
<1> DEFINE t == Append(s, e)
           top == Len(s) + 1
<1>1. /\ top \in Nat /\ DOMAIN t = DOMAIN s \cup {top} /\ top \notin DOMAIN s
      /\ \A n \in DOMAIN s : n \in Nat /\ n < top
      /\ \A n \in DOMAIN s : t[n] = s[n]
      /\ t[top] = e
  BY AppendedRows
<1> HIDE DEF t, top
<1>2. Later(t, top) = {}
  BY <1>1 DEF Later
<1>3. ASSUME NEW n \in DOMAIN s
      PROVE  Later(t, n) = Later(s, n) \cup {top}
  BY <1>1, <1>3 DEF Later
<1>4. ASSUME NEW n \in DOMAIN s, Posted(s[n])
      PROVE  \E m \in Later(t, n) : /\ \A i \in Later(t, n) : m <= i
                                    /\ t[m].before = t[n].after
  <2>1. CASE Later(s, n) = {} /\ s[n].after = bal
    <3>1. Later(t, n) = {top} /\ t[top].before = t[n].after /\ top <= top
      BY <1>1, <1>3, <2>1
    <3> QED BY <3>1
  <2>2. ASSUME NEW m \in Later(s, n), \A i \in Later(s, n) : m <= i,
               s[m].before = s[n].after
        PROVE  \E j \in Later(t, n) : /\ \A i \in Later(t, n) : j <= i
                                      /\ t[j].before = t[n].after
    <3>1. m \in DOMAIN s
      BY DEF Later
    <3>2. m <= top
      BY <1>1, <3>1
    <3>3. m \in Later(t, n) /\ \A i \in Later(t, n) : m <= i
      BY <1>3, <2>2, <3>2
    <3>4. t[m].before = t[n].after
      BY <1>1, <2>2, <3>1
    <3> QED BY <3>3, <3>4
  <2> QED BY <1>4, <2>1, <2>2 DEF Chained
<1>5. \A n \in DOMAIN s : Posted(t[n]) => Posted(s[n])
  BY <1>1
<1>6. Chained(t, e.after)
  BY <1>1, <1>2, <1>4, <1>5 DEF Chained
<1> QED BY <1>6 DEF t

\* An opening row is no link of the chain.
LEMMA OpeningKeepsChain ==
  ASSUME NEW s \in Seq(Entry), NEW e \in Entry, NEW bal,
         Chained(s, bal), ~Posted(e)
  PROVE  Chained(Append(s, e), bal)
<1> DEFINE t == Append(s, e)
           top == Len(s) + 1
<1>1. /\ DOMAIN t = DOMAIN s \cup {top} /\ top \notin DOMAIN s
      /\ \A n \in DOMAIN s : t[n] = s[n]
      /\ t[top] = e
  BY AppendedRows
<1> HIDE DEF t, top
<1>2. \A n \in DOMAIN s : Later(t, n) = Later(s, n)
  BY <1>1 DEF Later
<1>3. \A n \in DOMAIN s : \A m \in Later(s, n) : t[m] = s[m]
  BY <1>1 DEF Later
<1>4. Chained(t, bal)
  BY <1>1, <1>2, <1>3 DEF Chained
<1> QED BY <1>4 DEF t

LEMMA InitChain == Init => LedgerChain
<1> SUFFICES ASSUME Init, NEW w \in WalletIds
             PROVE  Chained(ledgers[w], balance[w])
  BY ChainOfLedger
<1>1. \A n \in DOMAIN ledgers[w] : ~Posted(ledgers[w][n])
  BY DEF Init, OpeningRows, OpeningEntry, Posted
<1> QED BY <1>1 DEF Chained

LEMMA ChainStep ==
  ASSUME IInv, WalletsComeFirst, LedgerChain, [Next]_vars
  PROVE  LedgerChain'
<1>1. \A w \in WalletIds : ledgers[w] \in Seq(Entry)
  BY DEF IInv, TypeOK
<1>2. ASSUME NEW w \in WalletIds
      PROVE  Chained(ledgers[w], balance[w])'
  <2>1. Chained(ledgers[w], balance[w])
    BY ChainOfLedger
  <2>2. CASE ledgers'[w] = ledgers[w] /\ balance'[w] = balance[w]
    BY <2>1, <2>2 DEF Chained, Later
  <2>3. ASSUME NEW e \in Entry, ledgers'[w] = Append(ledgers[w], e),
               Posted(e), e.before = balance[w], e.after = balance'[w]
        PROVE  Chained(ledgers[w], balance[w])'
    <3>1. Chained(Append(ledgers[w], e), e.after)
      BY <1>1, <2>1, <2>3, PostingProlongs
    <3> QED BY <2>3, <3>1 DEF Chained, Later, Posted
  <2>4. ASSUME NEW e \in Entry, ledgers'[w] = Append(ledgers[w], e),
               ~Posted(e), balance'[w] = balance[w]
        PROVE  Chained(ledgers[w], balance[w])'
    <3>1. Chained(Append(ledgers[w], e), balance[w])
      BY <1>1, <2>1, <2>4, OpeningKeepsChain
    <3> QED BY <2>4, <3>1 DEF Chained, Later, Posted
  <2>5. ASSUME NEW r \in Requests, Ends(r)
        PROVE  Chained(ledgers[w], balance[w])'
    <3>1. r # None
      BY NamesAssumption
    <3>2. \/ \E e \in Entry : /\ ledgers'[w] = Append(ledgers[w], e)
                              /\ e.log = r /\ e.before = balance[w]
                              /\ e.after = balance'[w]
          \/ ledgers'[w] = ledgers[w] /\ balance'[w] = balance[w]
      BY <2>5, CommitAppends
    <3> QED BY <2>2, <2>3, <3>1, <3>2 DEF Posted
  <2>6. ASSUME NEW r \in Requests, InsertWallet(r)
        PROVE  Chained(ledgers[w], balance[w])'
    <3>1. CASE w = req[r].wallet
      <4>1. ledgers'[w] = <<>>
        BY <2>6, <3>1, InsertedWallet DEF WalletsComeFirst, RowsNeedWallets
      <4> QED BY <4>1 DEF Chained
    <3>2. CASE w # req[r].wallet
      BY <2>2, <2>6, <3>2, InsertedWallet
    <3> QED BY <3>1, <3>2
  <2>7. ASSUME NEW r \in Requests, OpenLedger(r)
        PROVE  Chained(ledgers[w], balance[w])'
    <3>1. balance' = balance
      BY <2>7 DEF OpenLedger
    <3>2. \/ \E e \in Entry : ledgers'[w] = Append(ledgers[w], e) /\ e.log = None
          \/ ledgers'[w] = ledgers[w]
      BY <2>7, OpeningAppends
    <3> QED BY <2>2, <2>4, <3>1, <3>2 DEF Posted
  <2> QED
    BY <2>2, <2>5, <2>6, <2>7, DatabaseSteps DEF dbVars
<1>3. (\A w \in WalletIds : Chained(ledgers[w], balance[w]))'
  BY <1>2
<1> QED
  BY <1>3 DEF LedgerChain, Chained, Later

\* Each posting in a ledger starts from the balance the one before it left,
\* and the last one left the balance of the wallet.
THEOREM LedgersAreChains == Spec => []LedgerChain
<1>1. Init => IInv /\ WalletsComeFirst /\ LedgerChain
  BY InitInv, InitWallets, InitChain
<1>2. IInv /\ WalletsComeFirst /\ LedgerChain /\ [Next]_vars => (IInv /\ WalletsComeFirst /\ LedgerChain)'
  BY InductiveStep, WalletsStep, ChainStep
<1> QED
  BY <1>1, <1>2, PTL DEF Spec

------------------------------------------------------------------------------
(* Each posting once.                                                      *)

\* The rows of a ledger that name a log row.
Marked(s, id) == {n \in DOMAIN s : s[n].log = id}

LEMMA MarkedAppend ==
  ASSUME NEW s \in Seq(Entry), NEW e \in Entry, NEW id
  PROVE  Marked(Append(s, e), id) =
           IF e.log = id THEN Marked(s, id) \cup {Len(s) + 1} ELSE Marked(s, id)
<1> DEFINE t == Append(s, e)
           top == Len(s) + 1
<1>1. /\ DOMAIN t = DOMAIN s \cup {top} /\ top \notin DOMAIN s
      /\ \A n \in DOMAIN s : t[n] = s[n]
      /\ t[top] = e
  BY AppendedRows
<1> HIDE DEF t, top
<1>2. Marked(t, id) = IF e.log = id THEN Marked(s, id) \cup {top} ELSE Marked(s, id)
  BY <1>1 DEF Marked
<1> QED BY <1>2 DEF t, top

\* What PostedExactlyOnce asks of a log row and a wallet.
Recorded(row, w) ==
  LET i == req[row.id] IN
  IF Takes(i, w) \/ Gives(i, w)
    THEN \E n \in DOMAIN ledgers[w] :
           /\ Marked(ledgers[w], row.id) = {n}
           /\ ledgers[w][n].type = ExpectedType(i, w)
           /\ ledgers[w][n].amount = row.amount
    ELSE Marked(ledgers[w], row.id) = {}

EachRecorded ==
  \A k \in KeySpace : logs[k] # None =>
    logs[k].status = "COMPLETED" /\ \A w \in WalletIds : Recorded(logs[k], w)

EachLogged ==
  \A w \in WalletIds : \A n \in DOMAIN ledgers[w] :
    Posted(ledgers[w][n]) =>
      \E k \in KeySpace : logs[k] # None /\ logs[k].id = ledgers[w][n].log

LEMMA OnceIsBoth == PostedExactlyOnce <=> EachRecorded /\ EachLogged
  BY DEF PostedExactlyOnce, EachRecorded, EachLogged, Recorded, Marked, RowsOf

LEMMA InitOnce == Init => EachRecorded /\ EachLogged
<1> SUFFICES ASSUME Init PROVE EachRecorded /\ EachLogged
  OBVIOUS
<1>1. \A w \in WalletIds : \A n \in DOMAIN ledgers[w] : ~Posted(ledgers[w][n])
  BY DEF Init, OpeningRows, OpeningEntry, Posted
<1> QED BY <1>1 DEF Init, EachRecorded, EachLogged

\* A ledger stays or gets one row: a commit's, or an opening row.
LEMMA LedgerSteps ==
  ASSUME IInv, [Next]_vars, NEW w \in WalletIds
  PROVE  \/ ledgers'[w] = ledgers[w]
         \/ \E e \in Entry :
              /\ ledgers'[w] = Append(ledgers[w], e)
              /\ \/ \E r \in Requests : Ends(r) /\ e.log = r
                 \/ e.log = None /\ \E r \in Requests : OpenLedger(r) /\ w = req[r].wallet
<1>1. ASSUME NEW r \in Requests, Ends(r)
      PROVE  \/ ledgers'[w] = ledgers[w]
             \/ \E e \in Entry : ledgers'[w] = Append(ledgers[w], e) /\ e.log = r
  BY <1>1, CommitAppends
<1>2. ASSUME NEW r \in Requests, OpenLedger(r)
      PROVE  \/ ledgers'[w] = ledgers[w]
             \/ /\ w = req[r].wallet
                /\ \E e \in Entry : ledgers'[w] = Append(ledgers[w], e) /\ e.log = None
  BY <1>2, OpeningAppends
<1>3. ASSUME NEW r \in Requests, InsertWallet(r)
      PROVE  ledgers'[w] = ledgers[w]
  BY <1>3 DEF InsertWallet
<1>4. CASE UNCHANGED dbVars
  BY <1>4 DEF dbVars
<1> QED BY <1>1, <1>2, <1>3, <1>4, DatabaseSteps

\* A request that is over has the rows it had.
LEMMA RowsKept ==
  ASSUME IInv, [Next]_vars, NEW w \in WalletIds
  PROVE  /\ \A n \in DOMAIN ledgers[w] :
              n \in DOMAIN ledgers'[w] /\ ledgers'[w][n] = ledgers[w][n]
         /\ \A id \in Requests : pc[id] = "done" =>
              Marked(ledgers'[w], id) = Marked(ledgers[w], id)
<1>1. ledgers[w] \in Seq(Entry)
  BY DEF IInv, TypeOK
<1>2. CASE ledgers'[w] = ledgers[w]
  BY <1>2
<1>3. ASSUME NEW e \in Entry, ledgers'[w] = Append(ledgers[w], e),
             \/ \E r \in Requests : Ends(r) /\ e.log = r
             \/ e.log = None
      PROVE  /\ \A n \in DOMAIN ledgers[w] :
                  n \in DOMAIN ledgers'[w] /\ ledgers'[w][n] = ledgers[w][n]
             /\ \A id \in Requests : pc[id] = "done" =>
                  Marked(ledgers'[w], id) = Marked(ledgers[w], id)
  <2>1. \A n \in DOMAIN ledgers[w] :
          n \in DOMAIN ledgers'[w] /\ ledgers'[w][n] = ledgers[w][n]
    BY <1>1, <1>3, AppendedRows
  <2>2. ASSUME NEW id \in Requests, pc[id] = "done"
        PROVE  e.log # id
    BY <1>3, <2>2, CommitRow, NamesAssumption
  <2> QED BY <1>1, <1>3, <2>1, <2>2, MarkedAppend
<1> QED BY <1>2, <1>3, LedgerSteps

LEMMA OnceStep ==
  ASSUME IInv, EachRecorded, EachLogged, [Next]_vars
  PROVE  EachRecorded' /\ EachLogged'
<1>1. /\ TypeOK /\ req' = req
      /\ \A w \in WalletIds : ledgers[w] \in Seq(Entry)
  BY DatabaseSteps DEF IInv, TypeOK
<1>2. ASSUME NEW k \in KeySpace, logs[k] # None
      PROVE  logs'[k].status = "COMPLETED" /\ \A w \in WalletIds : Recorded(logs[k], w)'
  <2>1. logs'[k] = logs[k] /\ logs[k].status = "COMPLETED"
    BY <1>2, LogsGrow DEF EachRecorded
  <2>2. logs[k].id \in Requests /\ pc[logs[k].id] = "done"
    BY <1>1, <1>2 DEF TypeOK, LogRow, IInv, Postable, LogsAreOver
  <2>3. ASSUME NEW w \in WalletIds
        PROVE  Recorded(logs[k], w)'
    <3>1. Recorded(logs[k], w)
      BY <1>2 DEF EachRecorded
    <3>2. Marked(ledgers'[w], logs[k].id) = Marked(ledgers[w], logs[k].id)
      BY <2>2, RowsKept
    <3>3. \A n \in DOMAIN ledgers[w] :
            n \in DOMAIN ledgers'[w] /\ ledgers'[w][n] = ledgers[w][n]
      BY RowsKept
    <3> QED BY <1>1, <2>1, <3>1, <3>2, <3>3 DEF Recorded
  <2> QED BY <2>1, <2>3
<1>3. ASSUME NEW r \in Requests, Ends(r)
      PROVE  txLog[r].status = "COMPLETED"
             /\ \A k \in KeySpace : logs'[k] = txLog[r] =>
                  \A w \in WalletIds : Recorded(logs[k], w)'
  <2>1. /\ pc[r] = "commit" /\ txLog[r].id = r /\ txLog[r].status = "COMPLETED"
        /\ txLog[r].amount = Format(req[r].amount)
    BY <1>3, CommitRow
  <2>2. ASSUME NEW w \in WalletIds
        PROVE  Marked(ledgers[w], r) = {}
    <3>1. SUFFICES ASSUME NEW n \in DOMAIN ledgers[w], ledgers[w][n].log = r
                   PROVE  FALSE
      BY DEF Marked
    <3>2. PICK k \in KeySpace : logs[k] # None /\ logs[k].id = r
      BY <3>1, NamesAssumption DEF EachLogged, Posted
    <3> QED BY <2>1, <3>2 DEF IInv, Postable, LogsAreOver
  <2>3. ASSUME NEW k \in KeySpace, logs'[k] = txLog[r], NEW w \in WalletIds
        PROVE  Recorded(logs[k], w)'
    <3>1. CASE Takes(req[r], w) \/ Gives(req[r], w)
      <4>1. PICK e \in Entry : /\ ledgers'[w] = Append(ledgers[w], e)
                               /\ e.log = r
                               /\ e.amount = Format(req[r].amount)
                               /\ e.type = ExpectedType(req[r], w)
        BY <1>3, <3>1, CommitAppends
      <4> DEFINE n == Len(ledgers[w]) + 1
      <4>2. n \in DOMAIN ledgers'[w] /\ ledgers'[w][n] = e
        BY <1>1, <4>1, AppendedRows
      <4>3. Marked(ledgers'[w], r) = {n}
        <5>1. Marked(Append(ledgers[w], e), r) = Marked(ledgers[w], r) \cup {n}
          BY <1>1, <4>1, MarkedAppend
        <5>2. Marked(ledgers[w], r) = {}
          BY <2>2
        <5> QED BY <4>1, <5>1, <5>2
      <4> HIDE DEF n
      <4> QED BY <1>1, <2>1, <2>3, <3>1, <4>1, <4>2, <4>3 DEF Recorded
    <3>2. CASE ~Takes(req[r], w) /\ ~Gives(req[r], w)
      <4>1. ledgers'[w] = ledgers[w]
        BY <1>3, <3>2, CommitAppends
      <4> QED BY <1>1, <2>1, <2>2, <2>3, <3>2, <4>1 DEF Recorded
    <3> QED BY <3>1, <3>2
  <2> QED BY <2>1, <2>3
<1>4. EachRecorded'
  <2>1. ASSUME NEW k \in KeySpace, logs'[k] # None
        PROVE  logs'[k].status = "COMPLETED" /\ \A w \in WalletIds : Recorded(logs[k], w)'
    <3>1. CASE logs[k] # None
      BY <1>2, <3>1
    <3>2. CASE logs[k] = None
      <4>1. PICK r \in Requests : Ends(r) /\ logs'[k] = txLog[r]
        BY <2>1, <3>2, LogsGrow
      <4> QED BY <1>3, <4>1
    <3> QED BY <3>1, <3>2
  <2> QED BY <2>1 DEF EachRecorded
<1>5. EachLogged'
  <2>1. ASSUME NEW w \in WalletIds, NEW n \in DOMAIN ledgers'[w], Posted(ledgers'[w][n])
        PROVE  \E k \in KeySpace : logs'[k] # None /\ logs'[k].id = ledgers'[w][n].log
    <3>1. CASE n \in DOMAIN ledgers[w]
      <4>1. ledgers'[w][n] = ledgers[w][n]
        BY <3>1, RowsKept
      <4>2. PICK k \in KeySpace : logs[k] # None /\ logs[k].id = ledgers[w][n].log
        BY <2>1, <3>1, <4>1 DEF EachLogged
      <4> QED BY <4>1, <4>2, LogsGrow
    <3>2. CASE n \notin DOMAIN ledgers[w]
      <4>1. PICK e \in Entry :
              /\ ledgers'[w] = Append(ledgers[w], e)
              /\ \/ \E r \in Requests : Ends(r) /\ e.log = r
                 \/ e.log = None
        BY <2>1, <3>2, LedgerSteps
      <4>2. ledgers'[w][n] = e
        <5>1. DOMAIN Append(ledgers[w], e) = DOMAIN ledgers[w] \cup {Len(ledgers[w]) + 1}
              /\ Append(ledgers[w], e)[Len(ledgers[w]) + 1] = e
          BY <1>1, AppendedRows
        <5> QED BY <2>1, <3>2, <4>1, <5>1
      <4>3. PICK r \in Requests : Ends(r) /\ e.log = r
        BY <2>1, <4>1, <4>2 DEF Posted
      <4> QED BY <4>2, <4>3, CommitRow
    <3> QED BY <3>1, <3>2
  <2> QED BY <2>1 DEF EachLogged
<1> QED BY <1>4, <1>5

\* A posting is committed with all of its ledger rows, once, or not at all.
THEOREM PostedOnce == Spec => []PostedExactlyOnce
<1>1. Init => IInv /\ EachRecorded /\ EachLogged
  BY InitInv, InitOnce
<1>2. IInv /\ EachRecorded /\ EachLogged /\ [Next]_vars =>
        (IInv /\ EachRecorded /\ EachLogged)'
  BY InductiveStep, OnceStep
<1>3. EachRecorded /\ EachLogged => PostedExactlyOnce
  BY OnceIsBoth
<1> QED
  BY <1>1, <1>2, <1>3, PTL DEF Spec

------------------------------------------------------------------------------
(* One wallet per user.                                                    *)

\* A request that has opened a wallet.
Opener(r) == req[r].op = "CREATE" /\ (pc[r] = "openLedger" \/ Answered(r, "ok"))

SoleOpeners ==
  /\ \A r, s \in Requests :
       r # s /\ Opener(r) /\ Opener(s) => req[r].wallet # req[s].wallet
  /\ \A r \in Requests : Opener(r) => balance[req[r].wallet] # None

SoleOpenings ==
  /\ \A r \in Requests : pc[r] = "openLedger" =>
       \A n \in DOMAIN ledgers[req[r].wallet] :
         ~OpeningRow(ledgers[req[r].wallet][n])
  /\ \A w \in WalletIds : \A m, n \in DOMAIN ledgers[w] :
       OpeningRow(ledgers[w][m]) /\ OpeningRow(ledgers[w][n]) => m = n

LEMMA InitSole == Init => SoleOpeners /\ SoleOpenings
  BY DEF Init, SoleOpeners, SoleOpenings, Opener, Answered, OpeningRows, OpeningRow

\* A request becomes an opener by its insert alone.
LEMMA OpenersInsert ==
  ASSUME IInv, RollbacksFail, [Next]_vars, NEW r \in Requests, Opener(r)'
  PROVE  Opener(r) \/ InsertWallet(r)
<1>1. req' = req /\ Fate(r) /\ req[r].op = "CREATE"
  BY DatabaseSteps, FateStep DEF IInv, Opener
<1>2. CASE Stays(r)
  BY <1>1, <1>2 DEF Stays, Opener, Answered
<1>3. CASE GoesOn(r)
  BY <1>3 DEF GoesOn, Opener, Answered
<1>4. CASE RolledBack(r)
  BY <1>4 DEF RolledBack, RollbacksFail, Refusals, Setbacks, Opener, Answered
<1>5. CASE Fails(r) \/ Refused(r)
  BY <1>5 DEF Fails, Refused, Refusals, Setbacks, Opener, Answered
<1>6. CASE Succeeds(r)
  <2>1. ~Posting(req[r]) /\ req[r].op # "BALANCE"
    BY <1>1 DEF Posting
  <2>2. OpenLedger(r)
    BY <1>6, <2>1 DEF Succeeds, Commit, CheckCache, FillCache, GetCached, SetCached,
                      IInv, Control, Routed, TxSteps
  <2>3. pc[r] = "openLedger"
    BY <2>2 DEF OpenLedger
  <2> QED BY <1>1, <2>3 DEF Opener
<1> QED BY <1>1, <1>2, <1>3, <1>4, <1>5, <1>6 DEF Fate

LEMMA SoleOpenersStep ==
  ASSUME IInv, RollbacksFail, SoleOpeners, [Next]_vars
  PROVE  SoleOpeners'
<1>1. TypeOK /\ req' = req /\ \A r \in Requests : req[r].wallet \in WalletIds
  BY DatabaseSteps, InputType DEF IInv, TypeOK
<1>2. \A w \in WalletIds : balance[w] # None => balance'[w] # None
  BY HistoryStep DEF Extends
<1>3. ASSUME NEW r \in Requests, Opener(r)'
      PROVE  balance'[req[r].wallet] # None
  BY <1>1, <1>2, <1>3, OpenersInsert, InsertedWallet DEF SoleOpeners
<1>4. ASSUME NEW r \in Requests, NEW s \in Requests, r # s, Opener(s)', InsertWallet(r)
      PROVE  req[r].wallet # req[s].wallet
  <2>1. ~InsertWallet(s)
    BY <1>1, <1>4, MovesAlone DEF InsertWallet, Alone, TypeOK
  <2>2. Opener(s)
    BY <1>4, <2>1, OpenersInsert
  <2> QED BY <1>4, <2>2, InsertedWallet DEF SoleOpeners
<1>5. ASSUME NEW r \in Requests, NEW s \in Requests, r # s, Opener(r)', Opener(s)'
      PROVE  req[r].wallet # req[s].wallet
  BY <1>4, <1>5, OpenersInsert DEF SoleOpeners
<1> QED
  BY <1>1, <1>3, <1>5 DEF SoleOpeners

LEMMA SoleOpeningsStep ==
  ASSUME IInv, WalletsComeFirst, SoleOpeners, SoleOpenings, [Next]_vars
  PROVE  SoleOpenings'
<1>1. /\ TypeOK /\ req' = req
      /\ \A r \in Requests : req[r].wallet \in WalletIds
      /\ \A w \in WalletIds : ledgers[w] \in Seq(Entry)
  BY DatabaseSteps, InputType DEF IInv, TypeOK
<1>2. \A r \in Requests : pc[r] = "openLedger" => Opener(r)
  BY DEF Opener, IInv, Control, Routed
\* A row that is appended is an opening row only by the request that opens.
<1>3. ASSUME NEW w \in WalletIds, NEW n \in DOMAIN ledgers'[w],
             OpeningRow(ledgers'[w][n])
      PROVE  \/ n \in DOMAIN ledgers[w] /\ OpeningRow(ledgers[w][n])
             \/ /\ n = Len(ledgers[w]) + 1
                /\ \E r \in Requests : OpenLedger(r) /\ w = req[r].wallet
  <2>1. CASE n \in DOMAIN ledgers[w]
    BY <1>3, <2>1, RowsKept
  <2>2. CASE n \notin DOMAIN ledgers[w]
    <3>1. PICK e \in Entry :
            /\ ledgers'[w] = Append(ledgers[w], e)
            /\ \/ \E r \in Requests : Ends(r) /\ e.log = r
               \/ e.log = None /\ \E r \in Requests : OpenLedger(r) /\ w = req[r].wallet
      BY <1>3, <2>2, LedgerSteps
    <3>2. n = Len(ledgers[w]) + 1 /\ ledgers'[w][n] = e
      <4>1. DOMAIN Append(ledgers[w], e) = DOMAIN ledgers[w] \cup {Len(ledgers[w]) + 1}
            /\ Append(ledgers[w], e)[Len(ledgers[w]) + 1] = e
        BY <1>1, AppendedRows
      <4> QED BY <1>3, <2>2, <3>1, <4>1
    <3> QED BY <1>3, <3>1, <3>2, NamesAssumption DEF OpeningRow
  <2> QED BY <2>1, <2>2
<1>4. ASSUME NEW r \in Requests, pc'[r] = "openLedger",
             NEW n \in DOMAIN ledgers'[req[r].wallet],
             OpeningRow(ledgers'[req[r].wallet][n])
      PROVE  FALSE
  <2>1. Stays(r) \/ InsertWallet(r)
    BY <1>1, <1>4, FateStep DEF Fate, GoesOn, RolledBack, Fails, Refused, Succeeds
  <2>2. CASE Stays(r)
    <3>1. pc[r] = "openLedger"
      BY <1>4, <2>2 DEF Stays
    <3>2. PICK s \in Requests : OpenLedger(s) /\ req[r].wallet = req[s].wallet
      BY <1>1, <1>3, <1>4, <3>1 DEF SoleOpenings
    <3>3. pc[s] = "openLedger" /\ pc'[s] = "done"
      BY <1>1, <3>2, MovesAlone DEF Unacknowledged, OpenLedger
    <3> QED BY <1>2, <1>4, <3>1, <3>2, <3>3 DEF SoleOpeners
  <2>3. CASE InsertWallet(r)
    <3>1. ledgers'[req[r].wallet] = <<>>
      BY <1>1, <2>3, InsertedWallet DEF WalletsComeFirst, RowsNeedWallets
    <3> QED BY <1>4, <3>1
  <2> QED BY <2>1, <2>2, <2>3
<1>5. ASSUME NEW w \in WalletIds, NEW m \in DOMAIN ledgers'[w], NEW n \in DOMAIN ledgers'[w],
             OpeningRow(ledgers'[w][m]), OpeningRow(ledgers'[w][n])
      PROVE  m = n
  <2>1. CASE \E r \in Requests : OpenLedger(r) /\ w = req[r].wallet
    <3>1. \A i \in DOMAIN ledgers[w] : ~OpeningRow(ledgers[w][i])
      BY <2>1 DEF SoleOpenings, OpenLedger
    <3> QED BY <1>3, <1>5, <3>1
  <2>2. CASE ~\E r \in Requests : OpenLedger(r) /\ w = req[r].wallet
    <3>1. /\ m \in DOMAIN ledgers[w] /\ OpeningRow(ledgers[w][m])
          /\ n \in DOMAIN ledgers[w] /\ OpeningRow(ledgers[w][n])
      BY <1>3, <1>5, <2>2
    <3> QED BY <3>1 DEF SoleOpenings
  <2> QED BY <2>1, <2>2
<1> QED
  BY <1>1, <1>4, <1>5 DEF SoleOpenings

\* However its requests race, a user gets one wallet, one success and one
\* opening row.
THEOREM OneWallet == Spec => []OneWalletPerUser
<1> DEFINE Inv == /\ IInv /\ RollbacksFail /\ WalletsComeFirst
                  /\ SoleOpeners /\ SoleOpenings
<1>1. Init => Inv
  BY InitInv, InitTruth, InitWallets, InitSole DEF Truth
<1>2. Inv /\ [Next]_vars => Inv'
  BY InductiveStep, RollbacksStep, WalletsStep, SoleOpenersStep, SoleOpeningsStep
<1>3. Inv => OneWalletPerUser
  BY DEF SoleOpeners, SoleOpenings, OneWalletPerUser, Opener
<1> HIDE DEF Inv
<1> QED
  BY <1>1, <1>2, <1>3, PTL DEF Spec

------------------------------------------------------------------------------
(* Balances shown and cached.                                              *)

\* Redis gets balances from getBalance alone, and a request reads one once.
LEMMA BalanceCacheSteps ==
  ASSUME TypeOK, [Next]_vars
  PROVE  /\ \A w \in WalletIds : \/ balCache'[w] \in {balCache[w], None}
                                 \/ \E r \in Requests : SetCached(r)
         /\ \A r \in Requests : readBalance'[r] = readBalance[r] \/ ReadRow(r)
<1> DEFINE Kept == /\ \A w \in WalletIds : balCache'[w] \in {balCache[w], None}
                   /\ readBalance' = readBalance
<1> USE DEF cacheVars, localVars
<1>1. ASSUME NEW r \in Requests, Refuse(r) \/ Accept(r) \/ DeadlockAbort(r) \/ Failure(r)
      PROVE  Kept
  BY <1>1 DEF Refuse, Accept, DeadlockAbort, DatabaseError, Failure,
              CommitUnacknowledged, Publish, AwaitFails
<1>2. ASSUME NEW r \in Requests, CheckKey(r) \/ GetCached(r) \/ CreateWallet(r)
      PROVE  Kept
  BY <1>2 DEF CheckKey, CheckCache, CheckLog, FillCache, GetCached, CreateWallet,
              FindUser, InsertWallet, WalletRefused, OpenLedger, DatabaseError
<1>3. ASSUME NEW r \in Requests,
             InsertLog(r) \/ LogRefused(r) \/ CheckWalletRef(r)
             \/ WalletRefMissing(r) \/ LockWallets(r)
      PROVE  Kept
  BY <1>3 DEF InsertLog, LogRefused, CheckWalletRef, WalletRefMissing,
              LockWallets, Select, LockRow, RowsMissing, Fail, DatabaseError
<1>4. ASSUME NEW r \in Requests,
             FundsShort(r) \/ Overflow(r) \/ Write(r) \/ Rollback(r)
             \/ CacheResult(r) \/ Commit(r)
      PROVE  Kept
  BY <1>4 DEF FundsShort, Fail, Overflow, Write, Rollback, CacheResult, Commit,
              Publish, DatabaseError
<1>5. ASSUME NEW r \in Requests, InvalidateFrom(r) \/ InvalidateTo(r)
      PROVE  Kept
  BY <1>5 DEF InvalidateFrom, InvalidateTo, TypeOK
<1>6. ASSUME Crash \/ Expiry \/ UNCHANGED vars
      PROVE  Kept
  BY <1>6 DEF Crash, Expiry, ExpireBalance, ExpireKey, ExpireTransfer, vars, TypeOK
<1>7. ASSUME NEW r \in Requests, ReadRow(r)
      PROVE  /\ balCache' = balCache
             /\ \A s \in Requests : readBalance'[s] = readBalance[s] \/ s = r
  BY <1>7 DEF ReadRow, TypeOK
<1>8. ASSUME NEW r \in Requests, SetCached(r)
      PROVE  readBalance' = readBalance
  BY <1>8 DEF SetCached
<1> QED
  BY <1>1, <1>2, <1>3, <1>4, <1>5, <1>6, <1>7, <1>8
  DEF Next, Handle, Post, GetBalance, Finished

\* The balances of a wallet with a balance and a ledger.
Had(bal, s) ==
  {bal} \cup {s[n].before : n \in DOMAIN s} \cup {s[n].after : n \in DOMAIN s}

\* A balance a wallet has had stays one.
LEMMA BalancesHadStay ==
  ASSUME IInv, WalletsComeFirst, [Next]_vars, NEW w \in WalletIds, NEW x,
         x \in Had(balance[w], ledgers[w]), x # None
  PROVE  x \in Had(balance'[w], ledgers'[w])
<1>1. ledgers[w] \in Seq(Entry)
  BY DEF IInv, TypeOK
<1>2. CASE x # balance[w]
  <2>1. PICK n \in DOMAIN ledgers[w] : x = ledgers[w][n].before \/ x = ledgers[w][n].after
    BY <1>2 DEF Had
  <2>2. n \in DOMAIN ledgers'[w] /\ ledgers'[w][n] = ledgers[w][n]
    BY RowsKept
  <2> QED BY <2>1, <2>2 DEF Had
<1>3. CASE x = balance[w]
  <2>1. CASE balance'[w] = balance[w]
    BY <1>3, <2>1 DEF Had
  <2>2. ASSUME NEW r \in Requests, Ends(r), balance'[w] # balance[w]
        PROVE  x \in Had(balance'[w], ledgers'[w])
    <3>1. PICK e \in Entry : ledgers'[w] = Append(ledgers[w], e) /\ e.before = balance[w]
      BY <2>2, CommitAppends
    <3>2. /\ Len(ledgers[w]) + 1 \in DOMAIN ledgers'[w]
          /\ ledgers'[w][Len(ledgers[w]) + 1] = e
      BY <1>1, <3>1, AppendedRows
    <3> QED BY <1>3, <3>1, <3>2 DEF Had
  <2>3. ASSUME NEW r \in Requests, InsertWallet(r), balance'[w] # balance[w]
        PROVE  FALSE
    BY <1>3, <2>3, InsertedWallet
  <2>4. UNCHANGED balance \/ \E r \in Requests : Ends(r) \/ InsertWallet(r)
    BY DatabaseSteps DEF dbVars, OpenLedger
  <2> QED BY <2>1, <2>2, <2>3, <2>4
<1> QED BY <1>2, <1>3

\* What getBalance has read, cached and answered.
ReadsCommitted ==
  /\ \A w \in WalletIds :
       balCache[w] # None => balCache[w] \in Had(balance[w], ledgers[w])
  /\ \A r \in Requests : pc[r] = "setCached" =>
       /\ readBalance[r] # None
       /\ readBalance[r] \in Had(balance[req[r].wallet], ledgers[req[r].wallet])
  /\ \A r \in Requests : req[r].op = "BALANCE" /\ Answered(r, "ok") =>
       /\ reply[r].value # None
       /\ reply[r].value \in Had(balance[req[r].wallet], ledgers[req[r].wallet])

LEMMA InitReads == Init => ReadsCommitted
  BY DEF Init, ReadsCommitted, Answered, NoRows

LEMMA ReadsStep ==
  ASSUME IInv, RollbacksFail, WalletsComeFirst, ReadsCommitted, [Next]_vars
  PROVE  ReadsCommitted'
<1> DEFINE Now(w, x) == x # None /\ x \in Had(balance[w], ledgers[w])
           Then(w, x) == x # None /\ x \in Had(balance'[w], ledgers'[w])
<1>1. /\ TypeOK /\ req' = req
      /\ \A r \in Requests : Fate(r) /\ req[r].wallet \in WalletIds
  BY DatabaseSteps, FateStep, InputType DEF IInv, TypeOK
<1>2. \A w \in WalletIds : \A x : Now(w, x) => Then(w, x)
  BY BalancesHadStay
<1>3. /\ \A w \in WalletIds : balCache[w] # None => Now(w, balCache[w])
      /\ \A r \in Requests : pc[r] = "setCached" => Now(req[r].wallet, readBalance[r])
      /\ \A r \in Requests : req[r].op = "BALANCE" /\ Answered(r, "ok") =>
           Now(req[r].wallet, reply[r].value)
  BY DEF ReadsCommitted
<1>4. \A w \in WalletIds : balance[w] # None => Now(w, balance[w])
  BY DEF Had
<1> HIDE DEF Now
<1>5. ASSUME NEW w \in WalletIds, balCache'[w] # None
      PROVE  Then(w, balCache'[w])
  <2>1. CASE balCache'[w] \in {balCache[w], None}
    <3>1. balCache'[w] = balCache[w] /\ Now(w, balCache[w])
      BY <1>3, <1>5, <2>1
    <3>2. Then(w, balCache[w])
      BY <1>2, <3>1
    <3> QED BY <3>1, <3>2
  <2>2. ASSUME NEW r \in Requests, SetCached(r), balCache'[w] # balCache[w]
        PROVE  Then(w, balCache'[w])
    <3>1. /\ pc[r] = "setCached" /\ w = req[r].wallet
          /\ balCache'[w] = readBalance[r]
      BY <1>1, <2>2 DEF SetCached, TypeOK
    <3>2. Now(w, readBalance[r])
      BY <1>3, <3>1
    <3>3. Then(w, readBalance[r])
      BY <1>2, <3>2
    <3> QED BY <3>1, <3>3
  <2> QED BY <1>1, <2>1, <2>2, BalanceCacheSteps
<1>6. ASSUME NEW r \in Requests, pc'[r] = "setCached"
      PROVE  Then(req[r].wallet, readBalance'[r])
  <2>1. CASE ReadRow(r)
    <3>1. readBalance'[r] = balance[req[r].wallet]
      BY <1>1, <2>1 DEF ReadRow, TypeOK
    <3>2. balance[req[r].wallet] # None
      BY <1>1, <1>6, <2>1, MovesAlone DEF ReadRow
    <3>3. Then(req[r].wallet, balance[req[r].wallet])
      BY <1>1, <1>2, <1>4, <3>2
    <3> QED BY <3>1, <3>3
  <2>2. CASE ~ReadRow(r)
    <3>1. Stays(r)
      BY <1>1, <1>6, <2>2 DEF Fate, GoesOn, RolledBack, Fails, Refused, Succeeds
    <3>2. Now(req[r].wallet, readBalance[r])
      BY <1>3, <1>6, <3>1 DEF Stays
    <3>3. readBalance'[r] = readBalance[r]
      BY <1>1, <2>2, BalanceCacheSteps
    <3>4. Then(req[r].wallet, readBalance[r])
      BY <1>1, <1>2, <3>2
    <3> QED BY <3>3, <3>4
  <2> QED BY <2>1, <2>2
<1>7. ASSUME NEW r \in Requests, req[r].op = "BALANCE", pc'[r] = "done",
             reply'[r].code = "ok"
      PROVE  Then(req[r].wallet, reply'[r].value)
  <2>1. Stays(r) \/ Succeeds(r)
    BY <1>1, <1>7 DEF Fate, GoesOn, RolledBack, Fails, Refused, RollbacksFail,
                      Refusals, Setbacks
  <2>2. CASE Stays(r)
    <3>1. Now(req[r].wallet, reply[r].value) /\ reply'[r] = reply[r]
      BY <1>3, <1>7, <2>2 DEF Stays, Answered
    <3>2. Then(req[r].wallet, reply[r].value)
      BY <1>1, <1>2, <3>1
    <3> QED BY <3>1, <3>2
  <2>3. CASE Succeeds(r)
    <3>1. ~Posting(req[r]) /\ req[r].op # "CREATE"
      BY <1>7 DEF Posting
    <3>2. GetCached(r) \/ SetCached(r)
      BY <2>3, <3>1 DEF Succeeds, Commit, CheckCache, FillCache, OpenLedger, IInv,
                        Control, Routed, TxSteps
    <3>3. CASE GetCached(r)
      <4>1. /\ balCache[req[r].wallet] # None
            /\ reply'[r].value = balCache[req[r].wallet]
        BY <1>1, <1>7, <3>3, MovesAlone DEF GetCached
      <4>2. Then(req[r].wallet, balCache[req[r].wallet])
        BY <1>1, <1>2, <1>3, <4>1
      <4> QED BY <4>1, <4>2
    <3>4. CASE SetCached(r)
      <4>1. pc[r] = "setCached" /\ reply'[r].value = readBalance[r]
        BY <1>1, <1>7, <3>4, MovesAlone DEF SetCached, Unacknowledged
      <4>2. Then(req[r].wallet, readBalance[r])
        BY <1>1, <1>2, <1>3, <4>1
      <4> QED BY <4>1, <4>2
    <3> QED BY <3>2, <3>3, <3>4
  <2> QED BY <2>1, <2>2, <2>3
<1> QED
  BY <1>1, <1>5, <1>6, <1>7 DEF ReadsCommitted, Answered

\* getBalance shows, and Redis holds, balances that were committed.
THEOREM NoDirtyReads == Spec => []BalancesReadWereCommitted
<1> DEFINE Inv == IInv /\ RollbacksFail /\ WalletsComeFirst /\ ReadsCommitted
<1>1. Init => Inv
  BY InitInv, InitTruth, InitWallets, InitReads DEF Truth
<1>2. Inv /\ [Next]_vars => Inv'
  BY InductiveStep, RollbacksStep, WalletsStep, ReadsStep
<1>3. Inv => BalancesReadWereCommitted
  BY DEF ReadsCommitted, BalancesReadWereCommitted, BalancesHad, Had
<1> HIDE DEF Inv
<1> QED
  BY <1>1, <1>2, <1>3, PTL DEF Spec

------------------------------------------------------------------------------
(* Sums.  The library defines a sum by recursion on sets.  What the        *)
(* recursion computes follows by induction on the number of summands, which *)
(* is the well-foundedness of the natural numbers.                         *)

\* The element by which the sum over a set is unfolded.
Chosen(s) == CHOOSE x \in s : TRUE

\* One unfolding of the sum over s, by a function that has the smaller sums.
Unfold(f, g, s) == IF s = {} THEN 0 ELSE f[Chosen(s)] + g[s \ {Chosen(s)}]

\* The sums over the subsets of a set.
SumsOver(f, S) == CHOOSE g : g = [s \in SUBSET S |-> Unfold(f, g, s)]

\* The sum of the library is the one of the recursion.
LEMMA SumIsRecursive ==
  ASSUME NEW f, NEW S
  PROVE  SumFunctionOnSet(f, S) = SumsOver(f, S)[S]
  BY DEF SumFunctionOnSet, FoldFunctionOnSet, MapThenFoldSet, SumsOver, Unfold, Chosen

\* The recursion of the sums has a solution on a finite set, by induction on
\* the number of summands.
LEMMA SumsExist ==
  ASSUME NEW f, NEW S, IsFiniteSet(S)
  PROVE  \A s \in SUBSET S : SumsOver(f, S)[s] = Unfold(f, SumsOver(f, S), s)
<1> DEFINE Upto(n) == {s \in SUBSET S : Cardinality(s) <= n}
           Sums(g, n) == g = [s \in Upto(n) |-> Unfold(f, g, s)]
           N == {n \in Nat : \E g : Sums(g, n)}
<1>1. \A s \in SUBSET S : IsFiniteSet(s) /\ Cardinality(s) \in Nat
  BY FS_Subset, FS_CardinalityType
<1>2. 0 \in N
  <2> DEFINE g == [s \in Upto(0) |-> 0]
  <2>1. \A s \in Upto(0) : s = {}
    BY <1>1, FS_EmptySet
  <2>2. \A s \in Upto(0) : Unfold(f, g, s) = 0
    BY <2>1 DEF Unfold
  <2>3. Sums(g, 0)
    BY <2>2
  <2> QED BY <2>3
<1>3. ASSUME NEW n \in Nat, n \in N
      PROVE  n + 1 \in N
  <2>1. PICK g : Sums(g, n)
    BY <1>3
  <2> DEFINE h == [s \in Upto(n + 1) |-> Unfold(f, g, s)]
  <2>2. Upto(n) \subseteq Upto(n + 1)
    BY <1>1
  <2>3. \A s \in Upto(n) : h[s] = g[s]
    BY <2>1, <2>2
  <2>4. ASSUME NEW s \in Upto(n + 1)
        PROVE  Unfold(f, g, s) = Unfold(f, h, s)
    <3>1. CASE s = {}
      BY <3>1 DEF Unfold
    <3>2. CASE s # {}
      <4>1. Chosen(s) \in s
        BY <3>2 DEF Chosen
      <4>2. Cardinality(s \ {Chosen(s)}) = Cardinality(s) - 1
        BY <1>1, <4>1, FS_RemoveElement
      <4>3. s \ {Chosen(s)} \in Upto(n)
        BY <1>1, <4>2
      <4>4. h[s \ {Chosen(s)}] = g[s \ {Chosen(s)}]
        BY <2>3, <4>3
      <4> HIDE DEF h
      <4> QED BY <4>4 DEF Unfold
    <3> QED BY <3>1, <3>2
  <2>5. h = [s \in Upto(n + 1) |-> Unfold(f, h, s)]
    <3> DEFINE k == [s \in Upto(n + 1) |-> Unfold(f, h, s)]
    <3>1. \A s \in Upto(n + 1) : h[s] = k[s]
      BY <2>4
    <3> QED BY <3>1
  <2>6. Sums(h, n + 1)
    BY <2>5
  <2> HIDE DEF Sums, h
  <2> QED BY <2>6
<1>4. Cardinality(S) \in N
  <2>1. Nat \subseteq N
    <3> HIDE DEF N
    <3> QED BY <1>2, <1>3, Induction
  <2> QED BY <1>1, <2>1
<1>5. Upto(Cardinality(S)) = SUBSET S
  BY <1>1, FS_Subset
<1>6. \E g : g = [s \in SUBSET S |-> Unfold(f, g, s)]
  BY <1>4, <1>5
<1>7. SumsOver(f, S) = [s \in SUBSET S |-> Unfold(f, SumsOver(f, S), s)]
  BY <1>6 DEF SumsOver
<1> QED BY <1>7

\* Sums over subsets of two sets agree where the functions do.
LEMMA SumsAgree ==
  ASSUME NEW f, NEW g, NEW S, NEW T, IsFiniteSet(S), IsFiniteSet(T),
         NEW U \in SUBSET (S \cap T), \A x \in U : f[x] = g[x]
  PROVE  SumsOver(f, S)[U] = SumsOver(g, T)[U]
<1> DEFINE P == {V \in SUBSET U : SumsOver(f, S)[V] = SumsOver(g, T)[V]}
<1>1. IsFiniteSet(U)
  BY FS_Subset
<1>2. ASSUME NEW V \in SUBSET U, \A x \in V : V \ {x} \in P
      PROVE  V \in P
  <2>1. V \in SUBSET S /\ V \in SUBSET T
    OBVIOUS
  <2>2. /\ SumsOver(f, S)[V] = Unfold(f, SumsOver(f, S), V)
        /\ SumsOver(g, T)[V] = Unfold(g, SumsOver(g, T), V)
    BY <2>1, SumsExist
  <2>3. CASE V = {}
    BY <2>2, <2>3 DEF Unfold
  <2>4. CASE V # {}
    <3>1. Chosen(V) \in V
      BY <2>4 DEF Chosen
    <3>2. V \ {Chosen(V)} \in P /\ f[Chosen(V)] = g[Chosen(V)]
      BY <1>2, <3>1
    <3> QED BY <2>2, <2>4, <3>2 DEF Unfold
  <2> QED BY <2>3, <2>4
<1>3. U \in P
  <2> HIDE DEF P
  <2>1. \A V \in SUBSET U : V \in P
    BY <1>1, <1>2, InductionOnSubsets
  <2> QED BY <2>1
<1> QED BY <1>3

\* The sum depends on the summands alone.
LEMMA SumOfEqual ==
  ASSUME NEW f, NEW g, NEW S, IsFiniteSet(S), \A x \in S : f[x] = g[x]
  PROVE  SumFunctionOnSet(f, S) = SumFunctionOnSet(g, S)
  BY SumIsRecursive, SumsAgree

\* The sum over a set, from that over the set without the element chosen.
LEMMA SumUnfolds ==
  ASSUME NEW f, NEW S, IsFiniteSet(S)
  PROVE  SumFunctionOnSet(f, S) =
           IF S = {} THEN 0
                     ELSE f[Chosen(S)] + SumFunctionOnSet(f, S \ {Chosen(S)})
<1> DEFINE T == S \ {Chosen(S)}
<1>2. SumsOver(f, S)[S] = Unfold(f, SumsOver(f, S), S)
  BY SumsExist
<1>3. IsFiniteSet(T) /\ T \in SUBSET (S \cap T)
  BY FS_Subset
<1>4. SumsOver(f, S)[T] = SumsOver(f, T)[T]
  BY <1>3, SumsAgree
<1> QED BY <1>2, <1>4, SumIsRecursive DEF Unfold

\* A sum of integers is an integer.
LEMMA SumType ==
  ASSUME NEW f, NEW S, IsFiniteSet(S), \A x \in S : f[x] \in Int
  PROVE  SumFunctionOnSet(f, S) \in Int
<1> DEFINE P == {T \in SUBSET S : SumFunctionOnSet(f, T) \in Int}
<1>1. ASSUME NEW T \in SUBSET S, \A x \in T : T \ {x} \in P
      PROVE  T \in P
  <2>1. CASE T = {}
    <3>1. SumFunctionOnSet(f, T) = 0
      BY <2>1, SumUnfolds, FS_EmptySet
    <3> QED BY <3>1
  <2>2. CASE T # {}
    <3>1. Chosen(T) \in T /\ IsFiniteSet(T)
      BY <2>2, FS_Subset DEF Chosen
    <3>2. SumFunctionOnSet(f, T \ {Chosen(T)}) \in Int /\ f[Chosen(T)] \in Int
      BY <1>1, <3>1
    <3>3. SumFunctionOnSet(f, T) = f[Chosen(T)] + SumFunctionOnSet(f, T \ {Chosen(T)})
      BY <2>2, <3>1, SumUnfolds
    <3> QED BY <3>2, <3>3
  <2> QED BY <2>1, <2>2
<1>2. \A T \in SUBSET S : T \in P
  <2> HIDE DEF P
  <2> QED BY <1>1, InductionOnSubsets
<1> QED BY <1>2

\* Any element may be taken out of a sum.
LEMMA SumWithout ==
  ASSUME NEW f, NEW S, IsFiniteSet(S), \A x \in S : f[x] \in Int, NEW y \in S
  PROVE  SumFunctionOnSet(f, S) = f[y] + SumFunctionOnSet(f, S \ {y})
<1> DEFINE Sum(T) == SumFunctionOnSet(f, T)
           P == {T \in SUBSET S : \A x \in T : Sum(T) = f[x] + Sum(T \ {x})}
<1>1. \A T \in SUBSET S : IsFiniteSet(T) /\ Sum(T) \in Int
  <2> SUFFICES ASSUME NEW T \in SUBSET S PROVE IsFiniteSet(T) /\ Sum(T) \in Int
    OBVIOUS
  <2>1. IsFiniteSet(T)
    BY FS_Subset
  <2> QED BY <2>1, SumType
<1>2. ASSUME NEW T \in SUBSET S, \A x \in T : T \ {x} \in P, NEW x \in T
      PROVE  Sum(T) = f[x] + Sum(T \ {x})
  <2> DEFINE c == Chosen(T)
  <2>1. c \in T
    BY DEF Chosen
  <2>2. Sum(T) = f[c] + Sum(T \ {c})
    BY <1>1, SumUnfolds
  <2>3. CASE x = c
    BY <2>2, <2>3
  <2>4. CASE x # c
    <3>1. T \ {x} \in P /\ T \ {c} \in P
      BY <1>2, <2>1
    <3>2. Sum(T \ {x}) = f[c] + Sum((T \ {x}) \ {c})
      BY <2>1, <2>4, <3>1
    <3>3. Sum(T \ {c}) = f[x] + Sum((T \ {c}) \ {x})
      BY <2>4, <3>1
    <3>4. (T \ {x}) \ {c} = (T \ {c}) \ {x}
      OBVIOUS
    <3>5. f[x] \in Int /\ f[c] \in Int /\ Sum((T \ {c}) \ {x}) \in Int
      <4>1. (T \ {c}) \ {x} \in SUBSET S
        OBVIOUS
      <4> QED BY <1>1, <2>1, <4>1
    <3>6. Sum(T \ {x}) = f[c] + Sum((T \ {c}) \ {x})
      BY <3>2, <3>4
    <3> HIDE DEF c, Sum
    <3> QED BY <2>2, <3>3, <3>5, <3>6
  <2> QED BY <2>3, <2>4
<1>3. \A T \in SUBSET S : (\A x \in T : T \ {x} \in P) => T \in P
  BY <1>2
<1>4. \A T \in SUBSET S : T \in P
  <2> HIDE DEF P
  <2> QED BY <1>3, InductionOnSubsets
<1> QED BY <1>4

\* One summand more.
LEMMA SumExtended ==
  ASSUME NEW f, NEW g, NEW S, IsFiniteSet(S), NEW y, y \notin S, g[y] \in Int,
         \A x \in S : f[x] \in Int /\ g[x] = f[x]
  PROVE  SumFunctionOnSet(g, S \cup {y}) = SumFunctionOnSet(f, S) + g[y]
<1>1. IsFiniteSet(S \cup {y}) /\ (S \cup {y}) \ {y} = S
  BY FS_AddElement
<1>2. \A x \in S \cup {y} : g[x] \in Int
  OBVIOUS
<1>3. SumFunctionOnSet(g, S \cup {y}) = g[y] + SumFunctionOnSet(g, S)
  BY <1>1, <1>2, SumWithout
<1>4. SumFunctionOnSet(g, S) = SumFunctionOnSet(f, S)
  BY SumOfEqual
<1>5. SumFunctionOnSet(f, S) \in Int
  BY SumType
<1> QED BY <1>3, <1>4, <1>5

------------------------------------------------------------------------------
(* What a ledger adds up to.                                               *)

\* A balance in cents takes the rounded amount of a credit, and loses that of a
\* debit but for what it keeps of half a cent.
LEMMA RoundedBalances ==
  ASSUME NEW b \in Nat, WholeCents(b), NEW x \in Int, x > 0
  PROVE  /\ Add(b, x) = b + Format(x) /\ WholeCents(Add(b, x))
         /\ x <= b =>
              /\ Subtract(b, x) =
                   b - Format(x) + (IF x % Cent = Cent \div 2 THEN Cent ELSE 0)
              /\ WholeCents(Subtract(b, x))
<1>1. Add(b, x) = b + Format(x) /\ WholeCents(Add(b, x))
  BY DEF Add, Format, RoundHalfUp, WholeCents, Cent
<1>2. ASSUME x <= b
      PROVE  /\ Subtract(b, x) =
                  b - Format(x) + (IF x % 10 = 5 THEN 10 ELSE 0)
             /\ WholeCents(Subtract(b, x))
  BY <1>2 DEF Subtract, Format, RoundHalfUp, WholeCents, Cent
<1>3. Cent = 10 /\ Cent \div 2 = 5
  BY DEF Cent
<1> QED BY <1>1, <1>2, <1>3

LEMMA FormatType ==
  ASSUME NEW x \in Int
  PROVE  Format(x) \in Int /\ WholeCents(Format(x)) /\ (WholeCents(x) => Format(x) = x)
  BY DEF Format, RoundHalfUp, WholeCents, Cent

\* What a row moves is a number.
LEMMA MovedType == \A e \in Entry : Moved(e) \in Int
<1>1. \A i : KeptBack(i) \in Int
  BY DEF KeptBack, Cent
<1> QED BY <1>1 DEF Moved, Entry

LEMMA LedgerSumType ==
  ASSUME TypeOK, NEW w \in WalletIds
  PROVE  LedgerSum(w) \in Int /\ (ledgers[w] = <<>> => LedgerSum(w) = 0)
<1> DEFINE f == [n \in DOMAIN ledgers[w] |-> Moved(ledgers[w][n])]
<1>1. /\ ledgers[w] \in Seq(Entry) /\ DOMAIN ledgers[w] = 1 .. Len(ledgers[w])
      /\ Len(ledgers[w]) \in Nat
  BY DEF TypeOK
<1>2. IsFiniteSet(DOMAIN ledgers[w])
  BY <1>1, FS_Interval
<1>3. \A n \in DOMAIN ledgers[w] : f[n] \in Int
  BY <1>1, MovedType
<1>4. LedgerSum(w) = SumFunctionOnSet(f, DOMAIN ledgers[w])
  BY DEF LedgerSum, SumFunction
<1>5. SumFunctionOnSet(f, DOMAIN ledgers[w]) \in Int
  <2> HIDE DEF f
  <2> QED BY <1>2, <1>3, SumType
<1>6. DOMAIN ledgers[w] = {} => SumFunctionOnSet(f, DOMAIN ledgers[w]) = 0
  <2> HIDE DEF f
  <2> QED BY <1>2, SumUnfolds
<1> QED BY <1>4, <1>5, <1>6

\* A row that is appended adds what it moves.
LEMMA LedgerSumAppend ==
  ASSUME TypeOK, TypeOK', req' = req, NEW w \in WalletIds,
         NEW e \in Entry, ledgers'[w] = Append(ledgers[w], e)
  PROVE  LedgerSum(w)' = LedgerSum(w) + Moved(e)
<1> DEFINE f == [n \in DOMAIN ledgers[w] |-> Moved(ledgers[w][n])]
           g == [n \in DOMAIN ledgers'[w] |-> Moved(ledgers[w][n])']
           top == Len(ledgers[w]) + 1
           D == DOMAIN ledgers[w]
<1>1. /\ ledgers[w] \in Seq(Entry) /\ D = 1 .. Len(ledgers[w])
      /\ Len(ledgers[w]) \in Nat
  BY DEF TypeOK
<1>2. IsFiniteSet(D)
  BY <1>1, FS_Interval
<1>3. /\ DOMAIN ledgers'[w] = D \cup {top} /\ top \notin D
      /\ \A n \in D : ledgers'[w][n] = ledgers[w][n]
      /\ ledgers'[w][top] = e
  BY <1>1, AppendedRows
<1>4. \A n \in DOMAIN ledgers'[w] : g[n] = Moved(ledgers'[w][n])
  BY DEF Moved
<1>5. \A n \in D : f[n] \in Int /\ g[n] = f[n]
  <2> SUFFICES ASSUME NEW n \in D PROVE f[n] \in Int /\ g[n] = f[n]
    OBVIOUS
  <2>1. f[n] = Moved(ledgers[w][n]) /\ ledgers[w][n] \in Entry
    BY <1>1
  <2>2. g[n] = Moved(ledgers'[w][n]) /\ ledgers'[w][n] = ledgers[w][n]
    BY <1>3, <1>4
  <2> HIDE DEF f, g
  <2> QED BY <2>1, <2>2, MovedType
<1>6. g[top] = Moved(e) /\ Moved(e) \in Int
  BY <1>3, <1>4, MovedType
<1>7. LedgerSum(w) = SumFunctionOnSet(f, D)
  BY DEF LedgerSum, SumFunction
<1>8. LedgerSum(w)' = SumFunctionOnSet(g, D \cup {top})
  BY <1>3 DEF LedgerSum, SumFunction
<1> HIDE DEF f, g, top, D
<1> QED BY <1>2, <1>3, <1>5, <1>6, <1>7, <1>8, SumExtended

LEMMA LedgerSumStays ==
  ASSUME req' = req, NEW w \in WalletIds, ledgers'[w] = ledgers[w]
  PROVE  LedgerSum(w)' = LedgerSum(w)
  BY DEF LedgerSum, Moved

------------------------------------------------------------------------------
(* Ledgers explain balances.                                               *)

WholeBalances ==
  \A w \in WalletIds : balance[w] # None => WholeCents(balance[w])

\* What a wallet loses or gets by a posting.
Change(i, w) ==
  IF Takes(i, w) THEN KeptBack(i) - Format(i.amount) ELSE Format(i.amount)

\* A commit changes the balance of a wallet by what it has the wallet's row say.
LEMMA CommitMoves ==
  ASSUME IInv, WholeBalances, NEW r \in Requests, Ends(r), NEW w \in WalletIds
  PROVE  \/ /\ Takes(req[r], w) \/ Gives(req[r], w)
            /\ balance[w] \in Int /\ balance'[w] \in Int
            /\ WholeCents(balance'[w])
            /\ balance'[w] = balance[w] + Change(req[r], w)
            /\ \E e \in Entry : /\ ledgers'[w] = Append(ledgers[w], e)
                                /\ e.log = r /\ Moved(e) = Change(req[r], w)
         \/ /\ ~Takes(req[r], w) /\ ~Gives(req[r], w)
            /\ ledgers'[w] = ledgers[w] /\ balance'[w] = balance[w]
<1> DEFINE i == req[r]
<1>1. /\ TypeOK /\ pc[r] = "commit" /\ Publish(r) /\ Posting(i)
      /\ i \in Inputs /\ Valid(i)
  BY CommitRow DEF IInv, TypeOK, Control, Routed, TxSteps
<1>2. i.amount \in Int /\ i.amount > 0 /\ Format(i.amount) \in Int
  BY <1>1, InputType, ComparisonsAreOrders, FormatType DEF Valid, Posting
<1>3. /\ writes[r] = Legs(i, r, seen[r]) /\ ~InsufficientFunds(i, seen[r])
      /\ \A v \in Touched(i) : seen[r][v] # None
  BY <1>1 DEF IInv, Postable, Prepared, Written
<1>4. SUFFICES ASSUME Takes(i, w) \/ Gives(i, w)
               PROVE  /\ balance[w] \in Int /\ balance'[w] \in Int
                      /\ WholeCents(balance'[w])
                      /\ balance'[w] = balance[w] + Change(i, w)
                      /\ \E e \in Entry : /\ ledgers'[w] = Append(ledgers[w], e)
                                          /\ e.log = r /\ Moved(e) = Change(i, w)
  BY CommitAppends
<1>5. PICK e \in Entry :
        /\ ledgers'[w] = Append(ledgers[w], e)
        /\ e.log = r /\ e.before = balance[w] /\ e.after = balance'[w]
        /\ e.amount = Format(i.amount) /\ e.type = ExpectedType(i, w)
        /\ balance[w] # None
  BY <1>4, CommitAppends
<1>6. balance[w] \in Nat /\ WholeCents(balance[w])
  BY <1>5, MaxMoneyAssumption DEF IInv, Locking, NoOverdraft, WholeBalances
<1>7. seen[r][w] = balance[w] /\ writes[r][w] # None /\ balance'[w] = writes[r][w].after
  <2>1. w \in Touched(i)
    BY <1>4 DEF Takes, Gives, Touched
  <2>2. seen[r][w] = balance[w]
    BY <1>3, <2>1 DEF IInv, Locking, LockedReadsAreCurrent
  <2>3. writes[r][w] # None
    BY <1>1, <1>5, AppendedRows DEF Publish, PostedLedgers, TypeOK
  <2> QED BY <1>1, <2>2, <2>3 DEF Publish, PostedBalance
<1>8. Moved(e) = Change(i, w)
  BY <1>5 DEF Moved, ExpectedType, Change
<1>9. CASE Takes(i, w)
  <2>1. i.op \in {"DEBIT", "TRANSFER"} /\ w = i.wallet
    BY <1>9 DEF Takes
  <2>2. i.amount <= balance[w]
    BY <1>2, <1>3, <1>6, <1>7, <2>1, ComparisonsAreOrders DEF InsufficientFunds
  <2>3. balance'[w] = Subtract(balance[w], i.amount)
    BY <1>3, <1>7, <1>9 DEF Legs, DebitLeg
  <2>4. /\ balance'[w] = balance[w] - Format(i.amount) + KeptBack(i)
        /\ WholeCents(balance'[w]) /\ KeptBack(i) \in Int
    BY <1>2, <1>6, <2>1, <2>2, <2>3, RoundedBalances DEF KeptBack, Cent
  <2> HIDE DEF i
  <2>5. Change(i, w) = KeptBack(i) - Format(i.amount)
    BY <1>9 DEF Change
  <2>6. balance'[w] \in Int /\ balance'[w] = balance[w] + Change(i, w)
    BY <1>2, <1>6, <2>4, <2>5
  <2> QED BY <1>5, <1>6, <1>8, <2>4, <2>6
<1>10. CASE ~Takes(i, w)
  <2>1. balance'[w] = Add(balance[w], i.amount)
    BY <1>3, <1>4, <1>7, <1>10 DEF Legs, CreditLeg
  <2>2. balance'[w] = balance[w] + Format(i.amount) /\ WholeCents(balance'[w])
    BY <1>2, <1>6, <2>1, RoundedBalances
  <2>3. Change(i, w) = Format(i.amount)
    BY <1>10 DEF Change
  <2> HIDE DEF i
  <2> QED BY <1>2, <1>5, <1>6, <1>8, <2>2, <2>3
<1> QED BY <1>9, <1>10

\* The row of the opening adds the balance the wallet was inserted with, and is
\* left out only if that is zero.
LEMMA OpeningMoves ==
  ASSUME IInv, [Next]_vars, NEW r \in Requests, OpenLedger(r), NEW w \in WalletIds,
         w = req[r].wallet
  PROVE  balance' = balance /\ LedgerSum(w)' = LedgerSum(w) + Format(req[r].amount)
<1> DEFINE a == req[r].amount
           e == OpeningEntry(a)
<1>1. /\ TypeOK /\ TypeOK' /\ req' = req
      /\ balance' = balance /\ req[r] \in Inputs /\ a \in Int
      /\ pc[r] = "openLedger"
  BY DatabaseSteps, InductiveStep, InputType DEF OpenLedger, IInv, TypeOK
<1>2. a >= 0
  BY <1>1, ComparisonsAreOrders DEF IInv, Control, Routed, Valid
<1>3. CASE a > 0
  <2>1. ledgers'[w] = Append(ledgers[w], e)
    BY <1>1, <1>3, ComparisonsAreOrders DEF OpenLedger, TypeOK
  <2>2. e \in Entry /\ Moved(e) = Format(a)
    BY <1>1, OpeningEntryType DEF OpeningEntry, Moved
  <2> HIDE DEF e
  <2>3. LedgerSum(w)' = LedgerSum(w) + Moved(e)
    BY <1>1, <2>1, <2>2, LedgerSumAppend
  <2> QED BY <1>1, <2>2, <2>3
<1>4. CASE a = 0
  <2>1. ledgers'[w] = ledgers[w]
    BY <1>4, ComparisonsAreOrders DEF OpenLedger
  <2>2. LedgerSum(w)' = LedgerSum(w) /\ LedgerSum(w) \in Int
    BY <1>1, <2>1, LedgerSumStays, LedgerSumType
  <2>3. Format(a) = 0
    BY <1>4 DEF Format, RoundHalfUp, Cent
  <2> QED BY <1>1, <2>2, <2>3
<1> QED BY <1>1, <1>2, <1>3, <1>4

\* What a step does to the balance and to the sum of a ledger: nothing, the
\* same to both, the insert of the balance, or the row of the opening.
LEMMA SumSteps ==
  ASSUME IInv, WalletsComeFirst, WholeBalances, [Next]_vars, NEW w \in WalletIds
  PROVE  \/ balance'[w] = balance[w] /\ ledgers'[w] = ledgers[w]
         \/ /\ balance[w] \in Int /\ balance'[w] \in Int /\ WholeCents(balance'[w])
            /\ balance'[w] - balance[w] = LedgerSum(w)' - LedgerSum(w)
            /\ \E e \in Entry : Posted(e) /\ ledgers'[w] = Append(ledgers[w], e)
         \/ \E r \in Requests :
              /\ InsertWallet(r) /\ w = req[r].wallet
              /\ balance[w] = None /\ ledgers[w] = <<>> /\ ledgers' = ledgers
              /\ balance'[w] = Format(req[r].amount)
         \/ \E r \in Requests : OpenLedger(r) /\ w = req[r].wallet
<1>1. TypeOK /\ TypeOK' /\ req' = req
  BY DatabaseSteps, InductiveStep DEF IInv
<1>2. CASE UNCHANGED dbVars
  BY <1>2 DEF dbVars
<1>3. ASSUME NEW r \in Requests, Ends(r)
      PROVE  \/ balance'[w] = balance[w] /\ ledgers'[w] = ledgers[w]
             \/ /\ balance[w] \in Int /\ balance'[w] \in Int /\ WholeCents(balance'[w])
                /\ balance'[w] - balance[w] = LedgerSum(w)' - LedgerSum(w)
                /\ \E e \in Entry : Posted(e) /\ ledgers'[w] = Append(ledgers[w], e)
  <2> SUFFICES ASSUME ~(balance'[w] = balance[w] /\ ledgers'[w] = ledgers[w])
               PROVE  /\ balance[w] \in Int /\ balance'[w] \in Int
                      /\ WholeCents(balance'[w])
                      /\ balance'[w] - balance[w] = LedgerSum(w)' - LedgerSum(w)
                      /\ \E e \in Entry : Posted(e) /\ ledgers'[w] = Append(ledgers[w], e)
    OBVIOUS
  <2>1. /\ balance[w] \in Int /\ balance'[w] \in Int /\ WholeCents(balance'[w])
        /\ balance'[w] = balance[w] + Change(req[r], w)
        /\ \E e \in Entry : /\ ledgers'[w] = Append(ledgers[w], e)
                            /\ e.log = r /\ Moved(e) = Change(req[r], w)
    BY <1>3, CommitMoves
  <2>2. PICK e \in Entry : /\ ledgers'[w] = Append(ledgers[w], e)
                           /\ e.log = r /\ Moved(e) = Change(req[r], w)
    BY <2>1
  <2>3. LedgerSum(w)' = LedgerSum(w) + Moved(e)
    BY <1>1, <2>2, LedgerSumAppend
  <2>4. LedgerSum(w) \in Int /\ Moved(e) \in Int
    BY <1>1, LedgerSumType, MovedType
  <2>5. Posted(e)
    BY <2>2, NamesAssumption DEF Posted
  <2> QED BY <2>1, <2>2, <2>3, <2>4, <2>5
<1>4. ASSUME NEW r \in Requests, InsertWallet(r)
      PROVE  \/ balance'[w] = balance[w] /\ ledgers'[w] = ledgers[w]
             \/ /\ InsertWallet(r) /\ w = req[r].wallet
                /\ balance[w] = None /\ ledgers[w] = <<>> /\ ledgers' = ledgers
                /\ balance'[w] = Format(req[r].amount)
  BY <1>1, <1>4, InsertedWallet
  DEF WalletsComeFirst, RowsNeedWallets, InsertWallet, TypeOK
<1>5. ASSUME NEW r \in Requests, OpenLedger(r), w # req[r].wallet
      PROVE  balance'[w] = balance[w] /\ ledgers'[w] = ledgers[w]
  BY <1>5, OpeningAppends DEF OpenLedger
<1> QED BY <1>2, <1>3, <1>4, <1>5, DatabaseSteps

LEMMA WholeStep ==
  ASSUME IInv, WalletsComeFirst, WholeBalances, [Next]_vars
  PROVE  WholeBalances'
<1> SUFFICES ASSUME NEW w \in WalletIds, balance'[w] # None
             PROVE  WholeCents(balance'[w])
  BY DEF WholeBalances, WholeCents
<1>1. ASSUME NEW r \in Requests, balance'[w] = Format(req[r].amount)
      PROVE  WholeCents(balance'[w])
  BY <1>1, InputType, FormatType DEF IInv, TypeOK
<1>2. ASSUME NEW r \in Requests, OpenLedger(r)
      PROVE  balance' = balance
  BY <1>2 DEF OpenLedger
<1> QED BY <1>1, <1>2, SumSteps DEF WholeBalances

\* A createWallet that has inserted its wallet lacks the opening in its ledger.
OpeningsPending ==
  \A r \in Requests, w \in WalletIds :
    pc[r] = "openLedger" /\ w = req[r].wallet =>
      balance[w] = LedgerSum(w) + Format(req[r].amount)

\* What the sums need of the rest of the state.
Accounted ==
  /\ IInv /\ RollbacksFail /\ WalletsComeFirst
  /\ SoleOpeners /\ SoleOpenings /\ WholeBalances

LEMMA InitAccounted == Init => Accounted /\ OpeningsPending /\ LedgerExplainsBalance
<1> SUFFICES ASSUME Init
             PROVE  Accounted /\ OpeningsPending /\ LedgerExplainsBalance
  OBVIOUS
<1>1. WholeBalances
  BY OpeningAssumption DEF Init, WholeBalances
<1>2. Accounted /\ OpeningsPending
  BY <1>1, InitInv, InitTruth, InitWallets, InitSole
  DEF Accounted, Truth, Init, OpeningsPending
<1>3. ASSUME NEW w \in WalletIds, balance[w] # None
      PROVE  balance[w] = LedgerSum(w)
  <2>1. /\ TypeOK /\ balance[w] = Opening[w] /\ ledgers[w] = OpeningRows(w)
        /\ Opening[w] \in 0 .. MaxMoney /\ WholeCents(Opening[w])
    BY <1>2, <1>3, OpeningAssumption DEF Accounted, IInv, Init
  <2>2. CASE Opening[w] = 0
    BY <2>1, <2>2, LedgerSumType DEF OpeningRows
  <2>3. CASE Opening[w] # 0
    <3> DEFINE e == OpeningEntry(Opening[w])
               f == [n \in DOMAIN ledgers[w] |-> Moved(ledgers[w][n])]
    <3>1. ledgers[w] = <<e>> /\ Opening[w] \in Int
      BY <1>3, <2>1, <2>3, MaxMoneyAssumption DEF OpeningRows
    <3>2. Moved(e) = Opening[w]
      BY <2>1, <3>1, FormatType DEF Moved, OpeningEntry
    <3>3. DOMAIN ledgers[w] = {1} /\ f[1] = Opening[w]
      <4> HIDE DEF e
      <4> QED BY <3>1, <3>2
    <3>4. SumFunctionOnSet(f, {1}) = f[1] + SumFunctionOnSet(f, {})
      <4>1. IsFiniteSet({1}) /\ {1} \ {1} = {}
        BY FS_Singleton
      <4> HIDE DEF f
      <4> QED BY <3>1, <3>3, <4>1, SumWithout
    <3>5. SumFunctionOnSet(f, {}) = 0
      <4> HIDE DEF f
      <4> QED BY FS_EmptySet, SumUnfolds
    <3>6. LedgerSum(w) = SumFunctionOnSet(f, {1})
      BY <3>3 DEF LedgerSum, SumFunction
    <3> HIDE DEF f
    <3> QED BY <2>1, <3>1, <3>3, <3>4, <3>5, <3>6
  <2> QED BY <2>2, <2>3
<1> QED BY <1>2, <1>3 DEF LedgerExplainsBalance

LEMMA AccountedStep == Accounted /\ [Next]_vars => Accounted'
  BY InductiveStep, RollbacksStep, WalletsStep, SoleOpenersStep, SoleOpeningsStep,
     WholeStep DEF Accounted

\* A request at the opening row got there in this step or was there before.
LEMMA OpenersStay ==
  ASSUME IInv, [Next]_vars, NEW r \in Requests, pc'[r] = "openLedger"
  PROVE  req' = req /\ (InsertWallet(r) \/ (pc[r] = "openLedger" /\ ~OpenLedger(r)))
<1>1. req' = req /\ (pc[r] = "openLedger" \/ InsertWallet(r))
  BY OnlyInsertOpens DEF IInv
<1>2. ~OpenLedger(r)
  BY MovesAlone DEF Unacknowledged, OpenLedger, IInv
<1> QED BY <1>1, <1>2

LEMMA SumsAreIntegers == TypeOK => \A w \in WalletIds : LedgerSum(w) \in Int
  BY LedgerSumType

LEMMA NextSums ==
  ASSUME Accounted, [Next]_vars
  PROVE  /\ req' = req
         /\ \A w \in WalletIds : LedgerSum(w) \in Int /\ LedgerSum(w)' \in Int
         /\ \A r \in Requests : /\ req[r].wallet \in WalletIds
                                /\ Format(req[r].amount) \in Int
<1>1. IInv /\ TypeOK /\ TypeOK' /\ req' = req
  BY InductiveStep, DatabaseSteps DEF Accounted, IInv
<1>2. (TypeOK => \A w \in WalletIds : LedgerSum(w) \in Int)'
  BY SumsAreIntegers, PTL
<1>3. \A w \in WalletIds : LedgerSum(w) \in Int
  BY <1>1, SumsAreIntegers
<1>4. \A r \in Requests : req[r].wallet \in WalletIds /\ Format(req[r].amount) \in Int
  BY <1>1, InputType, FormatType DEF TypeOK
<1> QED BY <1>1, <1>2, <1>3, <1>4

LEMMA PendingStep ==
  ASSUME Accounted, OpeningsPending, [Next]_vars
  PROVE  OpeningsPending'
<1>1. /\ IInv /\ WalletsComeFirst /\ WholeBalances /\ SoleOpeners /\ TypeOK
      /\ req' = req
  BY NextSums DEF Accounted, IInv
<1> SUFFICES ASSUME NEW r \in Requests, NEW w \in WalletIds,
                    pc'[r] = "openLedger", w = req[r].wallet
             PROVE  balance'[w] = LedgerSum(w)' + Format(req[r].amount)
  BY <1>1 DEF OpeningsPending
<1> DEFINE a == Format(req[r].amount)
<1>2. LedgerSum(w) \in Int /\ LedgerSum(w)' \in Int /\ a \in Int
  BY NextSums
<1>3. CASE InsertWallet(r)
  <2>1. balance'[w] = a /\ ledgers' = ledgers /\ ledgers[w] = <<>>
    BY <1>1, <1>3, InsertedWallet
    DEF InsertWallet, TypeOK, WalletsComeFirst, RowsNeedWallets
  <2>2. LedgerSum(w)' = 0
    BY <1>1, <2>1, LedgerSumType, LedgerSumStays
  <2> QED BY <1>2, <2>1, <2>2
<1>4. CASE pc[r] = "openLedger" /\ ~OpenLedger(r)
  <2>1. balance[w] = LedgerSum(w) + a /\ balance[w] # None /\ Opener(r)
    BY <1>1, <1>4 DEF OpeningsPending, SoleOpeners, Opener, IInv, Control, Routed
  <2>2. ASSUME NEW s \in Requests, OpenLedger(s), w = req[s].wallet
        PROVE  FALSE
    <3>1. s # r /\ Opener(s)
      BY <1>1, <1>4, <2>2 DEF Opener, OpenLedger, IInv, Control, Routed
    <3> QED BY <1>1, <2>1, <2>2, <3>1 DEF SoleOpeners
  <2>3. CASE balance'[w] = balance[w] /\ ledgers'[w] = ledgers[w]
    BY <1>1, <2>1, <2>3, LedgerSumStays
  <2>4. CASE /\ balance[w] \in Int /\ balance'[w] \in Int
             /\ balance'[w] - balance[w] = LedgerSum(w)' - LedgerSum(w)
    BY <1>2, <2>1, <2>4
  <2> QED BY <1>1, <2>1, <2>2, <2>3, <2>4, SumSteps
<1> QED BY <1>1, <1>3, <1>4, OpenersStay

\* What LedgerExplainsBalance says of a wallet.
Explained(w) ==
  \/ balance[w] = LedgerSum(w)
  \/ /\ \A n \in DOMAIN ledgers[w] : Posted(ledgers[w][n])
     /\ \E r \in Requests : /\ OpenedWithoutRow(r, w)
                            /\ balance[w] = LedgerSum(w) + Format(req[r].amount)

\* A createWallet that has inserted its wallet gets to the row or fails.
LEMMA WithoutRowStays ==
  ASSUME TypeOK, TypeOK', [Next]_vars, NEW w \in WalletIds, NEW r \in Requests,
         IInv, OpenedWithoutRow(r, w), ~OpenLedger(r)
  PROVE  OpenedWithoutRow(r, w)'
<1>1. req' = req /\ Fate(r)
  BY DatabaseSteps, FateStep
<1>2. CASE pc[r] = "done"
  BY <1>1, <1>2 DEF OpenedWithoutRow, Fate, Stays, GoesOn, RolledBack, Fails,
                    Refused, Succeeds, Commit, CheckCache, FillCache, OpenLedger,
                    GetCached, SetCached
<1>3. CASE pc[r] = "openLedger"
  BY <1>1, <1>3 DEF OpenedWithoutRow, Fate, Stays, GoesOn, RolledBack, Fails,
                    Setbacks, Refused, Succeeds, Commit, CheckCache, FillCache,
                    GetCached, SetCached
<1> QED BY <1>2, <1>3 DEF OpenedWithoutRow

LEMMA ExplainedStep ==
  ASSUME Accounted, OpeningsPending, LedgerExplainsBalance, [Next]_vars
  PROVE  LedgerExplainsBalance'
<1>1. /\ IInv /\ WalletsComeFirst /\ WholeBalances /\ SoleOpeners /\ SoleOpenings
      /\ TypeOK /\ TypeOK' /\ req' = req
  BY NextSums, InductiveStep DEF Accounted, IInv
<1>2. ASSUME NEW w \in WalletIds, balance'[w] # None
      PROVE  Explained(w)'
  <2>1. LedgerSum(w) \in Int /\ LedgerSum(w)' \in Int
    BY NextSums
  <2>2. ASSUME NEW r \in Requests, InsertWallet(r), w = req[r].wallet,
               ledgers[w] = <<>>, ledgers' = ledgers,
               balance'[w] = Format(req[r].amount)
        PROVE  Explained(w)'
    <3>1. LedgerSum(w)' = 0 /\ \A n \in DOMAIN ledgers'[w] : Posted(ledgers'[w][n])
      BY <1>1, <2>2, LedgerSumType, LedgerSumStays
    <3>2. pc'[r] = "openLedger" /\ req'[r].op = "CREATE" /\ req'[r].wallet = w
      BY <1>1, <2>2, MovesAlone DEF InsertWallet, IInv, Control, Routed
    <3>3. balance'[w] = LedgerSum(w)' + Format(req'[r].amount)
      BY <1>1, <2>2, <3>1, NextSums
    <3> QED BY <3>1, <3>2, <3>3 DEF Explained, OpenedWithoutRow, Posted
  <2>3. ASSUME NEW r \in Requests, OpenLedger(r), w = req[r].wallet
        PROVE  Explained(w)'
    <3>1. balance[w] = LedgerSum(w) + Format(req[r].amount)
      BY <1>1, <2>3 DEF OpeningsPending, OpenLedger
    <3> QED BY <1>1, <2>3, <3>1, OpeningMoves DEF Explained
  <2>4. ASSUME \A r \in Requests : OpenLedger(r) => w # req[r].wallet,
               balance[w] \in Int, balance'[w] \in Int,
               balance'[w] - balance[w] = LedgerSum(w)' - LedgerSum(w),
               (\A n \in DOMAIN ledgers[w] : Posted(ledgers[w][n])) =>
                 \A n \in DOMAIN ledgers'[w] : Posted(ledgers'[w][n])
        PROVE  Explained(w)'
    <3>1. Explained(w)
      BY <2>4, NamesAssumption DEF LedgerExplainsBalance, Explained
    <3>2. CASE balance[w] = LedgerSum(w)
      <4>1. balance'[w] = LedgerSum(w)'
        BY <2>1, <2>4, <3>2
      <4> QED BY <4>1 DEF Explained
    <3>3. ASSUME NEW r \in Requests, OpenedWithoutRow(r, w),
                 \A n \in DOMAIN ledgers[w] : Posted(ledgers[w][n]),
                 balance[w] = LedgerSum(w) + Format(req[r].amount)
          PROVE  Explained(w)'
      <4>1. ~OpenLedger(r)
        BY <2>4, <3>3 DEF OpenedWithoutRow
      <4>2. OpenedWithoutRow(r, w)'
        BY <1>1, <3>3, <4>1, WithoutRowStays
      <4>3. balance'[w] = LedgerSum(w)' + Format(req'[r].amount)
        BY <1>1, <2>1, <2>4, <3>3, NextSums
      <4>4. \A n \in DOMAIN ledgers'[w] : Posted(ledgers'[w][n])
        BY <2>4, <3>3
      <4> QED BY <4>2, <4>3, <4>4 DEF Explained, Posted
    <3> QED BY <3>1, <3>2, <3>3 DEF Explained
  <2>5. CASE \A r \in Requests : OpenLedger(r) => w # req[r].wallet
    <3>1. ASSUME balance'[w] = balance[w], ledgers'[w] = ledgers[w]
          PROVE  Explained(w)'
      <4>1. balance[w] \in Int
        BY <1>1, <1>2, <3>1 DEF TypeOK, Amounts
      <4>2. LedgerSum(w)' = LedgerSum(w)
        BY <1>1, <3>1, LedgerSumStays
      <4> QED BY <2>1, <2>4, <2>5, <3>1, <4>1, <4>2
    <3>2. ASSUME balance[w] \in Int, balance'[w] \in Int,
                 balance'[w] - balance[w] = LedgerSum(w)' - LedgerSum(w),
                 NEW e \in Entry, Posted(e), ledgers'[w] = Append(ledgers[w], e)
          PROVE  Explained(w)'
      <4>1. ledgers[w] \in Seq(Entry)
        BY <1>1 DEF TypeOK
      <4>2. (\A n \in DOMAIN ledgers[w] : Posted(ledgers[w][n])) =>
              \A n \in DOMAIN ledgers'[w] : Posted(ledgers'[w][n])
        BY <3>2, <4>1, AppendedRows
      <4> QED BY <2>4, <2>5, <3>2, <4>2
    <3> QED BY <1>1, <2>2, <2>5, <3>1, <3>2, SumSteps
  <2> QED BY <2>3, <2>5
<1>3. (\A w \in WalletIds : balance[w] # None => Explained(w))'
  BY <1>2
<1> QED
  BY <1>3 DEF LedgerExplainsBalance, Explained

\* A wallet's ledger accounts for its balance to the cent, whatever postings
\* raced, failed and were rounded; only a createWallet that was cut short or
\* has not been answered yet can lack a row, the one of its opening.
THEOREM LedgersExplainBalances == Spec => []LedgerExplainsBalance
<1>1. Init => Accounted /\ OpeningsPending /\ LedgerExplainsBalance
  BY InitAccounted
<1>2. Accounted /\ OpeningsPending /\ LedgerExplainsBalance /\ [Next]_vars =>
        (Accounted /\ OpeningsPending /\ LedgerExplainsBalance)'
  BY AccountedStep, PendingStep, ExplainedStep
<1> QED
  BY <1>1, <1>2, PTL DEF Spec

------------------------------------------------------------------------------
(* Transfers conserve the money there is.                                  *)

\* A sum of integers changes by what two of them change by, the rest being
\* the same.
LEMMA SumMovesTwo ==
  ASSUME NEW f, NEW g, NEW S, IsFiniteSet(S),
         \A x \in S : f[x] \in Int /\ g[x] \in Int,
         NEW a \in S, NEW b \in S, a # b,
         \A x \in S \ {a, b} : g[x] = f[x]
  PROVE  SumFunctionOnSet(g, S)
           = SumFunctionOnSet(f, S) + (g[a] - f[a]) + (g[b] - f[b])
<1> DEFINE R == (S \ {a}) \ {b}
<1>1. IsFiniteSet(S \ {a}) /\ IsFiniteSet(R) /\ b \in S \ {a}
  BY FS_Subset
<1>2. ASSUME NEW h, \A x \in S : h[x] \in Int
      PROVE  /\ SumFunctionOnSet(h, S) = h[a] + (h[b] + SumFunctionOnSet(h, R))
             /\ SumFunctionOnSet(h, R) \in Int
  <2>1. SumFunctionOnSet(h, S) = h[a] + SumFunctionOnSet(h, S \ {a})
    BY <1>2, SumWithout
  <2>2. SumFunctionOnSet(h, S \ {a}) = h[b] + SumFunctionOnSet(h, R)
    BY <1>1, <1>2, SumWithout
  <2>3. SumFunctionOnSet(h, R) \in Int
    BY <1>1, <1>2, SumType
  <2> QED BY <2>1, <2>2, <2>3
<1>3. SumFunctionOnSet(g, R) = SumFunctionOnSet(f, R)
  <2>1. \A x \in R : g[x] = f[x]
    OBVIOUS
  <2> QED BY <1>1, <2>1, SumOfEqual
<1>4. /\ SumFunctionOnSet(f, S) = f[a] + (f[b] + SumFunctionOnSet(f, R))
      /\ SumFunctionOnSet(f, R) \in Int
  BY <1>2
<1>5. SumFunctionOnSet(g, S) = g[a] + (g[b] + SumFunctionOnSet(g, R))
  BY <1>2
<1>6. f[a] \in Int /\ f[b] \in Int /\ g[a] \in Int /\ g[b] \in Int
  OBVIOUS
<1> HIDE DEF R
<1> QED BY <1>3, <1>4, <1>5, <1>6

\* The commit of a transfer moves the amount from the source to the
\* destination, and the source keeps what KeptBack says.
LEMMA TransferMoves ==
  ASSUME IsFiniteSet(WalletIds), IInv, WholeBalances,
         NEW r \in Requests, Ends(r), req[r].op = "TRANSFER"
  PROVE  Total(balance') = Total(balance) + KeptBack(req[r])
<1> DEFINE i == req[r]
           a == i.wallet
           b == i.to
           H == {w \in WalletIds : balance[w] # None}
           x == Format(i.amount)
<1>1. /\ TypeOK /\ i \in Inputs /\ Valid(i)
  BY CommitRow DEF IInv, TypeOK, Control, Routed, TxSteps
<1>2. a \in WalletIds /\ b \in WalletIds /\ b # a /\ x \in Int /\ KeptBack(i) \in Int
  BY <1>1, InputType, FormatType DEF Valid, KeptBack, Cent
<1>3. /\ Takes(i, a) /\ Change(i, a) = KeptBack(i) - x
      /\ Gives(i, b) /\ Change(i, b) = x
      /\ \A w \in WalletIds \ {a, b} : ~Takes(i, w) /\ ~Gives(i, w)
  BY <1>2 DEF Takes, Gives, Change
<1>4. /\ balance[a] \in Int /\ balance'[a] \in Int
      /\ balance'[a] = balance[a] + (KeptBack(i) - x)
      /\ balance[b] \in Int /\ balance'[b] \in Int
      /\ balance'[b] = balance[b] + x
  BY <1>2, <1>3, CommitMoves
<1>5. \A w \in WalletIds \ {a, b} : balance'[w] = balance[w]
  BY <1>3, CommitMoves
<1>6. /\ H = {w \in WalletIds : balance'[w] # None}
      /\ a \in H /\ b \in H
  BY <1>2, <1>4, <1>5, NamesAssumption
<1>7. IsFiniteSet(H)
  BY FS_Subset
<1>8. \A w \in H : balance[w] \in Int /\ balance'[w] \in Int
  BY <1>1, <1>4, <1>5 DEF TypeOK, Amounts
<1>9. SumFunctionOnSet(balance', H)
        = SumFunctionOnSet(balance, H) + (balance'[a] - balance[a])
                                       + (balance'[b] - balance[b])
  <2>1. \A w \in H \ {a, b} : balance'[w] = balance[w]
    BY <1>5
  <2> HIDE DEF H, a, b
  <2> QED BY <1>2, <1>6, <1>7, <1>8, <2>1, SumMovesTwo
<1>10. SumFunctionOnSet(balance, H) \in Int
  BY <1>7, <1>8, SumType
<1>11. /\ Total(balance) = SumFunctionOnSet(balance, H)
       /\ Total(balance') = SumFunctionOnSet(balance', H)
  BY <1>6 DEF Total
<1> HIDE DEF H, a, b, x, i
<1>12. Total(balance') = Total(balance) + KeptBack(i)
  BY <1>2, <1>4, <1>9, <1>10, <1>11
<1> QED BY <1>12 DEF i

\* The commit of a transfer changes no total, but for the cent the source keeps
\* of half a cent.  A table has finitely many rows: without that there is no
\* total.
THEOREM TransfersConserveMoney ==
  ASSUME IsFiniteSet(WalletIds)
  PROVE  Spec => TransfersConserve
<1> DEFINE Conserves ==
             \A k \in KeySpace :
               logs[k] = None /\ logs'[k] # None /\ logs'[k].op = "TRANSFER"
                 => Total(balance') = Total(balance) + KeptBack(req[logs'[k].id])
<1>1. ASSUME IInv, WholeBalances, [Next]_vars
      PROVE  Conserves
  <2> SUFFICES ASSUME NEW k \in KeySpace, logs[k] = None, logs'[k] # None,
                      logs'[k].op = "TRANSFER"
               PROVE  Total(balance') = Total(balance) + KeptBack(req[logs'[k].id])
    OBVIOUS
  <2>1. PICK r \in Requests : Ends(r) /\ k = MyKey(r) /\ logs'[k] = txLog[r]
    BY <1>1, LogsGrow
  <2>2. logs'[k].id = r /\ req[r].op = "TRANSFER"
    BY <1>1, <2>1, CommitRow
  <2> QED BY <1>1, <2>1, <2>2, TransferMoves
<1>2. IInv /\ WholeBalances /\ [Next]_vars => [Conserves]_vars
  BY <1>1
<1>3. Init => Accounted /\ OpeningsPending /\ LedgerExplainsBalance
  BY InitAccounted
<1>4. Accounted /\ [Next]_vars => Accounted'
  BY AccountedStep
<1>5. Accounted => IInv /\ WholeBalances
  BY DEF Accounted
<1> QED BY <1>2, <1>3, <1>4, <1>5, PTL DEF Spec, TransfersConserve
=============================================================================
