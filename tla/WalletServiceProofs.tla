------------------------- MODULE WalletServiceProofs -------------------------
(***************************************************************************)
(* The inductive invariant of the wallet service, and what it gives: for   *)
(* every set of requests, wallets and keys, every opening balance, every   *)
(* column width and every choice of failures.  Each step keeps the types,  *)
(* what row locks protect, what the unique index of the keys protects, and *)
(* what makes a commit a posting.                                          *)
(***************************************************************************)
EXTENDS WalletProperties, TLAPS

------------------------------------------------------------------------------
(* Arithmetic.                                                             *)

\* toFixed(2) of a whole number of mills is one.
LEMMA RoundingInt == \A x \in Int : RoundHalfUp(x) \in Int
  BY DEF RoundHalfUp, Cent

\* A whole number of cents that bounds an amount bounds the rounded amount.
LEMMA RoundingBounded ==
  ASSUME NEW x \in Int, NEW top \in Nat, WholeCents(top), 0 <= x, x <= top
  PROVE  RoundHalfUp(x) \in 0 .. top
  BY DEF RoundHalfUp, WholeCents, Cent

\* Rounding does not take an amount below zero.
LEMMA RoundingNotNegative ==
  ASSUME NEW x \in Int, 0 <= x
  PROVE  RoundHalfUp(x) \in Nat
  BY DEF RoundHalfUp, Cent

\* The comparisons of MoneyMath are those of the integers.
LEMMA ComparisonsAreOrders ==
  \A x, y \in Int : /\ LessThan(x, y) <=> x < y
                    /\ LessThanOrEqual(x, y) <=> x <= y
                    /\ GreaterThan(x, y) <=> x > y
  BY DEF LessThan, LessThanOrEqual, GreaterThan, Compare

------------------------------------------------------------------------------
(* Rows.                                                                   *)

\* The fields of a request a client may make.
LEMMA InputType ==
  ASSUME NEW i \in Inputs
  PROVE  /\ i.op \in Operations /\ i.wallet \in WalletIds /\ i.to \in WalletIds
         /\ i.amount \in Int /\ i.key \in Keys \cup {None}
  BY InputsAssumption DEF Input

\* The log row a posting inserts is a row of transaction_logs.
LEMMA NewLogType ==
  ASSUME NEW i \in Inputs, NEW r \in Requests
  PROVE  NewLog(i, r) \in LogRow
  BY InputType, RoundingInt DEF NewLog, LogRow, Statuses, Format

\* A log row stays one when its status changes.
LEMMA WithStatusType ==
  ASSUME NEW row \in LogRow, NEW status \in Statuses
  PROVE  WithStatus(row, status) \in LogRow /\ WithStatus(row, status) # None
  BY RowsAssumption DEF WithStatus, LogRow

\* A request has a key, its own or a fresh one.
LEMMA KeyOfType ==
  ASSUME NEW i \in Inputs, NEW r \in Requests
  PROVE  KeyOf(i, r) \in KeySpace
  BY InputType DEF KeyOf, KeySpace

\* The row of an initial balance is a row of ledgers.
LEMMA OpeningEntryType ==
  ASSUME NEW x \in Int
  PROVE  OpeningEntry(x) \in Entry
  BY RoundingInt DEF OpeningEntry, Entry, Format

\* The rows a posting writes are rows of ledgers.
LEMMA LegsType ==
  ASSUME NEW i \in Inputs, NEW r \in Requests,
         NEW rows \in [WalletIds -> Int \cup {None}],
         \A w \in Touched(i) : rows[w] # None
  PROVE  Legs(i, r, rows) \in [WalletIds -> Entry \cup {None}]
<1> SUFFICES ASSUME NEW w \in WalletIds
             PROVE  Legs(i, r, rows)[w] \in Entry \cup {None}
  BY DEF Legs
<1>1. CASE Takes(i, w)
  <2>1. rows[w] \in Int
    BY <1>1, InputType DEF Takes, Touched
  <2>2. DebitLeg(i, r, rows[w]) \in Entry
    BY <2>1, InputType, RoundingInt DEF DebitLeg, Entry, Format, Subtract
  <2> QED BY <1>1, <2>2 DEF Legs
<1>2. CASE ~Takes(i, w) /\ Gives(i, w)
  <2>1. rows[w] \in Int
    BY <1>2, InputType DEF Gives, Touched
  <2>2. CreditLeg(i, r, rows[w]) \in Entry
    BY <2>1, InputType, RoundingInt DEF CreditLeg, Entry, Format, Add
  <2> QED BY <1>2, <2>2 DEF Legs
<1>3. CASE ~Takes(i, w) /\ ~Gives(i, w)
  BY <1>3 DEF Legs
<1> QED BY <1>1, <1>2, <1>3

\* The ledgers the model starts with hold rows of ledgers.
LEMMA OpeningRowsType == \A w \in WalletIds : OpeningRows(w) \in Seq(Entry)
<1> TAKE w \in WalletIds
<1>1. CASE Opening[w] = None \/ Opening[w] = 0
  BY <1>1 DEF OpeningRows
<1>2. CASE ~(Opening[w] = None \/ Opening[w] = 0)
  <2>1. Opening[w] \in Int
    BY <1>2, OpeningAssumption, MaxMoneyAssumption
  <2>2. OpeningEntry(Opening[w]) \in Entry
    BY <2>1, OpeningEntryType
  <2> QED BY <1>2, <2>2 DEF OpeningRows
<1> QED BY <1>1, <1>2

------------------------------------------------------------------------------
(* Every step keeps the types.                                             *)

AnswersTyped ==
  /\ pc \in [Requests -> Steps]
  /\ reply \in [Requests -> [code: Codes, value: Requests \cup {None} \cup Int]]

\* Moving a request to another step keeps pc and reply typed.
LEMMA GotoType ==
  ASSUME TypeOK, NEW r \in Requests, NEW step \in Steps, Goto(r, step)
  PROVE  AnswersTyped'
  BY DEF TypeOK, AnswersTyped, Goto

\* Answering a request keeps pc and reply typed.
LEMMA AnswerType ==
  ASSUME TypeOK, NEW r \in Requests, NEW code \in Codes,
         NEW value \in Requests \cup {None} \cup Int, Answer(r, code, value)
  PROVE  AnswersTyped'
  BY DEF TypeOK, AnswersTyped, Answer, Steps

\* An exception in a transaction keeps pc and reply typed.
LEMMA ThrowType ==
  ASSUME TypeOK, NEW r \in Requests, NEW code \in Codes, Throw(r, code)
  PROVE  AnswersTyped'
  BY DEF TypeOK, AnswersTyped, Throw, Steps

\* An answer from a stored row keeps pc and reply typed.
LEMMA ReplayType ==
  ASSUME TypeOK, NEW r \in Requests, NEW row \in LogRow, Replay(r, row)
  PROVE  AnswersTyped'
<1>1. row.id \in Requests
  BY DEF LogRow
<1>2. CASE Answer(r, "serverError", None)
  BY <1>2, AnswerType DEF Codes
<1>3. CASE Answer(r, "ok", row.id)
  BY <1>1, <1>3, AnswerType DEF Codes
<1>4. CASE Answer(r, "conflict", None)
  BY <1>4, AnswerType DEF Codes
<1>5. CASE Answer(r, "badRequest", None)
  BY <1>5, AnswerType DEF Codes
<1> QED BY <1>2, <1>3, <1>4, <1>5 DEF Replay

\* A commit keeps balances, ledgers and logs typed.
LEMMA PublishType ==
  ASSUME TypeOK, NEW r \in Requests, Publish(r)
  PROVE  /\ balance' \in [WalletIds -> Amounts]
         /\ ledgers' \in [WalletIds -> Seq(Entry)]
         /\ logs' \in [KeySpace -> LogRow \cup {None}]
<1> DEFINE legs == writes[r]
<1>0. legs \in [WalletIds -> Entry \cup {None}]
  BY DEF TypeOK
<1>1. ASSUME NEW w \in WalletIds, legs[w] # None
      PROVE  legs[w] \in Entry /\ legs[w].after \in Int
  BY <1>0, <1>1 DEF Entry
<1>2. balance' \in [WalletIds -> Amounts]
  BY <1>1 DEF TypeOK, Publish, PostedBalance, Amounts
<1>3. ledgers' \in [WalletIds -> Seq(Entry)]
  BY <1>1 DEF TypeOK, Publish, PostedLedgers
<1>4. logs' \in [KeySpace -> LogRow \cup {None}]
  BY KeyOfType DEF TypeOK, Publish, MyKey
<1> QED BY <1>2, <1>3, <1>4

\* The end of a transaction leaves its private state empty, and typed.
LEMMA EndTxType ==
  ASSUME TypeOK, NEW r \in Requests, EndTx(r)
  PROVE  /\ txLog' \in [Requests -> LogRow \cup {None}]
         /\ keyShare' \in [Requests -> SUBSET WalletIds]
         /\ matched' \in [Requests -> SUBSET WalletIds]
         /\ seen' \in [Requests -> [WalletIds -> Amounts]]
         /\ writes' \in [Requests -> [WalletIds -> Entry \cup {None}]]
  BY DEF TypeOK, EndTx, NoRows, Amounts

\* At the end of the SELECT every row a posting touches has been read.
LEMMA AllTouchedRead ==
  ASSUME NEW r \in Requests, RowsLocked(r), matched[r] = Touched(req[r])
  PROVE  \A w \in Touched(req[r]) : seen[r][w] # None
  BY DEF RowsLocked, Unlocked

\* A failed statement keeps every type.
LEMMA DatabaseErrorType ==
  ASSUME TypeOK, NEW r \in Requests, DatabaseError(r)
  PROVE  TypeOK'
<1>1. AnswersTyped'
  BY AnswerType DEF DatabaseError, Codes
<1> QED BY <1>1, EndTxType
        DEF DatabaseError, TypeOK, AnswersTyped, dbVars, cacheVars, localVars

\* Every step keeps every type.
LEMMA TypeStep ==
  ASSUME TypeOK, Control, [Next]_vars
  PROVE  TypeOK'
<1> USE DEF dbVars, txVars, cacheVars, localVars
<1>1. ASSUME NEW r \in Requests, Refuse(r)
      PROVE  TypeOK'
  BY <1>1
     DEF Refuse, Answer, TypeOK, Steps, TxSteps, AppSteps, Codes, Amounts
<1>2. ASSUME NEW r \in Requests, Accept(r)
      PROVE  TypeOK'
  BY <1>2
     DEF Accept, Goto, FirstStep, TypeOK, Steps, TxSteps, AppSteps, Codes, Amounts
<1>3. ASSUME NEW r \in Requests, CheckCache(r)
      PROVE  TypeOK'
  <2>1. AnswersTyped'
    <3>1. CASE idemCache[MyKey(r)] # None
      <4>1. idemCache[MyKey(r)] \in LogRow
        BY <3>1, KeyOfType DEF TypeOK, MyKey
      <4> QED BY <1>3, <3>1, <4>1, ReplayType DEF CheckCache
    <3>2. CASE idemCache[MyKey(r)] = None
      BY <1>3, <3>2, GotoType DEF CheckCache, Steps, AppSteps
    <3> QED BY <3>1, <3>2
  <2> QED BY <1>3, <2>1 DEF CheckCache, TypeOK, AnswersTyped
<1>4. ASSUME NEW r \in Requests, CheckLog(r)
      PROVE  TypeOK'
  <2>1. AnswersTyped'
    <3>1. CASE logs[MyKey(r)] # None
      BY <1>4, <3>1, GotoType DEF CheckLog, Steps, AppSteps
    <3>2. CASE logs[MyKey(r)] = None
      BY <1>4, <3>2, GotoType DEF CheckLog, Steps, TxSteps
    <3> QED BY <3>1, <3>2
  <2>2. logs[MyKey(r)] \in LogRow \cup {None}
    BY KeyOfType DEF TypeOK, MyKey
  <2>3. foundLog' \in [Requests -> LogRow \cup {None}]
    BY <1>4, <2>2 DEF CheckLog, TypeOK
  <2> QED BY <1>4, <2>1, <2>3 DEF CheckLog, TypeOK, AnswersTyped
<1>5. ASSUME NEW r \in Requests, FillCache(r)
      PROVE  TypeOK'
  <2>1. foundLog[r] \in LogRow
    BY <1>5 DEF FillCache, TypeOK, Control, Logged
  <2>2. AnswersTyped'
    <3>1. CASE Replay(r, foundLog[r])
      BY <2>1, <3>1, ReplayType
    <3>2. CASE Unacknowledged(r)
      BY <3>2, AnswerType DEF Unacknowledged, Codes
    <3> QED BY <1>5, <3>1, <3>2 DEF FillCache
  <2>3. idemCache' \in [KeySpace -> LogRow \cup {None}]
    BY <1>5, <2>1, KeyOfType DEF FillCache, TypeOK, MyKey
  <2> QED BY <1>5, <2>2, <2>3 DEF FillCache, TypeOK, AnswersTyped
<1>6. ASSUME NEW r \in Requests, InsertLog(r)
      PROVE  TypeOK'
  BY <1>6, InputType, NewLogType
     DEF InsertLog, Goto, TypeOK, Steps, TxSteps, AppSteps, Codes, Amounts
<1>7. ASSUME NEW r \in Requests, LogRefused(r)
      PROVE  TypeOK'
  <2>1. DatabaseError(r)
    BY <1>7 DEF LogRefused
  <2> QED BY <2>1, DatabaseErrorType
<1>8. ASSUME NEW r \in Requests, CheckWalletRef(r)
      PROVE  TypeOK'
  BY <1>8, InputType
     DEF CheckWalletRef, Goto, TypeOK, Steps, TxSteps, AppSteps, Codes, Amounts
<1>9. ASSUME NEW r \in Requests, WalletRefMissing(r)
      PROVE  TypeOK'
  <2>1. DatabaseError(r)
    BY <1>9 DEF WalletRefMissing
  <2> QED BY <2>1, DatabaseErrorType
<1>10. ASSUME NEW r \in Requests, Select(r)
      PROVE  TypeOK'
  <2>1. AnswersTyped'
    BY <1>10, GotoType DEF Select, Steps, TxSteps
  <2>2. matched' \in [Requests -> SUBSET WalletIds]
    BY <1>10, InputType DEF Select, TypeOK, Touched
  <2> QED BY <1>10, <2>1, <2>2 DEF Select, TypeOK, AnswersTyped
<1>11. ASSUME NEW r \in Requests, NEW w \in WalletIds, LockRow(r, w)
      PROVE  TypeOK'
  BY <1>11
     DEF LockRow, TypeOK, Steps, TxSteps, AppSteps, Codes, Amounts
<1>12. ASSUME NEW r \in Requests, RowsMissing(r)
      PROVE  TypeOK'
  <2>1. AnswersTyped'
    BY <1>12, ThrowType DEF RowsMissing, Fail, Codes
  <2>2. txLog[r] \in LogRow
    BY <1>12 DEF RowsMissing, RowsLocked, TypeOK, Control, Logged, TxSteps
  <2>3. txLog' \in [Requests -> LogRow \cup {None}]
    BY <1>12, <2>2, WithStatusType DEF RowsMissing, Fail, TypeOK, Statuses
  <2> QED BY <1>12, <2>1, <2>3 DEF RowsMissing, Fail, TypeOK, AnswersTyped
<1>13. ASSUME NEW r \in Requests, FundsShort(r)
      PROVE  TypeOK'
  <2>1. AnswersTyped'
    BY <1>13, ThrowType DEF FundsShort, Fail, Codes
  <2>2. txLog[r] \in LogRow
    BY <1>13 DEF FundsShort, RowsLocked, TypeOK, Control, Logged, TxSteps
  <2>3. txLog' \in [Requests -> LogRow \cup {None}]
    BY <1>13, <2>2, WithStatusType DEF FundsShort, Fail, TypeOK, Statuses
  <2> QED BY <1>13, <2>1, <2>3 DEF FundsShort, Fail, TypeOK, AnswersTyped
<1>14. ASSUME NEW r \in Requests, Overflow(r)
      PROVE  TypeOK'
  <2>1. DatabaseError(r)
    BY <1>14 DEF Overflow
  <2> QED BY <2>1, DatabaseErrorType
<1>15. ASSUME NEW r \in Requests, Write(r)
      PROVE  TypeOK'
  <2>1. AnswersTyped'
    BY <1>15, GotoType DEF Write, Steps, TxSteps
  <2>2. txLog[r] \in LogRow
    BY <1>15 DEF Write, RowsLocked, TypeOK, Control, Logged, TxSteps
  <2>3. txLog' \in [Requests -> LogRow \cup {None}]
    BY <1>15, <2>2, WithStatusType DEF Write, TypeOK, Statuses
  <2>4. Legs(req[r], r, seen[r]) \in [WalletIds -> Entry \cup {None}]
    <3>1. seen[r] \in [WalletIds -> Int \cup {None}] /\ req[r] \in Inputs
      BY DEF TypeOK, Amounts
    <3>2. \A w \in Touched(req[r]) : seen[r][w] # None
      BY <1>15, AllTouchedRead DEF Write
    <3> QED BY <3>1, <3>2, LegsType
  <2>5. writes' \in [Requests -> [WalletIds -> Entry \cup {None}]]
    BY <1>15, <2>4 DEF Write, TypeOK
  <2> QED BY <1>15, <2>1, <2>3, <2>5 DEF Write, TypeOK, AnswersTyped
<1>16. ASSUME NEW r \in Requests, InvalidateFrom(r)
      PROVE  TypeOK'
  BY <1>16
     DEF InvalidateFrom, Goto, TypeOK, Steps, TxSteps, AppSteps, Codes, Amounts
<1>17. ASSUME NEW r \in Requests, InvalidateTo(r)
      PROVE  TypeOK'
  BY <1>17
     DEF InvalidateTo, Goto, TypeOK, Steps, TxSteps, AppSteps, Codes, Amounts
<1>18. ASSUME NEW r \in Requests, CacheResult(r)
      PROVE  TypeOK'
  BY <1>18
     DEF CacheResult, Goto, TypeOK, Steps, TxSteps, AppSteps, Codes, Amounts
<1>19. ASSUME NEW r \in Requests, Commit(r)
      PROVE  TypeOK'
  <2>1. AnswersTyped'
    BY <1>19, AnswerType DEF Commit, Codes
  <2>2. Publish(r)
    BY <1>19 DEF Commit
  <2> QED BY <2>1, <2>2, PublishType, EndTxType DEF Publish, TypeOK, AnswersTyped
<1>20. ASSUME NEW r \in Requests, Rollback(r)
      PROVE  TypeOK'
  BY <1>20
     DEF Rollback, EndTx, NoRows, TypeOK, Steps, TxSteps, AppSteps, Codes, Amounts
<1>21. ASSUME NEW r \in Requests, FindUser(r)
      PROVE  TypeOK'
  <2>1. AnswersTyped'
    <3>1. CASE balance[req[r].wallet] # None
      BY <1>21, <3>1, AnswerType DEF FindUser, Codes
    <3>2. CASE balance[req[r].wallet] = None
      BY <1>21, <3>2, GotoType DEF FindUser, Steps, AppSteps
    <3> QED BY <3>1, <3>2
  <2> QED BY <1>21, <2>1 DEF FindUser, TypeOK, AnswersTyped
<1>22. ASSUME NEW r \in Requests, InsertWallet(r)
      PROVE  TypeOK'
  <2>1. AnswersTyped'
    BY <1>22, GotoType DEF InsertWallet, Steps, AppSteps
  <2>2. req[r] \in Inputs
    BY DEF TypeOK
  <2>3. Format(req[r].amount) \in Int
    BY <2>2, InputType, RoundingInt DEF Format
  <2>4. balance' \in [WalletIds -> Amounts]
    BY <1>22, <2>3 DEF InsertWallet, TypeOK, Amounts
  <2> QED BY <1>22, <2>1, <2>4 DEF InsertWallet, TypeOK, AnswersTyped
<1>23. ASSUME NEW r \in Requests, WalletRefused(r)
      PROVE  TypeOK'
  <2>1. DatabaseError(r)
    BY <1>23 DEF WalletRefused
  <2> QED BY <2>1, DatabaseErrorType
<1>24. ASSUME NEW r \in Requests, OpenLedger(r)
      PROVE  TypeOK'
  <2>1. AnswersTyped'
    BY <1>24, AnswerType DEF OpenLedger, Unacknowledged, Codes
  <2>2. req[r] \in Inputs
    BY DEF TypeOK
  <2>3. OpeningEntry(req[r].amount) \in Entry
    BY <2>2, InputType, OpeningEntryType
  <2>4. ledgers' \in [WalletIds -> Seq(Entry)]
    <3>1. CASE UNCHANGED ledgers
      BY <3>1 DEF TypeOK
    <3>2. CASE ledgers' = [ledgers EXCEPT ![req[r].wallet] =
                             Append(@, OpeningEntry(req[r].amount))]
      <4>1. req[r].wallet \in WalletIds
        BY <2>2, InputType
      <4>2. Append(ledgers[req[r].wallet], OpeningEntry(req[r].amount))
              \in Seq(Entry)
        BY <2>3, <4>1 DEF TypeOK
      <4> QED BY <3>2, <4>2 DEF TypeOK
    <3> QED BY <1>24, <3>1, <3>2 DEF OpenLedger
  <2> QED BY <1>24, <2>1, <2>4 DEF OpenLedger, TypeOK, AnswersTyped
<1>25. ASSUME NEW r \in Requests, GetCached(r)
      PROVE  TypeOK'
  <2>1. req[r] \in Inputs
    BY DEF TypeOK
  <2>2. AnswersTyped'
    <3>1. CASE balCache[req[r].wallet] # None
      <4>1. balCache[req[r].wallet] \in Int
        BY <2>1, <3>1, InputType DEF TypeOK, Amounts
      <4> QED BY <1>25, <3>1, <4>1, AnswerType DEF GetCached, Codes
    <3>2. CASE balCache[req[r].wallet] = None
      BY <1>25, <3>2, GotoType DEF GetCached, Steps, AppSteps
    <3> QED BY <3>1, <3>2
  <2> QED BY <1>25, <2>2 DEF GetCached, TypeOK, AnswersTyped
<1>26. ASSUME NEW r \in Requests, ReadRow(r)
      PROVE  TypeOK'
  <2>1. req[r] \in Inputs
    BY DEF TypeOK
  <2>2. AnswersTyped'
    <3>1. CASE balance[req[r].wallet] = None
      BY <1>26, <3>1, AnswerType DEF ReadRow, Codes
    <3>2. CASE balance[req[r].wallet] # None
      BY <1>26, <3>2, GotoType DEF ReadRow, Steps, AppSteps
    <3> QED BY <3>1, <3>2
  <2>3. readBalance' \in [Requests -> Amounts]
    BY <1>26, <2>1, InputType DEF ReadRow, TypeOK
  <2> QED BY <1>26, <2>2, <2>3 DEF ReadRow, TypeOK, AnswersTyped
<1>27. ASSUME NEW r \in Requests, SetCached(r)
      PROVE  TypeOK'
  <2>1. req[r] \in Inputs /\ readBalance[r] \in Amounts
    BY DEF TypeOK
  <2>2. AnswersTyped'
    <3>1. CASE Answer(r, "ok", readBalance[r])
      BY <2>1, <3>1, AnswerType DEF Codes, Amounts
    <3>2. CASE Unacknowledged(r)
      BY <3>2, AnswerType DEF Unacknowledged, Codes
    <3> QED BY <1>27, <3>1, <3>2 DEF SetCached
  <2>3. balCache' \in [WalletIds -> Amounts]
    BY <1>27, <2>1, InputType DEF SetCached, TypeOK
  <2> QED BY <1>27, <2>2, <2>3 DEF SetCached, TypeOK, AnswersTyped
<1>28. ASSUME NEW r \in Requests, DeadlockAbort(r)
      PROVE  TypeOK'
  <2>1. DatabaseError(r)
    BY <1>28 DEF DeadlockAbort
  <2> QED BY <2>1, DatabaseErrorType
<1>29. ASSUME NEW r \in Requests, CommitUnacknowledged(r)
      PROVE  TypeOK'
  <2>1. AnswersTyped'
    BY <1>29, AnswerType DEF CommitUnacknowledged, Codes
  <2>2. Publish(r)
    BY <1>29 DEF CommitUnacknowledged
  <2> QED BY <2>1, <2>2, PublishType, EndTxType DEF Publish, TypeOK, AnswersTyped
<1>30. ASSUME NEW r \in Requests, AwaitFails(r)
      PROVE  TypeOK'
  <2>1. AnswersTyped'
    <3>1. CASE pc[r] \in TxSteps
      BY <1>30, <3>1, ThrowType DEF AwaitFails, Codes
    <3>2. CASE pc[r] \notin TxSteps
      BY <1>30, <3>2, AnswerType DEF AwaitFails, Codes
    <3> QED BY <3>1, <3>2
  <2> QED BY <1>30, <2>1 DEF AwaitFails, TypeOK, AnswersTyped
<1>31. ASSUME Crash
      PROVE  TypeOK'
  BY <1>31
     DEF Crash, Running, NoRows, TypeOK, Steps, TxSteps, AppSteps, Codes, Amounts
<1>32. ASSUME NEW w \in WalletIds, ExpireBalance(w)
      PROVE  TypeOK'
  BY <1>32
     DEF ExpireBalance, TypeOK, Amounts
<1>33. ASSUME NEW k \in KeySpace, ExpireKey(k)
      PROVE  TypeOK'
  BY <1>33
     DEF ExpireKey, TypeOK, Amounts
<1>34. ASSUME NEW r \in Requests, ExpireTransfer(r)
      PROVE  TypeOK'
  BY <1>34
     DEF ExpireTransfer, TypeOK, Amounts
<1>35. CASE UNCHANGED vars
  BY <1>35 DEF TypeOK, vars
<1> QED
  BY <1>1, <1>2, <1>3, <1>4, <1>5, <1>6, <1>7, <1>8, <1>9,
     <1>10, <1>11, <1>12, <1>13, <1>14, <1>15, <1>16, <1>17, <1>18,
     <1>19, <1>20, <1>21, <1>22, <1>23, <1>24, <1>25, <1>26, <1>27,
     <1>28, <1>29, <1>30, <1>31, <1>32, <1>33, <1>34, <1>35
  DEF Next, Handle, CheckKey, LockWallets, Post, CreateWallet, GetBalance, Failure,
      Expiry, Finished

------------------------------------------------------------------------------
(* Every step keeps the requests on their way.                             *)

\* Every step leaves requests where their operation goes, with what they carry.
LEMMA ControlStep ==
  ASSUME TypeOK, Control, [Next]_vars
  PROVE  Control'
<1> USE DEF localVars, Control, Routed, Logged, TxSteps
<1>1. ASSUME NEW r \in Requests, Refuse(r)
      PROVE  Control'
  BY <1>1
     DEF Refuse, Answer, TypeOK, txVars
<1>2. ASSUME NEW r \in Requests, Accept(r)
      PROVE  Control'
  BY <1>2, InputType
     DEF Accept, Goto, TypeOK, txVars, FirstStep, Posting, Operations
<1>3. ASSUME NEW r \in Requests, CheckCache(r)
      PROVE  Control'
  BY <1>3
     DEF CheckCache, Goto, Replay, Answer, TypeOK, txVars
<1>4. ASSUME NEW r \in Requests, CheckLog(r)
      PROVE  Control'
  BY <1>4
     DEF CheckLog, Goto, TypeOK, txVars
<1>5. ASSUME NEW r \in Requests, FillCache(r)
      PROVE  Control'
  BY <1>5
     DEF Unacknowledged, FillCache, Replay, Answer, TypeOK, txVars
<1>6. ASSUME NEW r \in Requests, InsertLog(r)
      PROVE  Control'
  BY <1>6, NewLogType, RowsAssumption
     DEF InsertLog, Goto, TypeOK, txVars
<1>7. ASSUME NEW r \in Requests, LogRefused(r)
      PROVE  Control'
  BY <1>7
     DEF LogRefused, DatabaseError, EndTx, Answer, TypeOK, txVars
<1>8. ASSUME NEW r \in Requests, CheckWalletRef(r)
      PROVE  Control'
  BY <1>8
     DEF CheckWalletRef, Goto, TypeOK, txVars
<1>9. ASSUME NEW r \in Requests, WalletRefMissing(r)
      PROVE  Control'
  BY <1>9
     DEF WalletRefMissing, DatabaseError, EndTx, Answer, TypeOK, txVars
<1>10. ASSUME NEW r \in Requests, Select(r)
      PROVE  Control'
  BY <1>10
     DEF Select, Goto, TypeOK, txVars
<1>11. ASSUME NEW r \in Requests, NEW w \in WalletIds, LockRow(r, w)
      PROVE  Control'
  BY <1>11
     DEF LockRow, TypeOK, txVars
<1>12. ASSUME NEW r \in Requests, RowsMissing(r)
      PROVE  Control'
  BY <1>12 DEF RowsMissing, Fail, Throw, TypeOK
<1>13. ASSUME NEW r \in Requests, FundsShort(r)
      PROVE  Control'
  BY <1>13 DEF FundsShort, Fail, Throw, TypeOK
<1>14. ASSUME NEW r \in Requests, Overflow(r)
      PROVE  Control'
  BY <1>14
     DEF Overflow, DatabaseError, EndTx, Answer, TypeOK, txVars
<1>15. ASSUME NEW r \in Requests, Write(r)
      PROVE  Control'
  <2>1. txLog[r] \in LogRow
    BY <1>15 DEF Write, RowsLocked, TypeOK
  <2>2. WithStatus(txLog[r], "COMPLETED") # None
    BY <2>1, WithStatusType DEF Statuses
  <2> QED BY <1>15, <2>2 DEF Write, RowsLocked, Goto, TypeOK
<1>16. ASSUME NEW r \in Requests, InvalidateFrom(r)
      PROVE  Control'
  BY <1>16
     DEF InvalidateFrom, Goto, TypeOK, txVars
<1>17. ASSUME NEW r \in Requests, InvalidateTo(r)
      PROVE  Control'
  BY <1>17
     DEF InvalidateTo, Goto, TypeOK, txVars
<1>18. ASSUME NEW r \in Requests, CacheResult(r)
      PROVE  Control'
  BY <1>18
     DEF CacheResult, Goto, TypeOK, txVars
<1>19. ASSUME NEW r \in Requests, Commit(r)
      PROVE  Control'
  BY <1>19
     DEF Commit, Publish, EndTx, Answer, TypeOK, txVars
<1>20. ASSUME NEW r \in Requests, Rollback(r)
      PROVE  Control'
  BY <1>20
     DEF Rollback, EndTx, TypeOK, txVars
<1>21. ASSUME NEW r \in Requests, FindUser(r)
      PROVE  Control'
  BY <1>21
     DEF FindUser, Goto, Answer, TypeOK, txVars
<1>22. ASSUME NEW r \in Requests, InsertWallet(r)
      PROVE  Control'
  BY <1>22
     DEF InsertWallet, Goto, TypeOK, txVars
<1>23. ASSUME NEW r \in Requests, WalletRefused(r)
      PROVE  Control'
  BY <1>23
     DEF WalletRefused, DatabaseError, EndTx, Answer, TypeOK, txVars
<1>24. ASSUME NEW r \in Requests, OpenLedger(r)
      PROVE  Control'
  BY <1>24
     DEF Unacknowledged, OpenLedger, Answer, TypeOK, txVars
<1>25. ASSUME NEW r \in Requests, GetCached(r)
      PROVE  Control'
  BY <1>25
     DEF GetCached, Goto, Answer, TypeOK, txVars
<1>26. ASSUME NEW r \in Requests, ReadRow(r)
      PROVE  Control'
  <2>1. pc[r] = "readRow" /\ UNCHANGED <<req, txLog, foundLog>>
    BY <1>26 DEF ReadRow, txVars
  <2>2. pc' = [pc EXCEPT ![r] = "done"] \/ pc' = [pc EXCEPT ![r] = "setCached"]
    BY <1>26 DEF ReadRow, Goto, Answer
  <2> QED BY <2>1, <2>2 DEF TypeOK
<1>27. ASSUME NEW r \in Requests, SetCached(r)
      PROVE  Control'
  BY <1>27
     DEF Unacknowledged, SetCached, Answer, TypeOK, txVars
<1>28. ASSUME NEW r \in Requests, DeadlockAbort(r)
      PROVE  Control'
  BY <1>28
     DEF DeadlockAbort, DatabaseError, EndTx, Answer, TypeOK, txVars
<1>29. ASSUME NEW r \in Requests, CommitUnacknowledged(r)
      PROVE  Control'
  BY <1>29
     DEF CommitUnacknowledged, Publish, EndTx, Answer, TypeOK, txVars
<1>30. ASSUME NEW r \in Requests, AwaitFails(r)
      PROVE  Control'
  <2>1. UNCHANGED <<req, txLog, foundLog>>
    BY <1>30 DEF AwaitFails, txVars
  <2>2. pc' = [pc EXCEPT ![r] = "done"] \/ pc' = [pc EXCEPT ![r] = "rollback"]
    BY <1>30 DEF AwaitFails, Throw, Answer
  <2> QED BY <2>1, <2>2 DEF TypeOK
<1>31. ASSUME Crash
      PROVE  Control'
  <2>1. \A r \in Requests : pc'[r] \in {"received", "done"}
    BY <1>31 DEF Crash, Running, TypeOK
  <2> QED BY <2>1
<1>32. ASSUME NEW w \in WalletIds, ExpireBalance(w)
      PROVE  Control'
  BY <1>32
     DEF ExpireBalance, TypeOK, txVars
<1>33. ASSUME NEW k \in KeySpace, ExpireKey(k)
      PROVE  Control'
  BY <1>33
     DEF ExpireKey, TypeOK, txVars
<1>34. ASSUME NEW r \in Requests, ExpireTransfer(r)
      PROVE  Control'
  BY <1>34
     DEF ExpireTransfer, TypeOK, txVars
<1>35. CASE UNCHANGED vars
  BY <1>35 DEF vars, txVars
<1> QED
  BY <1>1, <1>2, <1>3, <1>4, <1>5, <1>6, <1>7, <1>8, <1>9,
     <1>10, <1>11, <1>12, <1>13, <1>14, <1>15, <1>16, <1>17, <1>18,
     <1>19, <1>20, <1>21, <1>22, <1>23, <1>24, <1>25, <1>26, <1>27,
     <1>28, <1>29, <1>30, <1>31, <1>32, <1>33, <1>34, <1>35
  DEF Next, Handle, CheckKey, LockWallets, Post, CreateWallet, GetBalance, Failure,
      Expiry, Finished

------------------------------------------------------------------------------
(* Locking.                                                                *)

lockVars == <<balance, keyShare, seen, writes>>

\* Giving up locks and private writes breaks nothing locks protect.
LEMMA EndTxLocking ==
  ASSUME TypeOK, Locking, NEW r \in Requests, EndTx(r), UNCHANGED balance
  PROVE  Locking'
  BY DEF TypeOK, Locking, LockedReadsAreCurrent, WritesLocked, NoOverdraft,
         EndTx, NoRows, Others

\* The balances a posting leaves are within the column: it has read current
\* balances, and has checked for funds and for overflow.
LEMMA LegsFit ==
  ASSUME NEW i \in Inputs, NEW r \in Requests, NEW w \in WalletIds,
         NEW rows \in [WalletIds -> Int \cup {None}],
         Valid(i), Posting(i),
         \A v \in Touched(i) : rows[v] \in 0 .. MaxMoney,
         ~InsufficientFunds(i, rows), ~Overflows(i, rows),
         Legs(i, r, rows)[w] # None
  PROVE  w \in Touched(i) /\ Legs(i, r, rows)[w].after \in 0 .. MaxMoney
<1>1. i.amount \in Int /\ i.amount > 0
  BY InputType, ComparisonsAreOrders DEF Valid, Posting
<1>2. MaxMoney \in Nat
  BY MaxMoneyAssumption
<1>3. CASE Takes(i, w)
  <2>1. w = i.wallet /\ w \in Touched(i) /\ rows[w] \in 0 .. MaxMoney
    BY <1>3 DEF Takes, Touched
  <2>2. i.amount <= rows[w]
    BY <1>1, <1>3, <2>1, ComparisonsAreOrders DEF Takes, InsufficientFunds
  <2>3. /\ rows[w] - i.amount \in Int
        /\ 0 <= rows[w] - i.amount
        /\ rows[w] - i.amount <= MaxMoney
    BY <1>1, <1>2, <2>1, <2>2
  <2>4. Subtract(rows[w], i.amount) \in 0 .. MaxMoney
    BY <2>3, RoundingBounded, MaxMoneyAssumption DEF Subtract
  <2> QED BY <1>3, <2>1, <2>4 DEF Legs, DebitLeg
<1>4. CASE ~Takes(i, w) /\ Gives(i, w)
  <2>1. w \in Touched(i) /\ rows[w] \in 0 .. MaxMoney
    BY <1>4 DEF Gives, Touched
  <2>2. rows[w] + i.amount \in Int /\ 0 <= rows[w] + i.amount
    BY <1>1, <1>2, <2>1
  <2>3. Add(rows[w], i.amount) \in Nat
    BY <2>2, RoundingNotNegative DEF Add
  <2>4. Add(rows[w], i.amount) <= MaxMoney
    BY <1>2, <1>4, <2>1, <2>3 DEF Overflows
  <2> QED BY <1>2, <1>4, <2>1, <2>3, <2>4 DEF Legs, CreditLeg
<1>5. CASE ~Takes(i, w) /\ ~Gives(i, w)
  BY <1>5 DEF Legs
<1> QED BY <1>3, <1>4, <1>5

\* A posting writes rows it has locked.
LEMMA WriteLocking ==
  ASSUME TypeOK, Control, Locking, NEW r \in Requests, Write(r)
  PROVE  Locking'
<1>1. req[r] \in Inputs /\ seen[r] \in [WalletIds -> Int \cup {None}]
  BY DEF TypeOK, Amounts
<1>2. Valid(req[r]) /\ Posting(req[r])
  BY DEF Write, RowsLocked, Control, Routed, TxSteps
<1>3. \A w \in Touched(req[r]) : w \in WalletIds /\ seen[r][w] # None
  BY <1>1, InputType, AllTouchedRead DEF Write, Touched
<1>4. \A w \in Touched(req[r]) : seen[r][w] \in 0 .. MaxMoney
  BY <1>3 DEF Locking, LockedReadsAreCurrent, NoOverdraft
<1>5. ASSUME NEW w \in WalletIds, Legs(req[r], r, seen[r])[w] # None
      PROVE  /\ seen[r][w] # None
             /\ Legs(req[r], r, seen[r])[w].after \in 0 .. MaxMoney
  BY <1>1, <1>2, <1>3, <1>4, <1>5, LegsFit DEF Write
<1>6. UNCHANGED <<balance, keyShare, seen>>
  BY DEF Write, dbVars
<1>7. writes' = [writes EXCEPT ![r] = Legs(req[r], r, seen[r])]
  BY DEF Write
<1>8. WritesLocked'
  BY <1>5, <1>6, <1>7 DEF Locking, WritesLocked, TypeOK
<1> QED BY <1>6, <1>8 DEF Locking, LockedReadsAreCurrent, NoOverdraft, Others

\* A commit changes only balances nobody else has read FOR UPDATE.
LEMMA PublishLocking ==
  ASSUME TypeOK, Locking, NEW r \in Requests, Publish(r)
  PROVE  Locking'
<1> DEFINE legs == writes[r]
<1>1. /\ balance' = PostedBalance(balance, legs)
      /\ keyShare' = [keyShare EXCEPT ![r] = {}]
      /\ seen' = [seen EXCEPT ![r] = NoRows]
      /\ writes' = [writes EXCEPT ![r] = NoRows]
  BY DEF Publish, EndTx
<1>2. ASSUME NEW w \in WalletIds, legs[w] # None
      PROVE  /\ balance'[w] \in 0 .. MaxMoney
             /\ \A s \in Others(r) : seen[s][w] = None
  BY <1>1, <1>2
     DEF PostedBalance, Locking, WritesLocked, LockedReadsAreCurrent
<1>3. ASSUME NEW w \in WalletIds, legs[w] = None
      PROVE  balance'[w] = balance[w]
  BY <1>1, <1>3 DEF PostedBalance
<1>4. NoOverdraft'
  BY <1>2, <1>3 DEF Locking, NoOverdraft
<1>5. LockedReadsAreCurrent'
  <2> SUFFICES ASSUME NEW q \in Requests, NEW w \in WalletIds, seen'[q][w] # None
               PROVE  /\ seen'[q][w] = balance'[w]
                      /\ \A s \in Others(q) :
                           seen'[s][w] = None /\ w \notin keyShare'[s]
    BY DEF LockedReadsAreCurrent, Others
  <2>1. q \in Others(r) /\ seen'[q][w] = seen[q][w]
    BY <1>1 DEF TypeOK, NoRows, Others
  <2>2. balance'[w] = balance[w]
    BY <1>2, <1>3, <2>1
  <2>3. /\ seen[q][w] = balance[w]
        /\ \A s \in Others(q) : seen[s][w] = None /\ w \notin keyShare[s]
    BY <2>1 DEF Locking, LockedReadsAreCurrent
  <2> QED BY <1>1, <2>1, <2>2, <2>3 DEF TypeOK, NoRows, Others
<1>6. WritesLocked'
  BY <1>1 DEF Locking, WritesLocked, TypeOK, NoRows
<1> QED BY <1>4, <1>5, <1>6 DEF Locking

\* A row is locked, and read, when no other transaction holds it.
LEMMA LockRowLocking ==
  ASSUME TypeOK, Locking, NEW r \in Requests, NEW w \in WalletIds, LockRow(r, w)
  PROVE  Locking'
<1>1. /\ seen' = [seen EXCEPT ![r][w] = balance[w]]
      /\ seen[r][w] = None
      /\ \A s \in Others(r) : w \notin keyShare[s] /\ seen[s][w] = None
  BY DEF LockRow, Unlocked, UpdateBlockers
<1>2. UNCHANGED <<balance, keyShare, writes>>
  BY DEF LockRow, dbVars
<1>3. LockedReadsAreCurrent'
  BY <1>1, <1>2 DEF TypeOK, Locking, LockedReadsAreCurrent, Others
<1>4. WritesLocked'
  BY <1>1, <1>2 DEF TypeOK, Locking, WritesLocked
<1> QED BY <1>2, <1>3, <1>4 DEF Locking, NoOverdraft

\* A foreign-key check waits for whoever holds its row FOR UPDATE.
LEMMA CheckWalletRefLocking ==
  ASSUME TypeOK, Locking, NEW r \in Requests, CheckWalletRef(r)
  PROVE  Locking'
<1>1. /\ keyShare' = [keyShare EXCEPT ![r] = {req[r].wallet}]
      /\ \A s \in Others(r) : seen[s][req[r].wallet] = None
  BY DEF CheckWalletRef, RowHolders
<1>2. UNCHANGED <<balance, seen, writes>>
  BY DEF CheckWalletRef, dbVars
<1> QED BY <1>1, <1>2
        DEF TypeOK, Locking, LockedReadsAreCurrent, WritesLocked, NoOverdraft, Others

\* A wallet that did not exist was locked by nobody.
LEMMA InsertWalletLocking ==
  ASSUME TypeOK, Control, Locking, NEW r \in Requests, InsertWallet(r)
  PROVE  Locking'
<1>1. req[r] \in Inputs /\ Valid(req[r]) /\ req[r].op = "CREATE"
  BY DEF TypeOK, InsertWallet, Control, Routed
<1>2. req[r].amount \in Int /\ 0 <= req[r].amount
  BY <1>1, InputType, ComparisonsAreOrders DEF Valid
<1>3. Format(req[r].amount) \in Nat
  BY <1>2, RoundingNotNegative DEF Format
<1>4. Format(req[r].amount) \in 0 .. MaxMoney
  BY <1>3, MaxMoneyAssumption DEF InsertWallet
<1>5. /\ balance' = [balance EXCEPT ![req[r].wallet] = Format(req[r].amount)]
      /\ balance[req[r].wallet] = None
      /\ UNCHANGED <<keyShare, seen, writes>>
  BY DEF InsertWallet, txVars
<1>6. LockedReadsAreCurrent'
  BY <1>5 DEF TypeOK, Locking, LockedReadsAreCurrent, Others
<1>7. NoOverdraft'
  BY <1>4, <1>5 DEF TypeOK, Locking, NoOverdraft
<1> QED BY <1>5, <1>6, <1>7 DEF Locking, WritesLocked

\* Every step keeps what row locks protect.
LEMMA LockingStep ==
  ASSUME TypeOK, Control, Locking, [Next]_vars
  PROVE  Locking'
<1>1. CASE UNCHANGED lockVars
  BY <1>1 DEF lockVars, Locking, LockedReadsAreCurrent, WritesLocked,
              NoOverdraft, Others
<1>2. ASSUME NEW r \in Requests, EndTx(r), UNCHANGED balance
      PROVE  Locking'
  BY <1>2, EndTxLocking
<1>3. CASE Crash
  BY <1>3 DEF Crash, dbVars, Locking, LockedReadsAreCurrent, WritesLocked,
              NoOverdraft, NoRows
<1>4. ASSUME NEW r \in Requests, DatabaseError(r)
      PROVE  Locking'
  BY <1>4, EndTxLocking DEF DatabaseError, dbVars
<1>5. ASSUME NEW r \in Requests,
             Refuse(r) \/ Accept(r) \/ CheckKey(r) \/ GetBalance(r) \/ AwaitFails(r)
             \/ FindUser(r) \/ OpenLedger(r)
      PROVE  Locking'
  <2>1. UNCHANGED lockVars
    BY <1>5 DEF Refuse, Accept, CheckKey, CheckCache, CheckLog, FillCache,
                GetBalance, GetCached, ReadRow, SetCached, AwaitFails, FindUser,
                OpenLedger, lockVars, dbVars, txVars
  <2> QED BY <1>1, <2>1
<1>6. ASSUME NEW r \in Requests,
             InsertLog(r) \/ Select(r) \/ RowsMissing(r) \/ FundsShort(r)
             \/ InvalidateFrom(r) \/ InvalidateTo(r) \/ CacheResult(r)
      PROVE  Locking'
  <2>1. UNCHANGED lockVars
    BY <1>6 DEF InsertLog, Select, RowsMissing, FundsShort, Fail, InvalidateFrom,
                InvalidateTo, CacheResult, lockVars, dbVars, txVars
  <2> QED BY <1>1, <2>1
<1>7. ASSUME NEW r \in Requests,
             LogRefused(r) \/ WalletRefMissing(r) \/ Overflow(r)
             \/ WalletRefused(r) \/ DeadlockAbort(r)
      PROVE  Locking'
  BY <1>4, <1>7
     DEF LogRefused, WalletRefMissing, Overflow, WalletRefused, DeadlockAbort
<1>8. ASSUME NEW r \in Requests, Commit(r) \/ CommitUnacknowledged(r)
      PROVE  Locking'
  BY <1>8, PublishLocking DEF Commit, CommitUnacknowledged
<1>9. ASSUME NEW r \in Requests, Rollback(r)
      PROVE  Locking'
  BY <1>9, EndTxLocking DEF Rollback, dbVars
<1>10. CASE Expiry
  <2>1. UNCHANGED lockVars
    BY <1>10 DEF Expiry, ExpireBalance, ExpireKey, ExpireTransfer,
                 lockVars, dbVars, txVars
  <2> QED BY <1>1, <2>1
<1>11. CASE UNCHANGED vars
  BY <1>1, <1>11 DEF vars, dbVars, txVars, lockVars
<1> QED
  BY <1>3, <1>5, <1>6, <1>7, <1>8, <1>9, <1>10, <1>11, WriteLocking,
     LockRowLocking, CheckWalletRefLocking, InsertWalletLocking
  DEF Next, Handle, LockWallets, Post, CreateWallet, Failure, Finished

------------------------------------------------------------------------------
(* Keyed.                                                                  *)

\* A step that reads and commits no log row keeps Keyed, whatever transactions,
\* cache entries and requests it ends.
LEMMA QuietKeyed ==
  ASSUME Keyed, UNCHANGED <<req, logs, foundLog>>,
         \A r \in Requests : /\ txLog'[r] # None => txLog[r] # None
                             /\ pc'[r] = "fillCache" => pc[r] = "fillCache",
         \A k \in KeySpace : idemCache'[k] # None => idemCache'[k] = idemCache[k]
  PROVE  Keyed'
<1>1. KeysHeld'
  BY DEF Keyed, KeysHeld, KeyHolders, MyKey, Others
<1>2. FoundCommitted'
  BY DEF Keyed, FoundCommitted, MyKey
<1>3. CachedLogsAreCommitted'
  BY DEF Keyed, CachedLogsAreCommitted
<1> QED BY <1>1, <1>2, <1>3 DEF Keyed

\* The row found is the committed one.
LEMMA CheckLogKeyed ==
  ASSUME TypeOK, Keyed, NEW r \in Requests, CheckLog(r)
  PROVE  Keyed'
<1>1. /\ foundLog' = [foundLog EXCEPT ![r] = logs[MyKey(r)]]
      /\ \A s \in Others(r) : pc'[s] = pc[s]
      /\ UNCHANGED <<req, logs, txLog, idemCache>>
  BY DEF CheckLog, Goto, TypeOK, Others, dbVars, txVars, cacheVars
<1>2. KeysHeld' /\ CachedLogsAreCommitted'
  BY <1>1 DEF Keyed, KeysHeld, KeyHolders, CachedLogsAreCommitted, MyKey, Others
<1>3. FoundCommitted'
  BY <1>1 DEF Keyed, FoundCommitted, TypeOK, MyKey, Others
<1> QED BY <1>2, <1>3 DEF Keyed

\* The row cached is the committed one still.
LEMMA FillCacheKeyed ==
  ASSUME TypeOK, Keyed, NEW r \in Requests, FillCache(r)
  PROVE  Keyed'
<1>1. /\ idemCache' = [idemCache EXCEPT ![MyKey(r)] = logs[MyKey(r)]]
      /\ UNCHANGED <<req, logs, txLog, foundLog>>
  BY DEF FillCache, Keyed, FoundCommitted, dbVars, txVars, localVars
<1>2. \A s \in Requests : pc'[s] = "fillCache" => pc[s] = "fillCache"
  BY DEF Unacknowledged, FillCache, Replay, Answer, TypeOK
<1>3. KeysHeld' /\ FoundCommitted'
  BY <1>1, <1>2 DEF Keyed, KeysHeld, KeyHolders, FoundCommitted, MyKey, Others
<1>4. CachedLogsAreCommitted'
  BY <1>1 DEF Keyed, CachedLogsAreCommitted, TypeOK
<1> QED BY <1>3, <1>4 DEF Keyed

\* The key inserted is no other open transaction's and not committed.
LEMMA InsertLogKeyed ==
  ASSUME TypeOK, Keyed, NEW r \in Requests, InsertLog(r)
  PROVE  Keyed'
<1>1. /\ \A s \in Others(r) : txLog'[s] = txLog[s]
      /\ KeyHolders(r) = {} /\ logs[MyKey(r)] = None
      /\ UNCHANGED <<req, logs, foundLog, idemCache>>
  BY DEF InsertLog, TypeOK, Others, dbVars, cacheVars, localVars
<1>2. \A s \in Requests : pc'[s] = "fillCache" => pc[s] = "fillCache"
  BY DEF InsertLog, Goto, TypeOK
<1>3. KeysHeld'
  BY <1>1 DEF Keyed, KeysHeld, KeyHolders, MyKey, Others
<1>4. FoundCommitted' /\ CachedLogsAreCommitted'
  BY <1>1, <1>2 DEF Keyed, FoundCommitted, CachedLogsAreCommitted, MyKey
<1> QED BY <1>3, <1>4 DEF Keyed

\* A commit gives a log row to a key that had none, and to no key that another
\* transaction holds, a request has found or the cache has.
LEMMA PublishKeyed ==
  ASSUME TypeOK, Control, Keyed, NEW r \in Requests,
         pc[r] = "commit", Publish(r),
         \A s \in Requests : pc'[s] = "fillCache" => pc[s] = "fillCache"
  PROVE  Keyed'
<1>1. /\ txLog' = [txLog EXCEPT ![r] = None]
      /\ UNCHANGED <<req, foundLog, idemCache>>
  BY DEF Publish, EndTx, cacheVars, localVars
<1>2. logs[MyKey(r)] = None /\ KeyHolders(r) = {}
  BY DEF Control, Logged, TxSteps, Keyed, KeysHeld
<1>3. \A k \in KeySpace : logs[k] # None => logs'[k] = logs[k]
  BY <1>2 DEF Publish, TypeOK
<1>4. \A s \in Others(r) : txLog[s] # None => logs'[MyKey(s)] = logs[MyKey(s)]
  <2> SUFFICES ASSUME NEW s \in Others(r), txLog[s] # None
               PROVE  logs'[MyKey(s)] = logs[MyKey(s)]
    OBVIOUS
  <2>1. MyKey(s) # MyKey(r)
    BY <1>2 DEF KeyHolders
  <2>2. MyKey(s) \in KeySpace
    BY KeyOfType DEF TypeOK, MyKey, Others
  <2> QED BY <2>1, <2>2 DEF Publish, TypeOK
<1>5. KeysHeld'
  BY <1>1, <1>4 DEF Keyed, KeysHeld, KeyHolders, MyKey, Others, TypeOK
<1>6. FoundCommitted'
  <2> SUFFICES ASSUME NEW s \in Requests, pc[s] = "fillCache"
               PROVE  foundLog[s] = logs'[MyKey(s)]
    BY <1>1 DEF FoundCommitted, MyKey
  <2>1. foundLog[s] = logs[MyKey(s)] /\ foundLog[s] # None
    BY DEF Keyed, FoundCommitted, Control, Logged
  <2>2. MyKey(s) \in KeySpace
    BY KeyOfType DEF TypeOK, MyKey
  <2> QED BY <1>3, <2>1, <2>2
<1>7. CachedLogsAreCommitted'
  BY <1>1, <1>3 DEF Keyed, CachedLogsAreCommitted
<1> QED BY <1>5, <1>6, <1>7 DEF Keyed

\* What QuietKeyed asks of a step.
Quiet ==
  /\ UNCHANGED <<req, logs, foundLog>>
  /\ \A r \in Requests : /\ txLog'[r] # None => txLog[r] # None
                         /\ pc'[r] = "fillCache" => pc[r] = "fillCache"
  /\ \A k \in KeySpace : idemCache'[k] # None => idemCache'[k] = idemCache[k]

\* Every step keeps what the unique index of the keys protects.
LEMMA KeysStep ==
  ASSUME TypeOK, Control, Keyed, [Next]_vars
  PROVE  Keyed'
<1>1. CASE Quiet
  BY <1>1, QuietKeyed DEF Quiet
<1>2. ASSUME NEW r \in Requests, DatabaseError(r)
      PROVE  Keyed'
  <2>1. Quiet
    BY <1>2 DEF DatabaseError, EndTx, Answer, Quiet, TypeOK, dbVars, cacheVars,
                localVars
  <2> QED BY <2>1, <1>1
<1>3. ASSUME NEW r \in Requests, Refuse(r) \/ Accept(r)
      PROVE  Keyed'
  <2>1. Quiet
    BY <1>3 DEF Refuse, Accept, Answer, Goto, FirstStep, Quiet, TypeOK, dbVars,
                txVars, cacheVars, localVars
  <2> QED BY <2>1, <1>1
<1>4. ASSUME NEW r \in Requests, CheckCache(r)
      PROVE  Keyed'
  <2>1. Quiet
    BY <1>4 DEF CheckCache, Replay, Answer, Goto, Quiet, TypeOK, dbVars, txVars,
                cacheVars, localVars
  <2> QED BY <2>1, <1>1
<1>5. ASSUME NEW r \in Requests, CheckLog(r) \/ FillCache(r) \/ InsertLog(r)
      PROVE  Keyed'
  BY <1>5, CheckLogKeyed, FillCacheKeyed, InsertLogKeyed
<1>6. ASSUME NEW r \in Requests,
             LogRefused(r) \/ WalletRefMissing(r) \/ Overflow(r)
             \/ WalletRefused(r) \/ DeadlockAbort(r)
      PROVE  Keyed'
  BY <1>2, <1>6 DEF LogRefused, WalletRefMissing, Overflow, WalletRefused,
                    DeadlockAbort
<1>7. ASSUME NEW r \in Requests,
             CheckWalletRef(r) \/ Select(r) \/ \E w \in WalletIds : LockRow(r, w)
      PROVE  Keyed'
  <2>1. Quiet
    BY <1>7 DEF CheckWalletRef, Select, LockRow, Goto, Quiet, TypeOK, dbVars,
                cacheVars, localVars
  <2> QED BY <2>1, <1>1
<1>8. ASSUME NEW r \in Requests, RowsMissing(r) \/ FundsShort(r) \/ Write(r)
      PROVE  Keyed'
  <2>1. txLog[r] # None
    BY <1>8 DEF RowsMissing, FundsShort, Write, RowsLocked, Control, Logged, TxSteps
  <2>2. /\ \A s \in Others(r) : txLog'[s] = txLog[s]
        /\ \A s \in Requests : pc'[s] = "fillCache" => pc[s] = "fillCache"
    BY <1>8 DEF RowsMissing, FundsShort, Write, Fail, Throw, Goto, TypeOK, Others
  <2>3. UNCHANGED <<req, logs, foundLog, idemCache>>
    BY <1>8 DEF RowsMissing, FundsShort, Write, Fail, dbVars, cacheVars, localVars
  <2>4. Quiet
    BY <2>1, <2>2, <2>3 DEF Quiet, Others
  <2> QED BY <2>4, <1>1
<1>9. ASSUME NEW r \in Requests,
             InvalidateFrom(r) \/ InvalidateTo(r) \/ CacheResult(r)
      PROVE  Keyed'
  <2>1. Quiet
    BY <1>9 DEF InvalidateFrom, InvalidateTo, CacheResult, Goto, Quiet, TypeOK,
                dbVars, txVars, localVars
  <2> QED BY <2>1, <1>1
<1>10. ASSUME NEW r \in Requests, Commit(r) \/ CommitUnacknowledged(r)
       PROVE  Keyed'
  <2>1. /\ pc[r] = "commit" /\ Publish(r)
        /\ \A s \in Requests : pc'[s] = "fillCache" => pc[s] = "fillCache"
    BY <1>10 DEF Commit, CommitUnacknowledged, Answer, TypeOK
  <2> QED BY <2>1, PublishKeyed
<1>11. ASSUME NEW r \in Requests, Rollback(r)
       PROVE  Keyed'
  <2>1. Quiet
    BY <1>11 DEF Rollback, EndTx, Quiet, TypeOK, dbVars, cacheVars, localVars
  <2> QED BY <2>1, <1>1
<1>12. ASSUME NEW r \in Requests,
              FindUser(r) \/ InsertWallet(r) \/ OpenLedger(r)
       PROVE  Keyed'
  <2>1. Quiet
    BY <1>12 DEF FindUser, InsertWallet, OpenLedger, Unacknowledged, Answer,
                 Goto, Quiet, TypeOK, dbVars, txVars, cacheVars, localVars
  <2> QED BY <2>1, <1>1
<1>13. ASSUME NEW r \in Requests, GetBalance(r)
       PROVE  Keyed'
  <2>1. Quiet
    BY <1>13 DEF GetBalance, GetCached, ReadRow, SetCached, Unacknowledged,
                 Answer, Goto, Quiet, TypeOK, dbVars, txVars, cacheVars,
                 localVars
  <2> QED BY <2>1, <1>1
<1>14. ASSUME NEW r \in Requests, AwaitFails(r)
       PROVE  Keyed'
  <2>1. Quiet
    BY <1>14 DEF AwaitFails, Throw, Answer, Quiet, TypeOK, dbVars, txVars,
                 cacheVars, localVars
  <2> QED BY <2>1, <1>1
<1>15. CASE Crash
  <2>1. Quiet
    BY <1>15 DEF Crash, Quiet, dbVars, cacheVars, localVars
  <2> QED BY <2>1, <1>1
<1>16. CASE Expiry
  <2>1. Quiet
    BY <1>16 DEF Expiry, ExpireBalance, ExpireKey, ExpireTransfer, Quiet, TypeOK,
                 dbVars, txVars, localVars
  <2> QED BY <2>1, <1>1
<1>17. CASE UNCHANGED vars
  <2>1. Quiet
    BY <1>17 DEF vars, Quiet, dbVars, txVars, cacheVars, localVars
  <2> QED BY <2>1, <1>1
<1> QED
  BY <1>3, <1>4, <1>5, <1>6, <1>7, <1>8, <1>9, <1>10, <1>11, <1>12, <1>13, <1>14,
     <1>15, <1>16, <1>17
  DEF Next, Handle, CheckKey, LockWallets, Post, CreateWallet, Failure, Finished

------------------------------------------------------------------------------
(* Postable.                                                               *)

\* What Prepared says of one request.
PreparedFor(r) ==
  /\ pc[r] \in {"fkCheck", "select", "lockRows"} => txLog[r] = NewLog(req[r], r)
  /\ pc[r] \in Written =>
       /\ txLog[r] = WithStatus(NewLog(req[r], r), "COMPLETED")
       /\ writes[r] = Legs(req[r], r, seen[r])
       /\ \A w \in Touched(req[r]) : seen[r][w] # None
       /\ ~InsufficientFunds(req[r], seen[r])
       /\ ~Overflows(req[r], seen[r])

\* A step of one request leaves the others where they are.
StepOf(r) ==
  /\ req' = req
  /\ \A s \in Others(r) : /\ pc'[s] = pc[s] /\ txLog'[s] = txLog[s]
                          /\ writes'[s] = writes[s] /\ seen'[s] = seen[s]

\* It is enough to look at the request that steps.
LEMMA OneRequestPrepared ==
  ASSUME Prepared, NEW r \in Requests, StepOf(r), PreparedFor(r)'
  PROVE  Prepared'
<1> SUFFICES ASSUME NEW s \in Requests PROVE PreparedFor(s)'
  BY DEF Prepared, PreparedFor
<1>1. CASE s = r
  BY <1>1
<1>2. CASE s # r
  BY <1>2 DEF Prepared, PreparedFor, StepOf, Others
<1> QED BY <1>1, <1>2

\* A step that commits nothing, of a request that is not over.
LEMMA NoCommitPostable ==
  ASSUME TypeOK, Postable, NEW r \in Requests, StepOf(r), PreparedFor(r)',
         logs' = logs, pc[r] # "done"
  PROVE  Postable'
<1>1. Prepared'
  BY OneRequestPrepared DEF Postable
<1>2. LogsAreOver'
  <2> SUFFICES ASSUME NEW k \in KeySpace, logs[k] # None
               PROVE  pc'[logs[k].id] = "done"
    BY DEF LogsAreOver
  <2>1. pc[logs[k].id] = "done" /\ logs[k].id \in Requests
    BY DEF Postable, LogsAreOver, TypeOK, LogRow
  <2> QED BY <2>1 DEF StepOf, Others
<1> QED BY <1>1, <1>2 DEF Postable

\* A step that takes a request out of its transaction, or keeps it outside.
LEMMA OutsidePostable ==
  ASSUME TypeOK, Postable, NEW r \in Requests, StepOf(r), logs' = logs,
         pc[r] # "done",
         pc'[r] \notin Written \cup {"fkCheck", "select", "lockRows"}
  PROVE  Postable'
  BY NoCommitPostable DEF PreparedFor

\* A step within the transaction that leaves what is prepared.
LEMMA OnwardPostable ==
  ASSUME TypeOK, Postable, NEW r \in Requests, StepOf(r), logs' = logs,
         \/ pc[r] \in Written /\ pc'[r] \in Written
         \/ /\ pc[r] \in {"fkCheck", "select", "lockRows"}
            /\ pc'[r] \in {"fkCheck", "select", "lockRows"},
         txLog'[r] = txLog[r],
         pc[r] \in Written => writes'[r] = writes[r] /\ seen'[r] = seen[r]
  PROVE  Postable'
<1>1. PreparedFor(r)'
  BY DEF PreparedFor, Postable, Prepared, StepOf, Written
<1>2. pc[r] # "done"
  BY DEF Written
<1> QED BY <1>1, <1>2, NoCommitPostable

\* Once funds and room are checked, what is written is the posting.
LEMMA WritePostable ==
  ASSUME TypeOK, Postable, NEW r \in Requests, Write(r)
  PROVE  Postable'
<1>1. StepOf(r) /\ logs' = logs /\ pc[r] = "lockRows" /\ pc'[r] = "invalidateFrom"
  BY DEF Write, RowsLocked, Goto, StepOf, Others, TypeOK, dbVars, localVars
<1>2. /\ txLog'[r] = WithStatus(txLog[r], "COMPLETED")
      /\ writes'[r] = Legs(req[r], r, seen[r])
      /\ seen' = seen
  BY DEF Write, TypeOK
<1>3. txLog[r] = NewLog(req[r], r)
  BY <1>1 DEF Postable, Prepared
<1>4. /\ \A w \in Touched(req[r]) : seen[r][w] # None
      /\ ~InsufficientFunds(req[r], seen[r])
      /\ ~Overflows(req[r], seen[r])
  BY AllTouchedRead DEF Write
<1>5. PreparedFor(r)'
  BY <1>1, <1>2, <1>3, <1>4 DEF PreparedFor, StepOf, Written
<1> QED BY <1>1, <1>5, NoCommitPostable

\* A commit records the log row of its own request, which is over with it.
LEMMA PublishPostable ==
  ASSUME TypeOK, Postable, NEW r \in Requests,
         pc[r] = "commit", Publish(r), pc' = [pc EXCEPT ![r] = "done"]
  PROVE  Postable'
<1>1. StepOf(r) /\ pc'[r] = "done"
  BY DEF Publish, EndTx, StepOf, Others, TypeOK, localVars
<1>2. Prepared'
  <2>1. PreparedFor(r)'
    BY <1>1 DEF PreparedFor, Written
  <2> QED BY <1>1, <2>1, OneRequestPrepared DEF Postable
<1>3. txLog[r].id = r
  BY DEF Postable, Prepared, Written, WithStatus, NewLog
<1>4. LogsAreOver'
  <2> SUFFICES ASSUME NEW k \in KeySpace, logs'[k] # None
               PROVE  pc'[logs'[k].id] = "done"
    BY DEF LogsAreOver
  <2>1. CASE k = MyKey(r)
    BY <1>1, <1>3, <2>1 DEF Publish, TypeOK
  <2>2. CASE k # MyKey(r)
    <3>1. logs'[k] = logs[k]
      BY <2>2 DEF Publish, TypeOK
    <3>2. pc[logs[k].id] = "done" /\ logs[k].id \in Requests
      BY <3>1 DEF Postable, LogsAreOver, TypeOK, LogRow
    <3> QED BY <3>1, <3>2 DEF TypeOK
  <2> QED BY <2>1, <2>2
<1> QED BY <1>2, <1>4 DEF Postable

\* Every step keeps what makes a commit a posting.
LEMMA PostableStep ==
  ASSUME TypeOK, Control, Postable, [Next]_vars
  PROVE  Postable'
<1>1. ASSUME NEW r \in Requests, DatabaseError(r), pc[r] # "done"
      PROVE  Postable'
  <2>1. StepOf(r) /\ logs' = logs /\ pc'[r] = "done"
    BY <1>1 DEF DatabaseError, EndTx, Answer, StepOf, Others, TypeOK, dbVars,
                localVars
  <2> QED BY <1>1, <2>1, OutsidePostable DEF Written
<1>2. ASSUME NEW r \in Requests, Refuse(r) \/ Accept(r)
      PROVE  Postable'
  <2>1. StepOf(r) /\ logs' = logs /\ pc[r] = "received"
    BY <1>2 DEF Refuse, Accept, Answer, Goto, StepOf, Others, TypeOK, dbVars,
                txVars, localVars
  <2>2. pc'[r] \in {"done", "findUser", "getCached", "checkCache", "insertLog"}
    BY <1>2 DEF Refuse, Accept, Answer, Goto, FirstStep, TypeOK
  <2> QED BY <2>1, <2>2, OutsidePostable DEF Written
<1>3. ASSUME NEW r \in Requests, CheckCache(r) \/ CheckLog(r) \/ FillCache(r)
      PROVE  Postable'
  <2>1. StepOf(r) /\ logs' = logs /\ pc[r] # "done"
    BY <1>3 DEF CheckCache, CheckLog, FillCache, Unacknowledged, Replay,
                Answer, Goto, StepOf, Others, TypeOK, dbVars, txVars, localVars
  <2>2. pc'[r] \in {"done", "checkLog", "fillCache", "insertLog"}
    BY <1>3 DEF CheckCache, CheckLog, FillCache, Unacknowledged, Replay,
                Answer, Goto, TypeOK
  <2> QED BY <2>1, <2>2, OutsidePostable DEF Written
<1>4. ASSUME NEW r \in Requests, InsertLog(r)
      PROVE  Postable'
  <2>1. StepOf(r) /\ logs' = logs /\ pc[r] # "done" /\ pc'[r] = "fkCheck"
    BY <1>4 DEF InsertLog, Goto, StepOf, Others, TypeOK, dbVars, localVars
  <2>2. txLog'[r] = NewLog(req[r], r)
    BY <1>4 DEF InsertLog, TypeOK
  <2>3. PreparedFor(r)'
    BY <2>1, <2>2 DEF PreparedFor, StepOf, Written
  <2> QED BY <2>1, <2>3, NoCommitPostable
<1>5. ASSUME NEW r \in Requests,
             LogRefused(r) \/ WalletRefMissing(r) \/ Overflow(r)
             \/ WalletRefused(r)
      PROVE  Postable'
  <2>1. DatabaseError(r) /\ pc[r] # "done"
    BY <1>5 DEF LogRefused, WalletRefMissing, Overflow, WalletRefused, RowsLocked
  <2> QED BY <1>1, <2>1
<1>6. ASSUME NEW r \in Requests, DeadlockAbort(r)
      PROVE  Postable'
  <2>1. DatabaseError(r)
    BY <1>6 DEF DeadlockAbort
  <2>2. PICK s \in Requests : s \in WaitsFor(r)
    BY <1>6 DEF DeadlockAbort, Deadlocked, WaitsFor, Others
  <2>3. pc[r] # "done"
    BY <2>2 DEF WaitsFor
  <2> QED BY <1>1, <2>1, <2>3
<1>7. ASSUME NEW r \in Requests,
             CheckWalletRef(r) \/ Select(r) \/ \E w \in WalletIds : LockRow(r, w)
      PROVE  Postable'
  <2>1. StepOf(r) /\ logs' = logs /\ txLog'[r] = txLog[r]
    BY <1>7 DEF CheckWalletRef, Select, LockRow, Goto, StepOf, Others, TypeOK,
                dbVars, localVars
  <2>2. /\ pc[r] \in {"fkCheck", "select", "lockRows"}
        /\ pc'[r] \in {"fkCheck", "select", "lockRows"}
    BY <1>7 DEF CheckWalletRef, Select, LockRow, Goto, TypeOK
  <2>3. pc[r] \notin Written
    BY <2>2 DEF Written
  <2> QED BY <2>1, <2>2, <2>3, OnwardPostable
<1>8. ASSUME NEW r \in Requests, RowsMissing(r) \/ FundsShort(r)
      PROVE  Postable'
  <2>1. StepOf(r) /\ logs' = logs /\ pc[r] # "done" /\ pc'[r] = "rollback"
    BY <1>8 DEF RowsMissing, FundsShort, RowsLocked, Fail, Throw, StepOf, Others,
                TypeOK, dbVars, localVars
  <2> QED BY <2>1, OutsidePostable DEF Written
<1>9. ASSUME NEW r \in Requests, Write(r)
      PROVE  Postable'
  BY <1>9, WritePostable
<1>10. ASSUME NEW r \in Requests,
              InvalidateFrom(r) \/ InvalidateTo(r) \/ CacheResult(r)
       PROVE  Postable'
  <2>1. StepOf(r) /\ logs' = logs /\ UNCHANGED <<txLog, writes, seen>>
    BY <1>10 DEF InvalidateFrom, InvalidateTo, CacheResult, Goto, StepOf, Others,
                 TypeOK, dbVars, txVars, localVars
  <2>2. pc[r] \in Written /\ pc'[r] \in Written
    BY <1>10 DEF InvalidateFrom, InvalidateTo, CacheResult, Goto, TypeOK, Written
  <2> QED BY <2>1, <2>2, OnwardPostable
<1>11. ASSUME NEW r \in Requests, Commit(r) \/ CommitUnacknowledged(r)
       PROVE  Postable'
  BY <1>11, PublishPostable DEF Commit, CommitUnacknowledged, Answer
<1>12. ASSUME NEW r \in Requests, Rollback(r)
       PROVE  Postable'
  <2>1. StepOf(r) /\ logs' = logs /\ pc[r] # "done" /\ pc'[r] = "done"
    BY <1>12 DEF Rollback, EndTx, StepOf, Others, TypeOK, dbVars, localVars
  <2> QED BY <2>1, OutsidePostable DEF Written
<1>13. ASSUME NEW r \in Requests, FindUser(r) \/ InsertWallet(r) \/ OpenLedger(r)
       PROVE  Postable'
  <2>1. StepOf(r) /\ logs' = logs /\ pc[r] # "done"
    BY <1>13 DEF FindUser, InsertWallet, OpenLedger, Unacknowledged, Answer,
                 Goto, StepOf, Others, TypeOK, dbVars, txVars, localVars
  <2>2. pc'[r] \in {"done", "insertWallet", "openLedger"}
    BY <1>13 DEF FindUser, InsertWallet, OpenLedger, Unacknowledged, Answer,
                 Goto, TypeOK
  <2> QED BY <2>1, <2>2, OutsidePostable DEF Written
<1>14. ASSUME NEW r \in Requests, GetBalance(r)
       PROVE  Postable'
  <2>1. StepOf(r) /\ logs' = logs /\ pc[r] # "done"
    BY <1>14 DEF GetBalance, GetCached, ReadRow, SetCached, Unacknowledged,
                 Answer, Goto, StepOf, Others, TypeOK, dbVars, txVars,
                 localVars
  <2>2. pc'[r] \in {"done", "readRow", "setCached"}
    BY <1>14 DEF GetBalance, GetCached, ReadRow, SetCached, Unacknowledged,
                 Answer, Goto, TypeOK
  <2> QED BY <2>1, <2>2, OutsidePostable DEF Written
<1>15. ASSUME NEW r \in Requests, AwaitFails(r)
       PROVE  Postable'
  <2>1. StepOf(r) /\ logs' = logs /\ pc[r] # "done"
    BY <1>15 DEF AwaitFails, Throw, Answer, StepOf, Others, TypeOK, dbVars, txVars,
                 localVars, TxSteps, AppSteps
  <2>2. pc'[r] \in {"done", "rollback"}
    BY <1>15 DEF AwaitFails, Throw, Answer, TypeOK
  <2> QED BY <2>1, <2>2, OutsidePostable DEF Written
<1>16. CASE Crash
  <2>1. \A r \in Requests : /\ pc'[r] \in {"received", "done"}
                            /\ pc[r] = "done" => pc'[r] = "done"
    BY <1>16 DEF Crash, Running
  <2>2. Prepared'
    BY <2>1 DEF Prepared, Written
  <2>3. logs' = logs
    BY <1>16 DEF Crash, dbVars
  <2>4. LogsAreOver'
    BY <2>1, <2>3 DEF Postable, LogsAreOver, TypeOK, LogRow
  <2> QED BY <2>2, <2>4 DEF Postable
<1>17. CASE UNCHANGED <<req, pc, txLog, writes, seen, logs>>
  BY <1>17 DEF Postable, Prepared, LogsAreOver
<1>18. CASE Expiry \/ UNCHANGED vars
  <2>1. UNCHANGED <<req, pc, txLog, writes, seen, logs>>
    BY <1>18 DEF Expiry, ExpireBalance, ExpireKey, ExpireTransfer, vars, dbVars,
                 txVars, localVars
  <2> QED BY <2>1, <1>17
<1> QED
  BY <1>2, <1>3, <1>4, <1>5, <1>6, <1>7, <1>8, <1>9, <1>10, <1>11, <1>12, <1>13,
     <1>14, <1>15, <1>16, <1>18
  DEF Next, Handle, CheckKey, LockWallets, Post, CreateWallet, Failure, Finished

------------------------------------------------------------------------------
(* The invariant.                                                          *)

\* The initial states satisfy the invariant.
LEMMA InitInv == Init => IInv
<1> SUFFICES ASSUME Init PROVE IInv
  OBVIOUS
<1>1. TypeOK
  <2>1. balance \in [WalletIds -> Amounts]
    BY OpeningAssumption, MaxMoneyAssumption DEF Init, Amounts
  <2>2. ledgers \in [WalletIds -> Seq(Entry)]
    BY OpeningRowsType DEF Init
  <2>3. /\ seen \in [Requests -> [WalletIds -> Amounts]]
        /\ writes \in [Requests -> [WalletIds -> Entry \cup {None}]]
    BY DEF Init, NoRows, Amounts
  <2>4. /\ balCache \in [WalletIds -> Amounts]
        /\ readBalance \in [Requests -> Amounts]
    BY DEF Init, NoRows, Amounts
  <2>5. reply \in [Requests -> [code: Codes, value: Requests \cup {None} \cup Int]]
    BY DEF Init, Codes
  <2> QED BY <2>1, <2>2, <2>3, <2>4, <2>5 DEF Init, TypeOK, Steps
<1>2. Control
  BY DEF Init, Control, Routed, Logged, TxSteps
<1>3. Locking
  BY OpeningAssumption
     DEF Init, Locking, LockedReadsAreCurrent, WritesLocked, NoOverdraft, NoRows
<1>4. Keyed
  BY DEF Init, Keyed, KeysHeld, FoundCommitted, CachedLogsAreCommitted
<1>5. Postable
  BY DEF Init, Postable, Prepared, LogsAreOver, Written
<1> QED BY <1>1, <1>2, <1>3, <1>4, <1>5 DEF IInv

\* IInv is inductive: no step of a request, a failure or an expiry breaks it.
LEMMA InductiveStep == IInv /\ [Next]_vars => IInv'
  BY TypeStep, ControlStep, LockingStep, KeysStep, PostableStep DEF IInv

\* Every reachable state satisfies the inductive invariant.
THEOREM Invariance == Spec => []IInv
<1>1. Init => IInv
  BY InitInv
<1>2. IInv /\ [Next]_vars => IInv'
  BY InductiveStep
<1> QED
  BY <1>1, <1>2, PTL DEF Spec

\* Rows, lock tables, cache entries and answers always have their shape.
THEOREM TypeCorrect == Spec => []TypeOK
<1>1. IInv => TypeOK
  BY DEF IInv
<1> QED
  BY <1>1, Invariance, PTL

\* What credit, debit and transfer read FOR UPDATE is current until their
\* transaction ends, and no other transaction holds those rows.
THEOREM LocksProtectReads == Spec => []LockedReadsAreCurrent
<1>1. IInv => LockedReadsAreCurrent
  BY DEF IInv, Locking
<1> QED
  BY <1>1, Invariance, PTL

\* No interleaving of postings overdraws a wallet or overflows its column.
THEOREM NoWalletOverdrawn == Spec => []NoOverdraft
<1>1. IInv => NoOverdraft
  BY DEF IInv, Locking
<1> QED
  BY <1>1, Invariance, PTL

\* checkIdempotency may trust Redis: an entry is the committed log row of its
\* key, whatever raced, failed or was lost since it was read.
THEOREM CachedKeysAreTrue == Spec => []CachedLogsAreCommitted
<1>1. IInv => CachedLogsAreCommitted
  BY DEF IInv, Keyed
<1> QED
  BY <1>1, Invariance, PTL
=============================================================================
