------------------------- MODULE WalletOutcomeProofs -------------------------
(***************************************************************************)
(* Theorems about what becomes of requests: what they commit stays, is a   *)
(* posting of the atomic ledger, and is what their clients are told; for   *)
(* every set of requests, wallets and keys and every choice of failures.   *)
(***************************************************************************)
EXTENDS WalletServiceProofs, WellFoundedInduction, FiniteSetTheorems

------------------------------------------------------------------------------
(* What a step changes.                                                    *)

Ends(r) == Commit(r) \/ CommitUnacknowledged(r)

\* The committed database changes by commits and by createWallet alone, and
\* requests never change what they ask for.
LEMMA DatabaseSteps ==
  ASSUME [Next]_vars
  PROVE  /\ req' = req
         /\ \/ UNCHANGED dbVars
            \/ \E r \in Requests : Ends(r) \/ InsertWallet(r) \/ OpenLedger(r)
<1> USE DEF localVars
<1>1. ASSUME NEW r \in Requests, Ends(r)
      PROVE  req' = req
  BY <1>1 DEF Ends, Commit, CommitUnacknowledged, Publish
<1>2. ASSUME NEW r \in Requests, InsertWallet(r) \/ OpenLedger(r)
      PROVE  req' = req
  BY <1>2 DEF InsertWallet, OpenLedger
<1>3. ASSUME NEW r \in Requests, Refuse(r) \/ Accept(r) \/ DeadlockAbort(r)
      PROVE  req' = req /\ UNCHANGED dbVars
  BY <1>3 DEF Refuse, Accept, DeadlockAbort, DatabaseError
<1>4. ASSUME NEW r \in Requests, CheckKey(r) \/ GetBalance(r) \/ AwaitFails(r)
      PROVE  req' = req /\ UNCHANGED dbVars
  BY <1>4 DEF CheckKey, CheckCache, CheckLog, FillCache, GetBalance, GetCached,
              ReadRow, SetCached, AwaitFails
<1>5. ASSUME NEW r \in Requests,
             InsertLog(r) \/ LogRefused(r) \/ CheckWalletRef(r)
             \/ WalletRefMissing(r) \/ LockWallets(r)
      PROVE  req' = req /\ UNCHANGED dbVars
  BY <1>5 DEF InsertLog, LogRefused, CheckWalletRef, WalletRefMissing,
              LockWallets, Select, LockRow, RowsMissing, Fail, DatabaseError
<1>6. ASSUME NEW r \in Requests,
             FundsShort(r) \/ Overflow(r) \/ Write(r) \/ Rollback(r)
             \/ InvalidateFrom(r) \/ InvalidateTo(r) \/ CacheResult(r)
      PROVE  req' = req /\ UNCHANGED dbVars
  BY <1>6 DEF FundsShort, Fail, Overflow, Write, Rollback, InvalidateFrom,
              InvalidateTo, CacheResult, DatabaseError
<1>7. ASSUME NEW r \in Requests, FindUser(r) \/ WalletRefused(r)
      PROVE  req' = req /\ UNCHANGED dbVars
  BY <1>7 DEF FindUser, WalletRefused, DatabaseError
<1>8. ASSUME Crash \/ Expiry \/ UNCHANGED vars
      PROVE  req' = req /\ UNCHANGED dbVars
  BY <1>8 DEF Crash, Expiry, ExpireBalance, ExpireKey, ExpireTransfer, vars
<1> QED
  BY <1>1, <1>2, <1>3, <1>4, <1>5, <1>6, <1>7, <1>8
  DEF Next, Handle, Post, CreateWallet, Failure, Finished, Ends

Refusals == {"badRequest", "notFound", "insufficientFunds", "conflict"}
Setbacks == {"serverError", "lost"}

\* What may become of a request in a step: it stays, goes on, is rolled back,
\* fails, is refused or succeeds.
Stays(s) == pc'[s] = pc[s] /\ reply'[s] = reply[s]

GoesOn(s) ==
  /\ pc[s] \notin {"done", "rollback", "commit", "openLedger"}
  /\ pc'[s] \notin {"done", "rollback"}
  /\ pc'[s] = "openLedger" => InsertWallet(s)
  /\ pc'[s] = "setCached" => ReadRow(s)

RolledBack(s) ==
  /\ pc[s] = "rollback" /\ pc'[s] = "done" /\ reply'[s] = reply[s]

Fails(s) ==
  /\ pc[s] # "done"
  /\ pc[s] = "openLedger" => pc'[s] = "done"
  /\ pc'[s] \in {"rollback", "done"} /\ reply'[s].code \in Setbacks

Refused(s) ==
  /\ pc[s] \notin {"done", "rollback", "commit", "openLedger"}
  /\ pc'[s] \in {"rollback", "done"} /\ reply'[s].code \in Refusals

Succeeds(s) ==
  /\ pc[s] \notin {"done", "rollback"}
  /\ pc'[s] = "done" /\ reply'[s].code = "ok"
  /\ Commit(s) \/ CheckCache(s) \/ FillCache(s) \/ OpenLedger(s)
     \/ GetCached(s) \/ SetCached(s)

Fate(s) ==
  \/ Stays(s) \/ GoesOn(s) \/ RolledBack(s)
  \/ Fails(s) \/ Refused(s) \/ Succeeds(s)

\* A step of one request leaves the others.
Alone(r) == /\ pc' = [pc EXCEPT ![r] = pc'[r]]
            /\ reply' = [reply EXCEPT ![r] = reply'[r]]

LEMMA AloneFate ==
  ASSUME TypeOK, NEW r \in Requests, Alone(r), Fate(r)
  PROVE  \A s \in Requests : Fate(s)
<1>1. ASSUME NEW s \in Requests, s # r
      PROVE  Stays(s)
  BY <1>1 DEF Alone, TypeOK, Stays
<1> QED
  BY <1>1 DEF Fate

\* An answer, an exception or another step is of one request.
LEMMA MovesAlone ==
  ASSUME TypeOK, NEW r \in Requests
  PROVE  /\ \A step : Goto(r, step) => Alone(r) /\ pc'[r] = step /\ reply'[r] = reply[r]
         /\ \A code, value : Answer(r, code, value) =>
              Alone(r) /\ pc'[r] = "done" /\ reply'[r].code = code
                       /\ reply'[r].value = value
         /\ \A code : Throw(r, code) =>
              Alone(r) /\ pc'[r] = "rollback" /\ reply'[r].code = code
  BY DEF TypeOK, Goto, Answer, Throw, Alone

\* A failed statement is a failure of a request that was waiting for it.
LEMMA ErrorFate ==
  ASSUME TypeOK, NEW r \in Requests, DatabaseError(r), pc[r] # "done"
  PROVE  \A s \in Requests : Fate(s)
  BY MovesAlone, AloneFate DEF DatabaseError, Fate, Fails, Setbacks

\* A stored row answers with a success, a refusal or an error.
LEMMA ReplayFate ==
  ASSUME TypeOK, NEW r \in Requests, NEW row, Replay(r, row)
  PROVE  /\ Alone(r) /\ pc'[r] = "done"
         /\ \/ reply'[r].code \in Refusals \cup Setbacks
            \/ /\ reply'[r].code = "ok" /\ reply'[r].value = row.id
               /\ row.status = "COMPLETED"
               /\ req[r].op = "TRANSFER" => row.op = "TRANSFER"
  BY MovesAlone DEF Replay, Refusals, Setbacks

\* Every step gives every request one of the fates.
LEMMA FateStep ==
  ASSUME TypeOK, [Next]_vars
  PROVE  \A s \in Requests : Fate(s)
<1>1. ASSUME NEW r \in Requests, Refuse(r) \/ Accept(r)
      PROVE  \A s \in Requests : Fate(s)
  <2>1. CASE Refuse(r)
    BY <2>1, MovesAlone, AloneFate DEF Refuse, Fate, Refused, Refusals
  <2>2. CASE Accept(r)
    BY <2>2, MovesAlone, AloneFate DEF Accept, Fate, GoesOn, FirstStep
  <2> QED BY <1>1, <2>1, <2>2
<1>2. ASSUME NEW r \in Requests, CheckCache(r)
      PROVE  \A s \in Requests : Fate(s)
  <2>1. CASE idemCache[MyKey(r)] # None
    <3>1. pc[r] = "checkCache" /\ Replay(r, idemCache[MyKey(r)])
      BY <1>2, <2>1 DEF CheckCache
    <3> QED
      BY <1>2, <3>1, ReplayFate, AloneFate DEF Fate, Fails, Refused, Succeeds
  <2>2. CASE idemCache[MyKey(r)] = None
    BY <1>2, <2>2, MovesAlone, AloneFate DEF CheckCache, Fate, GoesOn
  <2> QED BY <2>1, <2>2
<1>3. ASSUME NEW r \in Requests, CheckLog(r)
      PROVE  \A s \in Requests : Fate(s)
  BY <1>3, MovesAlone, AloneFate DEF CheckLog, Fate, GoesOn
<1>4. ASSUME NEW r \in Requests, FillCache(r)
      PROVE  \A s \in Requests : Fate(s)
  <2>1. pc[r] = "fillCache" /\ (Replay(r, foundLog[r]) \/ Unacknowledged(r))
    BY <1>4 DEF FillCache
  <2>2. CASE Replay(r, foundLog[r])
    BY <1>4, <2>1, <2>2, ReplayFate, AloneFate DEF Fate, Fails, Refused, Succeeds
  <2>3. CASE Unacknowledged(r)
    BY <2>1, <2>3, MovesAlone, AloneFate DEF Unacknowledged, Fate, Fails, Setbacks
  <2> QED BY <2>1, <2>2, <2>3
<1>5. ASSUME NEW r \in Requests,
             InsertLog(r) \/ CheckWalletRef(r) \/ Select(r) \/ Write(r)
      PROVE  \A s \in Requests : Fate(s)
  BY <1>5, MovesAlone, AloneFate DEF InsertLog, CheckWalletRef, Select, Write,
                                     RowsLocked, Fate, GoesOn
<1>6. ASSUME NEW r \in Requests,
             LogRefused(r) \/ WalletRefMissing(r) \/ Overflow(r) \/ WalletRefused(r)
      PROVE  \A s \in Requests : Fate(s)
  <2>1. DatabaseError(r) /\ pc[r] # "done"
    BY <1>6 DEF LogRefused, WalletRefMissing, Overflow, WalletRefused, RowsLocked
  <2> QED BY <2>1, ErrorFate
<1>7. ASSUME NEW r \in Requests, DeadlockAbort(r)
      PROVE  \A s \in Requests : Fate(s)
  <2>1. PICK s \in Requests : s \in WaitsFor(r)
    BY <1>7 DEF DeadlockAbort, Deadlocked, WaitsFor, Others
  <2>2. DatabaseError(r) /\ pc[r] # "done"
    BY <1>7, <2>1 DEF DeadlockAbort, WaitsFor
  <2> QED BY <2>2, ErrorFate
<1>8. ASSUME NEW r \in Requests, RowsMissing(r) \/ FundsShort(r)
      PROVE  \A s \in Requests : Fate(s)
  BY <1>8, MovesAlone, AloneFate DEF RowsMissing, FundsShort, RowsLocked, Fail,
                                     Fate, Refused, Refusals
<1>9. ASSUME NEW r \in Requests,
             InvalidateFrom(r) \/ InvalidateTo(r) \/ CacheResult(r)
      PROVE  \A s \in Requests : Fate(s)
  BY <1>9, MovesAlone, AloneFate DEF InvalidateFrom, InvalidateTo, CacheResult,
                                     Fate, GoesOn
<1>10. ASSUME NEW r \in Requests, Ends(r)
       PROVE  \A s \in Requests : Fate(s)
  BY <1>10, MovesAlone, AloneFate DEF Ends, Commit, CommitUnacknowledged, Fate,
                                      Fails, Setbacks, Succeeds
<1>11. ASSUME NEW r \in Requests, Rollback(r)
       PROVE  \A s \in Requests : Fate(s)
  BY <1>11, AloneFate DEF Rollback, Alone, TypeOK, Fate, RolledBack
<1>12. ASSUME NEW r \in Requests, FindUser(r) \/ InsertWallet(r) \/ OpenLedger(r)
       PROVE  \A s \in Requests : Fate(s)
  BY <1>12, MovesAlone, AloneFate DEF FindUser, InsertWallet, OpenLedger,
                                      Unacknowledged, Fate, GoesOn, Fails,
                                      Setbacks, Refused, Refusals, Succeeds
<1>13. ASSUME NEW r \in Requests, GetBalance(r)
       PROVE  \A s \in Requests : Fate(s)
  BY <1>13, MovesAlone, AloneFate DEF GetBalance, GetCached, ReadRow, SetCached,
                                      Unacknowledged, Fate, GoesOn, Fails,
                                      Setbacks, Refused, Refusals, Succeeds
<1>14. ASSUME NEW r \in Requests, AwaitFails(r)
       PROVE  \A s \in Requests : Fate(s)
  BY <1>14, MovesAlone, AloneFate DEF AwaitFails, TxSteps, AppSteps, Fate, Fails,
                                      Setbacks
<1>15. ASSUME Crash
       PROVE  \A s \in Requests : Fate(s)
  BY <1>15 DEF Crash, Running, Fate, Stays, Fails, Setbacks
<1>16. ASSUME \/ Expiry \/ UNCHANGED vars
              \/ \E r \in Requests : \E w \in WalletIds : LockRow(r, w)
       PROVE  \A s \in Requests : Fate(s)
  BY <1>16 DEF Expiry, ExpireBalance, ExpireKey, ExpireTransfer, vars, LockRow,
               Fate, Stays
<1> QED
  BY <1>1, <1>2, <1>3, <1>4, <1>5, <1>6, <1>7, <1>8, <1>9, <1>10, <1>11, <1>12,
     <1>13, <1>14, <1>15, <1>16
  DEF Next, Handle, CheckKey, LockWallets, Post, CreateWallet, Failure, Finished,
      Ends

------------------------------------------------------------------------------
(* What is committed stays.                                                *)

\* A sequence is a prefix of itself, and of what it becomes by an Append.
LEMMA PrefixOfAppend ==
  ASSUME NEW S, NEW s \in Seq(S), NEW e \in S
  PROVE  IsPrefix(s, s) /\ IsPrefix(s, Append(s, e))
<1>1. Len(s) \in Nat /\ Len(s) <= Len(Append(s, e))
  OBVIOUS
<1>2. SubSeq(s, 1, Len(s)) = SubSeq(Append(s, e), 1, Len(s))
  OBVIOUS
<1> QED BY <1>1, <1>2 DEF IsPrefix

\* What HistoryIsPermanent says of a step.
Extends ==
  /\ \A k \in KeySpace : logs[k] # None => logs'[k] = logs[k]
  /\ \A w \in WalletIds : /\ IsPrefix(ledgers[w], ledgers'[w])
                          /\ balance[w] # None => balance'[w] # None

\* A commit gives a row to a key that has none and appends to ledgers.
LEMMA PublishExtends ==
  ASSUME IInv, NEW r \in Requests, pc[r] = "commit", Publish(r)
  PROVE  Extends
<1>1. TypeOK /\ Control /\ Keyed
  BY DEF IInv
<1>2. logs[MyKey(r)] = None
  BY <1>1 DEF Control, Logged, TxSteps, Keyed, KeysHeld
<1>3. \A k \in KeySpace : logs[k] # None => logs'[k] = logs[k]
  BY <1>1, <1>2 DEF Publish, TypeOK
<1>4. ASSUME NEW w \in WalletIds
      PROVE  IsPrefix(ledgers[w], ledgers'[w])
  <2>1. ledgers[w] \in Seq(Entry)
    BY <1>1 DEF TypeOK
  <2>2. CASE writes[r][w] = None
    <3>1. ledgers'[w] = ledgers[w]
      BY <2>2 DEF Publish, PostedLedgers
    <3>2. Len(ledgers[w]) \in Nat
      BY <2>1
    <3> QED BY <3>1, <3>2 DEF IsPrefix
  <2>3. CASE writes[r][w] # None
    <3>1. writes[r][w] \in Entry /\ ledgers'[w] = Append(ledgers[w], writes[r][w])
      BY <1>1, <2>3 DEF Publish, PostedLedgers, TypeOK
    <3> QED BY <2>1, <3>1, PrefixOfAppend
  <2> QED BY <2>2, <2>3
<1>5. ASSUME NEW w \in WalletIds, balance[w] # None
      PROVE  balance'[w] # None
  <2>1. CASE writes[r][w] = None
    BY <1>5, <2>1 DEF Publish, PostedBalance
  <2>2. CASE writes[r][w] # None
    <3>1. writes[r][w] \in Entry
      BY <1>1, <2>2 DEF TypeOK
    <3>2. balance'[w] \in Int
      BY <2>2, <3>1 DEF Publish, PostedBalance, Entry
    <3> QED BY <3>2, NamesAssumption
  <2> QED BY <2>1, <2>2
<1> QED BY <1>3, <1>4, <1>5 DEF Extends

\* Every step extends what is committed or leaves it as it is.
LEMMA HistoryStep ==
  ASSUME IInv, [Next]_vars
  PROVE  Extends
<1>1. TypeOK
  BY DEF IInv
<1>2. ASSUME UNCHANGED dbVars
      PROVE  Extends
  <2>1. \A w \in WalletIds : Len(ledgers[w]) \in Nat
    BY <1>1 DEF TypeOK
  <2> QED BY <1>2, <2>1 DEF Extends, dbVars, IsPrefix
<1>3. ASSUME NEW r \in Requests, Commit(r) \/ CommitUnacknowledged(r)
      PROVE  Extends
  BY <1>3, PublishExtends DEF Commit, CommitUnacknowledged
<1>4. ASSUME NEW r \in Requests, InsertWallet(r)
      PROVE  Extends
  <2>1. req[r] \in Inputs /\ req[r].wallet \in WalletIds
    BY <1>1, InputType DEF TypeOK
  <2>2. Format(req[r].amount) # None
    BY <2>1, InputType, RoundingInt, NamesAssumption DEF Format
  <2>3. UNCHANGED <<ledgers, logs>>
    BY <1>4 DEF InsertWallet
  <2>4. \A w \in WalletIds : balance[w] # None => balance'[w] # None
    BY <1>1, <1>4, <2>1, <2>2 DEF InsertWallet, TypeOK
  <2>5. \A w \in WalletIds : Len(ledgers[w]) \in Nat
    BY <1>1 DEF TypeOK
  <2> QED BY <2>3, <2>4, <2>5 DEF Extends, IsPrefix
<1>5. ASSUME NEW r \in Requests, OpenLedger(r)
      PROVE  Extends
  <2> DEFINE w == req[r].wallet
             e == OpeningEntry(req[r].amount)
  <2>1. w \in WalletIds /\ e \in Entry
    BY <1>1, InputType, OpeningEntryType DEF TypeOK
  <2>2. UNCHANGED <<balance, logs>>
    BY <1>5 DEF OpenLedger
  <2>3. ledgers' = ledgers \/ ledgers' = [ledgers EXCEPT ![w] = Append(ledgers[w], e)]
    BY <1>5 DEF OpenLedger
  <2>4. \A v \in WalletIds : /\ ledgers[v] \in Seq(Entry)
                             /\ ledgers'[v] \in {ledgers[v], Append(ledgers[v], e)}
    <3> HIDE DEF w, e
    <3> QED BY <1>1, <2>1, <2>3 DEF TypeOK
  <2>5. \A v \in WalletIds : IsPrefix(ledgers[v], ledgers'[v])
    <3> HIDE DEF w, e
    <3> QED BY <2>1, <2>4, PrefixOfAppend
  <2> QED BY <2>2, <2>5 DEF Extends
<1> QED
  BY <1>2, <1>3, <1>4, <1>5, DatabaseSteps DEF Ends

\* Nothing committed is rewritten: a key keeps the log row it got, a ledger its
\* rows in their order, and a wallet stays.
THEOREM CommittedIsPermanent == Spec => HistoryIsPermanent
<1>1. IInv /\ [Next]_vars =>
        [/\ \A k \in KeySpace : logs[k] # None => logs'[k] = logs[k]
         /\ \A w \in WalletIds : /\ IsPrefix(ledgers[w], ledgers'[w])
                                 /\ balance[w] # None => balance'[w] # None]_vars
  BY HistoryStep DEF Extends
<1> QED
  BY <1>1, Invariance, PTL DEF Spec, HistoryIsPermanent

------------------------------------------------------------------------------
(* Both specifications have the rows and the arithmetic of WalletData.     *)

\* Sums, comparisons and rounding are those of MoneyMath.
LEMMA SameMoney ==
  ASSUME NEW x, NEW y
  PROVE  /\ Ledger!Format(x) = Format(x)
         /\ Ledger!Add(x, y) = Add(x, y)
         /\ Ledger!Subtract(x, y) = Subtract(x, y)
         /\ Ledger!LessThan(x, y) <=> LessThan(x, y)
         /\ Ledger!GreaterThan(x, y) <=> GreaterThan(x, y)
<1>1. \A z : Ledger!RoundHalfUp(z) = RoundHalfUp(z)
  BY DEF Ledger!RoundHalfUp, RoundHalfUp, Ledger!Cent, Cent
<1>2. Ledger!Compare(x, y) = Compare(x, y)
  BY DEF Ledger!Compare, Compare
<1> QED
  BY <1>1, <1>2 DEF Ledger!Format, Format, Ledger!Add, Add, Ledger!Subtract, Subtract,
                    Ledger!LessThan, LessThan, Ledger!GreaterThan, GreaterThan

\* Keys and rows are those of WalletData.
LEMMA SameRows ==
  ASSUME NEW i, NEW id, NEW x
  PROVE  /\ Ledger!KeySpace = KeySpace
         /\ Ledger!KeyOf(i, id) = KeyOf(i, id)
         /\ Ledger!NewLog(i, id) = NewLog(i, id)
         /\ Ledger!WithStatus(x, "COMPLETED") = WithStatus(x, "COMPLETED")
         /\ Ledger!Touched(i) = Touched(i)
         /\ Ledger!OpeningEntry(x) = OpeningEntry(x)
  BY SameMoney
  DEF Ledger!KeySpace, KeySpace, Ledger!KeyOf, KeyOf, Ledger!NewLog, NewLog,
      Ledger!WithStatus, WithStatus, Ledger!Touched, Touched,
      Ledger!OpeningEntry, OpeningEntry

\* Postings are those of WalletData.
LEMMA SamePostings ==
  ASSUME NEW i, NEW id, NEW rows
  PROVE  /\ Ledger!Legs(i, id, rows) = Legs(i, id, rows)
         /\ Ledger!InsufficientFunds(i, rows) <=> InsufficientFunds(i, rows)
         /\ Ledger!Overflows(i, rows) <=> Overflows(i, rows)
<1>1. \A w : (Ledger!Takes(i, w) <=> Takes(i, w)) /\ (Ledger!Gives(i, w) <=> Gives(i, w))
  BY DEF Ledger!Takes, Takes, Ledger!Gives, Gives
<1>2. \A b : /\ Ledger!DebitLeg(i, id, b) = DebitLeg(i, id, b)
             /\ Ledger!CreditLeg(i, id, b) = CreditLeg(i, id, b)
  BY SameMoney DEF Ledger!DebitLeg, DebitLeg, Ledger!CreditLeg, CreditLeg
<1>3. Ledger!Legs(i, id, rows) = Legs(i, id, rows)
  BY <1>1, <1>2 DEF Ledger!Legs, Legs
<1>4. Ledger!InsufficientFunds(i, rows) <=> InsufficientFunds(i, rows)
  BY SameMoney DEF Ledger!InsufficientFunds, InsufficientFunds
<1>5. Ledger!Overflows(i, rows) <=> Overflows(i, rows)
  BY <1>1, SameMoney DEF Ledger!Overflows, Overflows, Ledger!Touched, Touched
<1> QED BY <1>3, <1>4, <1>5

\* What a commit does to wallets and ledgers is what WalletData says.
LEMMA SameCommits ==
  ASSUME NEW bal, NEW rows, NEW legs
  PROVE  /\ Ledger!PostedBalance(bal, legs) = PostedBalance(bal, legs)
         /\ Ledger!PostedLedgers(rows, legs) = PostedLedgers(rows, legs)
  BY DEF Ledger!PostedBalance, PostedBalance, Ledger!PostedLedgers, PostedLedgers

------------------------------------------------------------------------------
(* The refinement.                                                         *)

\* The initial states of the service are initial states of the ledger.
LEMMA InitRefines == Init => Ledger!Init
<1>1. \A w : Ledger!OpeningRows(w) = OpeningRows(w)
  BY SameRows DEF Ledger!OpeningRows, OpeningRows
<1>2. Ledger!KeySpace = KeySpace
  BY DEF Ledger!KeySpace, KeySpace
<1> QED
  BY <1>1, <1>2 DEF Init, Ledger!Init

\* The rows of a posting depend on the balances of the wallets it touches.
LEMMA LegsOfTouched ==
  ASSUME NEW i \in Inputs, NEW r \in Requests,
         NEW rows, NEW others,
         \A w \in Touched(i) : rows[w] = others[w]
  PROVE  /\ Legs(i, r, rows) = Legs(i, r, others)
         /\ InsufficientFunds(i, rows) <=> InsufficientFunds(i, others)
         /\ Overflows(i, rows) <=> Overflows(i, others)
<1>1. \A w \in WalletIds :
        /\ Takes(i, w) => rows[w] = others[w]
        /\ Gives(i, w) => rows[w] = others[w]
  BY DEF Takes, Gives, Touched
<1>2. Legs(i, r, rows) = Legs(i, r, others)
  BY <1>1 DEF Legs
<1>3. InsufficientFunds(i, rows) <=> InsufficientFunds(i, others)
  BY DEF InsufficientFunds, Touched
<1>4. Overflows(i, rows) <=> Overflows(i, others)
  BY DEF Overflows
<1> QED BY <1>2, <1>3, <1>4

\* A commit is the posting of its request: the balances it read are those of
\* now, its key is unused and it has posted nothing before.
LEMMA PublishRefines ==
  ASSUME IInv, NEW r \in Requests, pc[r] = "commit", Publish(r)
  PROVE  Ledger!Post(req[r], r)
<1>1. TypeOK /\ Control /\ Locking /\ Keyed /\ Prepared /\ LogsAreOver
  BY DEF IInv, Postable
<1>2. req[r] \in Inputs /\ Valid(req[r]) /\ Posting(req[r])
  BY <1>1 DEF TypeOK, Control, Routed, TxSteps
<1>3. /\ req[r].op \in {"CREDIT", "DEBIT", "TRANSFER"}
      /\ GreaterThan(req[r].amount, 0)
  BY <1>2, InputType, ComparisonsAreOrders DEF Valid, Posting
<1>4. logs[KeyOf(req[r], r)] = None
  BY <1>1 DEF Control, Logged, TxSteps, Keyed, KeysHeld, MyKey
<1>5. ~Ledger!Posted(r)
  BY <1>1, SameRows DEF Ledger!Posted, LogsAreOver
<1>6. /\ txLog[r] = WithStatus(NewLog(req[r], r), "COMPLETED")
      /\ writes[r] = Legs(req[r], r, seen[r])
      /\ \A w \in Touched(req[r]) : seen[r][w] # None
      /\ ~InsufficientFunds(req[r], seen[r])
      /\ ~Overflows(req[r], seen[r])
  BY <1>1 DEF Prepared, Written
<1>7. \A w \in Touched(req[r]) : seen[r][w] = balance[w] /\ balance[w] # None
  BY <1>1, <1>2, <1>6, InputType DEF Locking, LockedReadsAreCurrent, Touched
<1>8. /\ Legs(req[r], r, balance) = writes[r]
      /\ ~InsufficientFunds(req[r], balance)
      /\ ~Overflows(req[r], balance)
  BY <1>2, <1>6, <1>7, LegsOfTouched
<1>9. /\ balance' = PostedBalance(balance, Legs(req[r], r, balance))
      /\ ledgers' = PostedLedgers(ledgers, Legs(req[r], r, balance))
      /\ logs' = [logs EXCEPT ![KeyOf(req[r], r)] =
                             WithStatus(NewLog(req[r], r), "COMPLETED")]
  BY <1>6, <1>8 DEF Publish, MyKey
<1> QED
  BY <1>3, <1>4, <1>5, <1>7, <1>8, <1>9, SameMoney, SameRows, SamePostings, SameCommits
  DEF Ledger!Post

\* createWallet's inserts open a wallet and record its opening.
LEMMA InsertWalletRefines ==
  ASSUME IInv, NEW r \in Requests, InsertWallet(r)
  PROVE  Ledger!OpenWallet(req[r].wallet, req[r].amount)
<1>1. req[r] \in Inputs /\ Valid(req[r]) /\ req[r].op = "CREATE"
  BY DEF IInv, TypeOK, InsertWallet, Control, Routed
<1>2. req[r].amount \in Int /\ 0 <= req[r].amount
  BY <1>1, InputType, ComparisonsAreOrders DEF Valid
<1>3. Format(req[r].amount) \in 0 .. MaxMoney
  BY <1>2, RoundingNotNegative, MaxMoneyAssumption DEF Format, InsertWallet
<1> QED BY <1>3, SameMoney DEF InsertWallet, Ledger!OpenWallet

\* createWallet records the opening of a wallet it has inserted.
Opened ==
  \A r \in Requests : pc[r] = "openLedger" => balance[req[r].wallet] # None

\* Only its own insert brings a request to the opening row.
LEMMA OnlyInsertOpens ==
  ASSUME TypeOK, [Next]_vars, NEW r \in Requests, pc'[r] = "openLedger"
  PROVE  req' = req /\ (pc[r] = "openLedger" \/ InsertWallet(r))
<1>1. req' = req /\ Fate(r)
  BY DatabaseSteps, FateStep
<1> QED
  BY <1>1 DEF Fate, Stays, GoesOn, RolledBack, Fails, Refused, Succeeds

\* A wallet inserted stays.
LEMMA OpenedStep == IInv /\ Opened /\ [Next]_vars => Opened'
<1> SUFFICES ASSUME IInv, Opened, [Next]_vars, NEW r \in Requests,
                    pc'[r] = "openLedger"
             PROVE  balance'[req'[r].wallet] # None
  BY DEF Opened
<1>1. TypeOK /\ req[r] \in Inputs /\ req[r].wallet \in WalletIds
  BY InputType DEF IInv, TypeOK
<1>2. req' = req /\ (pc[r] = "openLedger" \/ InsertWallet(r))
  BY <1>1, OnlyInsertOpens
<1>3. CASE pc[r] = "openLedger"
  BY <1>1, <1>2, <1>3, HistoryStep DEF Opened, Extends
<1>4. CASE InsertWallet(r)
  <2>1. Format(req[r].amount) # None
    BY <1>1, InputType, RoundingInt, NamesAssumption DEF Format
  <2> QED BY <1>1, <1>2, <1>4, <2>1 DEF InsertWallet, TypeOK
<1> QED BY <1>2, <1>3, <1>4

\* The opening row is one of a wallet that exists.
LEMMA OpenLedgerRefines ==
  ASSUME Opened, NEW r \in Requests, OpenLedger(r)
  PROVE  Ledger!RecordOpening(req[r].wallet, req[r].amount) \/ UNCHANGED dbVars
<1>1. balance[req[r].wallet] # None /\ UNCHANGED <<balance, logs>>
  BY DEF Opened, OpenLedger
<1>2. \/ ledgers' = [ledgers EXCEPT ![req[r].wallet] =
                       Append(@, OpeningEntry(req[r].amount))]
      \/ ledgers' = ledgers
  BY DEF OpenLedger
<1>3. CASE ledgers' = ledgers
  BY <1>1, <1>3 DEF dbVars
<1>4. CASE ledgers' = [ledgers EXCEPT ![req[r].wallet] =
                         Append(@, OpeningEntry(req[r].amount))]
  BY <1>1, <1>4, SameRows DEF Ledger!RecordOpening
<1> QED BY <1>2, <1>3, <1>4

\* Every step is a step of the ledger or leaves what is committed.
LEMMA NextRefines ==
  ASSUME IInv, Opened, [Next]_vars
  PROVE  Ledger!Next \/ UNCHANGED dbVars
<1>1. \A r \in Requests : req[r] \in Inputs
  BY DEF IInv, TypeOK
<1>2. ASSUME NEW r \in Requests, Commit(r) \/ CommitUnacknowledged(r)
      PROVE  Ledger!Next
  BY <1>1, <1>2, PublishRefines DEF Commit, CommitUnacknowledged, Ledger!Next
<1>3. ASSUME NEW r \in Requests, InsertWallet(r)
      PROVE  Ledger!Next
  BY <1>1, <1>3, InsertWalletRefines DEF Ledger!Next
<1>4. ASSUME NEW r \in Requests, OpenLedger(r)
      PROVE  Ledger!Next \/ UNCHANGED dbVars
  BY <1>1, <1>4, OpenLedgerRefines DEF Ledger!Next
<1> QED
  BY <1>2, <1>3, <1>4, DatabaseSteps DEF Ends

\* The service implements the atomic ledger: whatever requests race, repeat,
\* deadlock or fail, what is committed is a sequence of whole postings, each
\* made on the balances of its moment, with funds, under an unused key.
THEOREM Refinement == Spec => ImplementsAtomicLedger
<1>1. Init => Opened
  BY DEF Init, Opened
<1>2. IInv /\ Opened /\ [Next]_vars => Opened'
  BY OpenedStep
<1>3. IInv /\ Opened /\ [Next]_vars => [Ledger!Next]_(Ledger!vars)
  BY NextRefines DEF Ledger!vars, dbVars
<1>4. Init => Ledger!Init
  BY InitRefines
<1> QED
  BY <1>1, <1>2, <1>3, <1>4, Invariance, PTL
  DEF Spec, ImplementsAtomicLedger, Ledger!Spec

------------------------------------------------------------------------------
(* Commits.                                                                *)

\* A commit gives the key of its request, which has none, a completed row.
LEMMA CommitRow ==
  ASSUME IInv, NEW r \in Requests, Ends(r)
  PROVE  /\ pc[r] = "commit" /\ Publish(r) /\ Posting(req[r])
         /\ MyKey(r) \in KeySpace
         /\ logs[MyKey(r)] = None
         /\ logs' = [logs EXCEPT ![MyKey(r)] = txLog[r]]
         /\ logs'[MyKey(r)] = txLog[r] /\ txLog[r] # None
         /\ txLog[r] = WithStatus(NewLog(req[r], r), "COMPLETED")
         /\ txLog[r].id = r /\ txLog[r].op = req[r].op
         /\ txLog[r].status = "COMPLETED"
         /\ txLog[r].amount = Format(req[r].amount)
<1>1. pc[r] = "commit" /\ Publish(r)
  BY DEF Ends, Commit, CommitUnacknowledged
<1>2. MyKey(r) \in KeySpace
  BY KeyOfType DEF IInv, TypeOK, MyKey
<1>3. txLog[r] # None /\ logs[MyKey(r)] = None /\ Posting(req[r])
  BY <1>1 DEF IInv, Control, Routed, Logged, TxSteps, Keyed, KeysHeld
<1>4. logs' = [logs EXCEPT ![MyKey(r)] = txLog[r]]
  BY <1>1 DEF Publish
<1>5. logs'[MyKey(r)] = txLog[r]
  BY <1>2, <1>4 DEF IInv, TypeOK
<1>6. txLog[r] = WithStatus(NewLog(req[r], r), "COMPLETED")
  BY <1>1 DEF IInv, Postable, Prepared, Written
<1>7. /\ txLog[r].id = r /\ txLog[r].op = req[r].op
      /\ txLog[r].status = "COMPLETED"
      /\ txLog[r].amount = Format(req[r].amount)
  BY <1>6 DEF WithStatus, NewLog
<1> QED BY <1>1, <1>2, <1>3, <1>4, <1>5, <1>6, <1>7

\* A row of the log stays, and a new one is of the request that commits.
LEMMA LogsGrow ==
  ASSUME IInv, [Next]_vars, NEW k \in KeySpace
  PROVE  /\ logs[k] # None => logs'[k] = logs[k]
         /\ logs[k] = None /\ logs'[k] # None =>
              \E r \in Requests : Ends(r) /\ k = MyKey(r) /\ logs'[k] = txLog[r]
<1>1. CASE logs' = logs
  BY <1>1
<1>2. ASSUME NEW r \in Requests, Ends(r)
      PROVE  /\ logs[k] # None => logs'[k] = logs[k]
             /\ logs[k] = None /\ logs'[k] # None => k = MyKey(r) /\ logs'[k] = txLog[r]
  BY <1>2, CommitRow DEF IInv, TypeOK
<1>3. logs' = logs \/ \E r \in Requests : Ends(r)
  BY DatabaseSteps DEF dbVars, InsertWallet, OpenLedger
<1> QED BY <1>1, <1>2, <1>3

\* What a request asks for, and under which key, does not change.
LEMMA RequestsKeep ==
  ASSUME [Next]_vars
  PROVE  req' = req /\ \A r \in Requests : MyKey(r)' = MyKey(r)
  BY DatabaseSteps DEF MyKey

------------------------------------------------------------------------------
(* Answers.                                                                *)

\* A request that is being rolled back will be told of no success.
RollbacksFail ==
  \A r \in Requests : pc[r] = "rollback" => reply[r].code \in Refusals \cup Setbacks

Truth == AnswersAreTruthful /\ RollbacksFail

LEMMA InitTruth == Init => Truth
  BY DEF Init, Truth, AnswersAreTruthful, RollbacksFail, Answered

LEMMA RollbacksStep ==
  ASSUME IInv, RollbacksFail, [Next]_vars
  PROVE  RollbacksFail'
<1> SUFFICES ASSUME NEW r \in Requests, pc'[r] = "rollback"
             PROVE  reply'[r].code \in Refusals \cup Setbacks
  BY DEF RollbacksFail
<1>1. Fate(r)
  BY FateStep DEF IInv
<1> QED
  BY <1>1 DEF RollbacksFail, Fate, Stays, GoesOn, RolledBack, Fails, Refused, Succeeds

\* A posting is told of success by its commit or by the row of its key.
LEMMA SuccessIsTrue ==
  ASSUME IInv, [Next]_vars, NEW r \in Requests, Posting(req[r]), Succeeds(r)
  PROVE  /\ logs'[MyKey(r)] # None
         /\ logs'[MyKey(r)].id = reply'[r].value
         /\ req[r].op = "TRANSFER" => logs'[MyKey(r)].op = "TRANSFER"
<1>1. TypeOK /\ MyKey(r) \in KeySpace
  BY KeyOfType DEF IInv, TypeOK, MyKey
<1>2. CASE Commit(r)
  <2>1. reply'[r].value = r
    BY <1>1, <1>2, MovesAlone DEF Commit
  <2> QED BY <1>2, <2>1, CommitRow DEF Ends
<1>3. ASSUME NEW row, Replay(r, row), row = logs[MyKey(r)], row # None, UNCHANGED dbVars
      PROVE  /\ logs'[MyKey(r)] # None
             /\ logs'[MyKey(r)].id = reply'[r].value
             /\ req[r].op = "TRANSFER" => logs'[MyKey(r)].op = "TRANSFER"
  <2>1. /\ reply'[r].value = row.id
        /\ req[r].op = "TRANSFER" => row.op = "TRANSFER"
    BY <1>1, <1>3, ReplayFate DEF Succeeds, Refusals, Setbacks
  <2> QED BY <1>3, <2>1 DEF dbVars
<1>4. CASE CheckCache(r)
  <2>1. idemCache[MyKey(r)] # None
    BY <1>1, <1>4, MovesAlone DEF CheckCache, Succeeds
  <2>2. idemCache[MyKey(r)] = logs[MyKey(r)]
    BY <1>1, <2>1 DEF IInv, Keyed, CachedLogsAreCommitted
  <2>3. Replay(r, idemCache[MyKey(r)]) /\ UNCHANGED dbVars
    BY <1>4, <2>1 DEF CheckCache
  <2> QED BY <1>3, <2>1, <2>2, <2>3
<1>5. CASE FillCache(r)
  <2>1. /\ pc[r] = "fillCache" /\ Replay(r, foundLog[r]) /\ UNCHANGED dbVars
    BY <1>1, <1>5, MovesAlone DEF FillCache, Unacknowledged, Succeeds
  <2>2. foundLog[r] = logs[MyKey(r)] /\ foundLog[r] # None
    BY <2>1 DEF IInv, Keyed, FoundCommitted, Control, Logged
  <2> QED BY <1>3, <2>1, <2>2
<1>6. CASE OpenLedger(r) \/ GetCached(r) \/ SetCached(r)
  <2>1. req[r].op \in {"CREATE", "BALANCE"}
    BY <1>6 DEF OpenLedger, GetCached, SetCached, IInv, Control, Routed
  <2> QED BY <2>1 DEF Posting
<1> QED BY <1>2, <1>4, <1>5, <1>6 DEF Succeeds

LEMMA TruthStep ==
  ASSUME IInv, Truth, [Next]_vars
  PROVE  Truth'
<1>1. req' = req /\ \A r \in Requests : MyKey(r)' = MyKey(r) /\ MyKey(r) \in KeySpace
  BY RequestsKeep, KeyOfType DEF IInv, TypeOK, MyKey
<1>2. \A r \in Requests : Fate(r)
  BY FateStep DEF IInv
<1>3. ASSUME NEW r \in Requests, Posting(req[r]), pc'[r] = "done", reply'[r].code = "ok"
      PROVE  /\ logs'[MyKey(r)] # None
             /\ logs'[MyKey(r)].id = reply'[r].value
             /\ req[r].op = "TRANSFER" => logs'[MyKey(r)].op = "TRANSFER"
  <2>1. Stays(r) \/ Succeeds(r)
    BY <1>2, <1>3 DEF Truth, RollbacksFail, Fate, GoesOn, RolledBack, Fails, Refused,
                      Refusals, Setbacks
  <2>2. CASE Stays(r)
    <3>1. Answered(r, "ok") /\ reply'[r] = reply[r]
      BY <1>3, <2>2 DEF Stays, Answered
    <3>2. /\ logs[MyKey(r)] # None
          /\ logs[MyKey(r)].id = reply[r].value
          /\ req[r].op = "TRANSFER" => logs[MyKey(r)].op = "TRANSFER"
      BY <1>3, <3>1 DEF Truth, AnswersAreTruthful
    <3>3. logs'[MyKey(r)] = logs[MyKey(r)]
      BY <1>1, <3>2, LogsGrow
    <3> QED BY <3>1, <3>2, <3>3
  <2>3. CASE Succeeds(r)
    BY <1>3, <2>3, SuccessIsTrue
  <2> QED BY <2>1, <2>2, <2>3
<1>4. ASSUME NEW r \in Requests, Posting(req[r]), pc'[r] = "done",
             reply'[r].code \in {"badRequest", "notFound", "insufficientFunds"},
             NEW k \in KeySpace, logs'[k] # None, logs'[k].id = r
      PROVE  FALSE
  <2>1. CASE logs[k] # None
    <3>1. logs[k].id = r
      BY <1>4, <2>1, LogsGrow
    <3>2. pc[r] = "done"
      BY <2>1, <3>1 DEF IInv, Postable, LogsAreOver
    <3>3. Stays(r)
      BY <1>2, <3>2 DEF Fate, GoesOn, RolledBack, Fails, Refused, Succeeds
    <3>4. \E code \in {"badRequest", "notFound", "insufficientFunds"} : Answered(r, code)
      BY <1>4, <3>2, <3>3 DEF Stays, Answered
    <3> QED BY <1>4, <2>1, <3>1, <3>4 DEF Truth, AnswersAreTruthful
  <2>2. CASE logs[k] = None
    <3>1. PICK s \in Requests : Ends(s) /\ k = MyKey(s) /\ logs'[k] = txLog[s]
      BY <1>4, <2>2, LogsGrow
    <3>2. s = r
      BY <1>4, <3>1, CommitRow
    <3>3. reply'[r].code \in {"ok", "serverError"}
      BY <3>1, <3>2, MovesAlone DEF Ends, Commit, CommitUnacknowledged, IInv
    <3> QED BY <1>4, <3>3
  <2> QED BY <2>1, <2>2
<1>5. AnswersAreTruthful'
  BY <1>1, <1>3, <1>4 DEF AnswersAreTruthful, Answered
<1> QED
  BY <1>5, RollbacksStep DEF Truth

\* A success names the one committed posting of the request's key, whatever
\* operation it was unless the request is a transfer; a definite refusal means
\* that the request posted nothing.
THEOREM TruthfulAnswers == Spec => []AnswersAreTruthful
<1>1. Init => IInv /\ Truth
  BY InitInv, InitTruth
<1>2. IInv /\ Truth /\ [Next]_vars => (IInv /\ Truth)'
  BY InductiveStep, TruthStep
<1>3. IInv /\ Truth => AnswersAreTruthful
  BY DEF Truth
<1> QED
  BY <1>1, <1>2, <1>3, PTL DEF Spec

------------------------------------------------------------------------------
(* Transfer results cached before the commit.                              *)

\* Only CacheResult adds to the cached transfers.
LEMMA TransferCacheSteps ==
  ASSUME [Next]_vars
  PROVE  xferCache' \subseteq xferCache \/ \E r \in Requests : CacheResult(r)
<1> USE DEF cacheVars
<1>1. ASSUME NEW r \in Requests, Refuse(r) \/ Accept(r) \/ DeadlockAbort(r) \/ Failure(r)
      PROVE  xferCache' = xferCache
  BY <1>1 DEF Refuse, Accept, DeadlockAbort, DatabaseError, Failure,
              CommitUnacknowledged, Publish, AwaitFails
<1>2. ASSUME NEW r \in Requests, CheckKey(r) \/ GetBalance(r) \/ CreateWallet(r)
      PROVE  xferCache' = xferCache
  BY <1>2 DEF CheckKey, CheckCache, CheckLog, FillCache, GetBalance, GetCached,
              ReadRow, SetCached, CreateWallet, FindUser, InsertWallet, WalletRefused,
              OpenLedger, DatabaseError
<1>3. ASSUME NEW r \in Requests,
             InsertLog(r) \/ LogRefused(r) \/ CheckWalletRef(r)
             \/ WalletRefMissing(r) \/ LockWallets(r)
      PROVE  xferCache' = xferCache
  BY <1>3 DEF InsertLog, LogRefused, CheckWalletRef, WalletRefMissing,
              LockWallets, Select, LockRow, RowsMissing, Fail, DatabaseError
<1>4. ASSUME NEW r \in Requests,
             FundsShort(r) \/ Overflow(r) \/ Write(r) \/ Rollback(r)
             \/ InvalidateFrom(r) \/ InvalidateTo(r) \/ Commit(r)
      PROVE  xferCache' = xferCache
  BY <1>4 DEF FundsShort, Fail, Overflow, Write, Rollback, InvalidateFrom,
              InvalidateTo, Commit, Publish, DatabaseError
<1>5. ASSUME Crash \/ Expiry \/ UNCHANGED vars
      PROVE  xferCache' \subseteq xferCache
  BY <1>5 DEF Crash, Expiry, ExpireBalance, ExpireKey, ExpireTransfer, vars
<1> QED
  BY <1>1, <1>2, <1>3, <1>4, <1>5 DEF Next, Handle, Post, Finished

LEMMA CachedTransfersStep ==
  ASSUME IInv, CachedTransfersAreNotDenied, [Next]_vars
  PROVE  CachedTransfersAreNotDenied'
<1>1. TypeOK /\ req' = req
      /\ \A r \in Requests : MyKey(r)' = MyKey(r) /\ MyKey(r) \in KeySpace
  BY RequestsKeep, KeyOfType DEF IInv, TypeOK, MyKey
<1> SUFFICES ASSUME NEW r \in xferCache'
             PROVE  \/ logs'[MyKey(r)] # None /\ logs'[MyKey(r)].id = r
                    \/ pc'[r] = "commit"
                    \/ pc'[r] \in {"rollback", "done"} /\ reply'[r].code \in Setbacks
  <2>1. xferCache' \subseteq Requests
    BY InductiveStep DEF IInv, TypeOK
  <2> QED BY <1>1, <2>1 DEF CachedTransfersAreNotDenied, Setbacks
<1>2. CASE r \notin xferCache
  <2>1. PICK s \in Requests : CacheResult(s)
    BY <1>2, TransferCacheSteps
  <2>2. s = r /\ pc'[s] = "commit"
    BY <1>1, <1>2, <2>1, MovesAlone DEF CacheResult
  <2> QED BY <2>2
<1>3. CASE r \in xferCache
  <2>1. r \in Requests /\ Fate(r)
    BY <1>1, <1>3, FateStep DEF TypeOK
  <2>2. CASE logs[MyKey(r)] # None /\ logs[MyKey(r)].id = r
    BY <1>1, <2>1, <2>2, LogsGrow
  <2>3. CASE pc[r] = "commit"
    <3>1. CASE Succeeds(r)
      <4>1. Commit(r)
        BY <2>3, <3>1 DEF Succeeds, CheckCache, FillCache, OpenLedger, GetCached,
                          SetCached
      <4> QED BY <2>1, <4>1, CommitRow DEF Ends
    <3> QED
      BY <2>1, <2>3, <3>1 DEF Fate, Stays, GoesOn, RolledBack, Fails, Refused
  <2>4. CASE pc[r] \in {"rollback", "done"} /\ reply[r].code \in Setbacks
    BY <2>1, <2>4 DEF Fate, Stays, GoesOn, RolledBack, Fails, Refused, Succeeds
  <2> QED
    BY <1>3, <2>2, <2>3, <2>4 DEF CachedTransfersAreNotDenied, Setbacks
<1> QED BY <1>2, <1>3

\* A transfer result in Redis whose transfer did not happen belongs to a
\* request that was told neither of a success nor of a refusal.
THEOREM NoDeniedTransferCached == Spec => []CachedTransfersAreNotDenied
<1>1. Init => IInv /\ CachedTransfersAreNotDenied
  BY InitInv DEF Init, CachedTransfersAreNotDenied
<1>2. IInv /\ CachedTransfersAreNotDenied /\ [Next]_vars =>
        (IInv /\ CachedTransfersAreNotDenied)'
  BY InductiveStep, CachedTransfersStep
<1> QED
  BY <1>1, <1>2, PTL DEF Spec

------------------------------------------------------------------------------
(* Induction on the size of finite sets, from the well-foundedness of the  *)
(* natural numbers.                                                        *)

\* What holds of zero and of the successor of whatever it holds of holds of
\* every number.
LEMMA Induction ==
  ASSUME NEW S, 0 \in S, \A n \in Nat : n \in S => n + 1 \in S
  PROVE  Nat \subseteq S
<1> SUFFICES ASSUME Nat \ S # {} PROVE FALSE
  OBVIOUS
<1> DEFINE R == {ss \in Nat \X Nat : ss[1] < ss[2]}
<1>1. IsWellFoundedOn(R, Nat)
  BY NatLessThanWellFounded DEF OpToRel
<1>2. PICK x \in Nat \ S : \A y \in Nat \ S : ~(<<y, x>> \in R)
  <2>1. Nat \ S \subseteq Nat
    OBVIOUS
  <2> QED BY <1>1, <2>1, WFMin
<1>3. \A y \in Nat \ S : ~ (y < x)
  BY <1>2
<1>4. x # 0
  OBVIOUS
<1>5. x - 1 \in Nat /\ x - 1 < x /\ x - 1 + 1 = x
  BY <1>4
<1> QED BY <1>3, <1>5

\* What holds of a set whenever it holds of the set without any one of its
\* elements holds of every subset of a finite set.
LEMMA InductionOnSubsets ==
  ASSUME NEW S, IsFiniteSet(S), NEW P,
         \A T \in SUBSET S : (\A x \in T : T \ {x} \in P) => T \in P
  PROVE  \A T \in SUBSET S : T \in P
<1> DEFINE N == {n \in Nat : \A T \in SUBSET S : Cardinality(T) = n => T \in P}
<1>1. \A T \in SUBSET S : IsFiniteSet(T) /\ Cardinality(T) \in Nat
  BY FS_Subset, FS_CardinalityType
<1>2. 0 \in N
  <2>1. \A T \in SUBSET S : Cardinality(T) = 0 => T = {}
    BY <1>1, FS_EmptySet
  <2> QED BY <2>1
<1>3. ASSUME NEW n \in Nat, n \in N
      PROVE  n + 1 \in N
  <2> SUFFICES ASSUME NEW T \in SUBSET S, Cardinality(T) = n + 1,
                      NEW x \in T
               PROVE  T \ {x} \in P
    OBVIOUS
  <2>1. Cardinality(T \ {x}) = n
    BY <1>1, FS_RemoveElement
  <2> QED BY <1>3, <2>1
<1>4. Nat \subseteq N
  <2> HIDE DEF N
  <2> QED BY <1>2, <1>3, Induction
<1> QED BY <1>1, <1>4

------------------------------------------------------------------------------
(* Who waits for whom.                                                     *)

\* In a finite set everybody follows somebody of it only if some of them go
\* round: take away one whom nobody follows until there is none.
LEMMA CycleExists ==
  ASSUME NEW W, IsFiniteSet(W), W # {}, NEW f \in [W -> W]
  PROVE  \E S \in SUBSET W :
           /\ S # {} /\ \A x \in S : f[x] \in S
           /\ \A x, y \in S : f[x] = f[y] => x = y
<1> DEFINE Closed(T) == T # {} /\ \A x \in T : f[x] \in T
           Round(T) == Closed(T) /\ \A x, y \in T : f[x] = f[y] => x = y
           P == {T \in SUBSET W : Closed(T) => \E S \in SUBSET W : Round(S)}
<1>1. ASSUME NEW T \in SUBSET W, \A x \in T : T \ {x} \in P
      PROVE  T \in P
  <2> SUFFICES ASSUME Closed(T), ~Round(T)
               PROVE  \E S \in SUBSET W : Round(S)
    OBVIOUS
  <2> DEFINE g == [x \in T |-> f[x]]
  <2>1. g \in [T -> T] /\ g \notin Injection(T, T)
    BY DEF Injection, IsInjective
  <2>2. IsFiniteSet(T)
    BY FS_Subset
  <2>3. g \notin Surjection(T, T)
    BY <2>1, <2>2, FS_Surjection
  <2>4. PICK z \in T : \A x \in T : f[x] # z
    BY <2>1, <2>3 DEF Surjection
  <2>5. Closed(T \ {z})
    BY <2>4
  <2> QED BY <1>1, <2>5
<1>2. W \in P
  <2> HIDE DEF P
  <2> QED BY <1>1, InductionOnSubsets
<1>3. Closed(W)
  OBVIOUS
<1> QED BY <1>2, <1>3

\* The steps at which a transaction may hold its key, and those at which it may
\* hold rows: it waits for its key with neither, and for the foreign key without
\* a row.
KeySteps == (TxSteps \ {"insertLog"}) \cup {"rollback"}
RowSteps == KeySteps \ {"fkCheck"}

HoldsRows(r) == keyShare[r] # {} \/ seen[r] # NoRows

OnlyOpenHold ==
  \A r \in Requests : /\ pc[r] \notin KeySteps => txLog[r] = None
                      /\ pc[r] \notin RowSteps => ~HoldsRows(r)

FewRunning == IsFiniteSet({r \in Requests : Running(r)})

\* A step is of one request, which holds after it what it may; or it ends
\* requests, or moves none.
StepAlone(r) ==
  /\ \A s \in Others(r) : /\ pc'[s] = pc[s] /\ txLog'[s] = txLog[s]
                          /\ keyShare'[s] = keyShare[s] /\ seen'[s] = seen[s]
  /\ pc'[r] \in KeySteps \/ txLog'[r] = None
  /\ pc'[r] \in RowSteps \/ ~HoldsRows(r)'

StepOfNobody ==
  \A s \in Requests :
    \/ pc'[s] = pc[s] /\ UNCHANGED <<txLog[s], keyShare[s], seen[s]>>
    \/ pc'[s] \in {pc[s], "done"} /\ txLog'[s] = None /\ ~HoldsRows(s)'

LEMMA LocksStep ==
  ASSUME TypeOK, OnlyOpenHold, [Next]_vars
  PROVE  (\E r \in Requests : StepAlone(r)) \/ StepOfNobody
<1>1. ASSUME NEW r \in Requests, DatabaseError(r)
      PROVE  StepAlone(r)
  BY <1>1 DEF DatabaseError, EndTx, Answer, StepAlone, Others, HoldsRows, TypeOK
<1>2. ASSUME NEW r \in Requests, pc[r] \notin KeySteps, UNCHANGED txVars,
             \A s \in Others(r) : pc'[s] = pc[s]
      PROVE  StepAlone(r)
  BY <1>2 DEF OnlyOpenHold, StepAlone, Others, HoldsRows, KeySteps, RowSteps, txVars
<1>3. ASSUME NEW r \in Requests,
             \/ Refuse(r) \/ Accept(r) \/ CheckKey(r) \/ GetBalance(r)
             \/ FindUser(r) \/ InsertWallet(r) \/ OpenLedger(r)
      PROVE  StepAlone(r)
  <2>1. pc[r] \notin KeySteps /\ UNCHANGED txVars
    BY <1>3 DEF Refuse, Accept, CheckKey, CheckCache, CheckLog, FillCache,
                GetBalance, GetCached, ReadRow, SetCached, FindUser, InsertWallet,
                OpenLedger, KeySteps, TxSteps
  <2>2. \A s \in Others(r) : pc'[s] = pc[s]
    BY <1>3, MovesAlone
    DEF Refuse, Accept, CheckKey, CheckCache, CheckLog, FillCache, Replay,
        Unacknowledged, GetBalance, GetCached, ReadRow, SetCached, FindUser, InsertWallet,
        OpenLedger, Alone, Others, TypeOK
  <2> QED BY <1>2, <2>1, <2>2
<1>4. ASSUME NEW r \in Requests,
             \/ LogRefused(r) \/ WalletRefMissing(r) \/ Overflow(r)
             \/ WalletRefused(r) \/ DeadlockAbort(r)
      PROVE  StepAlone(r)
  BY <1>1, <1>4 DEF LogRefused, WalletRefMissing, Overflow, WalletRefused,
                    DeadlockAbort
<1>5. ASSUME NEW r \in Requests,
             \/ CheckWalletRef(r) \/ Select(r) \/ RowsMissing(r)
             \/ FundsShort(r) \/ Write(r) \/ InvalidateFrom(r) \/ InvalidateTo(r)
             \/ CacheResult(r)
      PROVE  StepAlone(r)
  BY <1>5 DEF CheckWalletRef, Select, RowsMissing, FundsShort, Write,
              InvalidateFrom, InvalidateTo, CacheResult, Fail, Throw, Goto,
              StepAlone, Others, KeySteps, RowSteps, TxSteps, TypeOK, txVars
<1>6. ASSUME NEW r \in Requests, NEW w \in WalletIds, LockRow(r, w)
      PROVE  StepAlone(r)
  BY <1>6 DEF LockRow, StepAlone, Others, KeySteps, RowSteps, TxSteps, TypeOK
<1>7. ASSUME NEW r \in Requests, Ends(r) \/ Rollback(r)
      PROVE  StepAlone(r)
  BY <1>7 DEF Ends, Commit, CommitUnacknowledged, Publish, Rollback, EndTx, Answer,
              StepAlone, Others, HoldsRows, TypeOK
<1>8. ASSUME NEW r \in Requests, AwaitFails(r)
      PROVE  StepAlone(r)
  <2>1. CASE pc[r] \in TxSteps
    BY <1>8, <2>1 DEF AwaitFails, Throw, StepAlone, Others, KeySteps, RowSteps,
                      TypeOK, txVars
  <2>2. CASE pc[r] \notin TxSteps
    <3>1. pc[r] \notin KeySteps /\ UNCHANGED txVars
      BY <1>8, <2>2 DEF AwaitFails, KeySteps, AppSteps
    <3>2. \A s \in Others(r) : pc'[s] = pc[s]
      BY <1>8, <2>2 DEF AwaitFails, Answer, Others, TypeOK
    <3> QED BY <1>2, <3>1, <3>2
  <2> QED BY <2>1, <2>2
<1>11. ASSUME NEW r \in Requests, InsertLog(r)
       PROVE  StepAlone(r)
  <2>1. pc[r] = "insertLog" /\ ~HoldsRows(r)
    BY <1>11 DEF InsertLog, OnlyOpenHold, RowSteps, KeySteps
  <2>2. pc'[r] = "fkCheck" /\ ~HoldsRows(r)'
    BY <1>11, <2>1 DEF InsertLog, Goto, HoldsRows, TypeOK
  <2> QED
    BY <1>11, <2>2 DEF InsertLog, Goto, StepAlone, Others, KeySteps, TxSteps, TypeOK
<1>9. CASE Crash
  BY <1>9 DEF Crash, HoldsRows, Running, StepOfNobody
<1>10. CASE Expiry \/ UNCHANGED vars
  BY <1>10 DEF Expiry, ExpireBalance, ExpireKey, ExpireTransfer, StepOfNobody, vars,
               txVars
<1> QED
  BY <1>3, <1>4, <1>5, <1>6, <1>7, <1>8, <1>9, <1>10, <1>11
  DEF Next, Handle, LockWallets, Post, CreateWallet, Failure, Finished, Ends

\* No step leaves locks with a request that is over, and a step sets one
\* request to work at most.
LEMMA WaitsStep ==
  ASSUME TypeOK, OnlyOpenHold, FewRunning, [Next]_vars
  PROVE  OnlyOpenHold' /\ FewRunning'
<1> DEFINE R == {r \in Requests : Running(r)}
<1>1. CASE StepOfNobody
  <2>1. OnlyOpenHold'
    BY <1>1 DEF StepOfNobody, OnlyOpenHold, HoldsRows
  <2>2. R' \subseteq R
    BY <1>1 DEF StepOfNobody, Running
  <2>3. IsFiniteSet(R')
    BY <2>2, FS_Subset DEF FewRunning
  <2> QED BY <2>1, <2>3 DEF FewRunning
<1>2. ASSUME NEW r \in Requests, StepAlone(r)
      PROVE  OnlyOpenHold' /\ FewRunning'
  <2>1. OnlyOpenHold'
    BY <1>2 DEF StepAlone, OnlyOpenHold, HoldsRows, Others
  <2>2. R' \subseteq R \cup {r}
    BY <1>2 DEF StepAlone, Running, Others
  <2>3. IsFiniteSet(R \cup {r})
    BY FS_AddElement DEF FewRunning
  <2>4. IsFiniteSet(R')
    BY <2>2, <2>3, FS_Subset
  <2> QED BY <2>1, <2>4 DEF FewRunning
<1> QED BY <1>1, <1>2, LocksStep

\* Who is waited for holds the key or a row: it is at work, and past the steps
\* at which it could not.
LEMMA HoldersRun ==
  ASSUME TypeOK, OnlyOpenHold, NEW r \in Requests, NEW s \in WaitsFor(r)
  PROVE  /\ s \in Requests /\ Running(s) /\ Running(r)
         /\ pc[s] \in KeySteps
         /\ pc[r] = "insertLog" \/ pc[s] \in RowSteps
<1>1. s \in Requests /\ Running(r)
  BY DEF WaitsFor, Others, Running
<1>2. CASE pc[r] = "insertLog"
  <2>1. txLog[s] # None
    BY <1>2 DEF WaitsFor, KeyHolders
  <2> QED BY <1>1, <1>2, <2>1 DEF OnlyOpenHold, KeySteps, TxSteps, Running
<1>3. CASE pc[r] # "insertLog"
  <2>1. HoldsRows(s)
    <3>1. CASE pc[r] = "lockRows"
      BY <3>1 DEF WaitsFor, Unlocked, UpdateBlockers, HoldsRows, NoRows, TypeOK
    <3>2. CASE pc[r] # "lockRows"
      <4>1. req[r].wallet \in WalletIds
        BY InputType DEF TypeOK
      <4> QED BY <1>3, <3>2, <4>1 DEF WaitsFor, RowHolders, HoldsRows, NoRows
    <3> QED BY <3>1, <3>2
  <2> QED BY <1>1, <2>1 DEF OnlyOpenHold, RowSteps, KeySteps, TxSteps, Running
<1> QED BY <1>2, <1>3

\* On a cycle of waits everybody waits for a row and holds one.
LEMMA CyclesAreOverRows ==
  ASSUME TypeOK, OnlyOpenHold, FewRunning, NEW r \in Requests, Deadlocked(r)
  PROVE  pc[r] = "lockRows"
<1>1. PICK S \in SUBSET Requests :
        /\ r \in S
        /\ \E next \in [S -> S] : /\ \A s, t \in S : next[s] = next[t] => s = t
                                  /\ \A s \in S : next[s] \in WaitsFor(s)
  BY DEF Deadlocked
<1>2. PICK next \in [S -> S] : /\ \A s, t \in S : next[s] = next[t] => s = t
                               /\ \A s \in S : next[s] \in WaitsFor(s)
  BY <1>1
<1>3. IsFiniteSet(S)
  <2>1. S \subseteq {s \in Requests : Running(s)}
    BY <1>2, HoldersRun
  <2> QED BY <2>1, FS_Subset DEF FewRunning
<1>4. \A t \in S : \E s \in S : next[s] = t
  <2>1. next \in Injection(S, S)
    BY <1>2 DEF Injection, IsInjective
  <2>2. next \in Surjection(S, S)
    BY <1>3, <2>1, FS_Injection
  <2> QED BY <2>2 DEF Surjection
<1>5. \A t \in S : pc[t] \in KeySteps
  <2> TAKE t \in S
  <2>1. PICK s \in S : t \in WaitsFor(s)
    BY <1>2, <1>4
  <2> QED BY <2>1, HoldersRun
<1>6. \A t \in S : pc[t] \in RowSteps
  <2> TAKE t \in S
  <2>1. PICK s \in S : t \in WaitsFor(s)
    BY <1>2, <1>4
  <2>2. pc[s] # "insertLog"
    BY <1>5 DEF KeySteps
  <2> QED BY <2>1, <2>2, HoldersRun
<1>7. next[r] \in WaitsFor(r) /\ pc[r] \in RowSteps
  BY <1>1, <1>2, <1>6
<1> QED BY <1>7 DEF WaitsFor, RowSteps, KeySteps, TxSteps

LEMMA SomebodyFree ==
  ASSUME TypeOK, OnlyOpenHold, FewRunning
  PROVE  SomebodyCanGoOn
<1> DEFINE W == {r \in Requests : Running(r)}
<1> SUFFICES ASSUME W # {}, \A r \in W : WaitsFor(r) # {}
             PROVE  \E r \in W : Deadlocked(r)
  BY DEF SomebodyCanGoOn
<1> DEFINE f == [r \in W |-> CHOOSE s \in WaitsFor(r) : TRUE]
<1>1. \A r \in W : f[r] \in WaitsFor(r)
  OBVIOUS
<1>2. f \in [W -> W]
  BY <1>1, HoldersRun
<1>3. PICK S \in SUBSET W : /\ S # {} /\ \A x \in S : f[x] \in S
                            /\ \A x, y \in S : f[x] = f[y] => x = y
  <2> HIDE DEF f, W
  <2>1. IsFiniteSet(W)
    BY DEF FewRunning, W
  <2> QED BY <1>2, <2>1, CycleExists
<1>4. PICK r \in S : TRUE
  BY <1>3
<1> DEFINE next == [x \in S |-> f[x]]
<1>5. /\ next \in [S -> S]
      /\ \A s, t \in S : next[s] = next[t] => s = t
      /\ \A s \in S : next[s] \in WaitsFor(s)
  <2> HIDE DEF f
  <2> QED BY <1>1, <1>3
<1>6. S \in SUBSET Requests /\ r \in S /\ r \in W
  BY <1>3, <1>4
<1>7. Deadlocked(r)
  <2> HIDE DEF next
  <2> QED BY <1>5, <1>6 DEF Deadlocked
<1> QED BY <1>6, <1>7

\* What waits rest on always holds.
LEMMA WaitsInvariance == Spec => [](TypeOK /\ OnlyOpenHold /\ FewRunning)
<1>1. Init => IInv /\ OnlyOpenHold /\ FewRunning
  <2> SUFFICES ASSUME Init PROVE IInv /\ OnlyOpenHold /\ FewRunning
    OBVIOUS
  <2>1. OnlyOpenHold
    BY DEF Init, OnlyOpenHold, HoldsRows
  <2>2. {r \in Requests : Running(r)} = {}
    BY DEF Init, Running
  <2>3. FewRunning
    BY <2>2, FS_EmptySet DEF FewRunning
  <2> QED BY <2>1, <2>3, InitInv
<1>2. IInv /\ OnlyOpenHold /\ FewRunning /\ [Next]_vars =>
        (IInv /\ OnlyOpenHold /\ FewRunning)'
  BY InductiveStep, WaitsStep DEF IInv
<1>3. IInv => TypeOK
  BY DEF IInv
<1> QED
  BY <1>1, <1>2, <1>3, PTL DEF Spec

\* Whatever fails, no lock outlives the request that took it, so that the
\* requests at work never all wait, unless PostgreSQL sees the cycle.
THEOREM WaitsCanEnd == Spec => []SomebodyCanGoOn
<1>1. TypeOK /\ OnlyOpenHold /\ FewRunning => SomebodyCanGoOn
  BY SomebodyFree
<1> QED BY <1>1, WaitsInvariance, PTL

\* Only those who wait for a wallet's row deadlock: a double tap that waits for
\* its key, and a createWallet, is never the one PostgreSQL aborts.
THEOREM DeadlocksAreOverRows ==
  Spec => [](\A r \in Requests : Deadlocked(r) => pc[r] = "lockRows")
<1>1. TypeOK /\ OnlyOpenHold /\ FewRunning =>
        \A r \in Requests : Deadlocked(r) => pc[r] = "lockRows"
  BY CyclesAreOverRows
<1> QED BY <1>1, WaitsInvariance, PTL
=============================================================================
