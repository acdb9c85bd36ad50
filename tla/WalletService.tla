---------------------------- MODULE WalletService ----------------------------
(***************************************************************************)
(* src/services/wallet.service.ts with the Redis cache it keeps            *)
(* (src/services/redis.service.ts) over a PostgreSQL database.  One        *)
(* request is one call of a service method; a step is what runs between    *)
(* two awaits, with the database or cache statement it awaits.             *)
(*                                                                         *)
(* PostgreSQL (READ COMMITTED, the default, which nothing overrides) is    *)
(* modelled from how the service uses it: private writes until COMMIT; a   *)
(* unique index that makes an insert wait for an open transaction holding  *)
(* the same key; a foreign-key check that takes FOR KEY SHARE on the       *)
(* referenced wallet; SELECT ... FOR UPDATE that reads the current row     *)
(* once it has the row lock and conflicts with KEY SHARE; and a deadlock   *)
(* detector that aborts a transaction on a cycle of waits.                 *)
(***************************************************************************)
EXTENDS WalletData, FiniteSets

CONSTANTS
  Opening,    \* balance of each wallet when the model starts, or None
  Faults      \* the failures that may happen, out of FaultKinds

FaultKinds == {"await", "ack", "crash", "expiry"}

ASSUME OpeningAssumption ==
  \A w \in WalletIds :
    Opening[w] = None \/ (Opening[w] \in 0 .. MaxMoney /\ WholeCents(Opening[w]))

ASSUME FaultsAssumption == Faults \subseteq FaultKinds

VARIABLES
  \* committed database
  balance,      \* wallets: id -> balance, None when there is no row
  ledgers,      \* ledgers: wallet -> its rows in order of creation
  logs,         \* transaction_logs: idempotency key -> row
  \* open transactions, by request
  txLog,        \* the log row inserted, None before (or without) it
  keyShare,     \* wallets held FOR KEY SHARE by the foreign-key check
  matched,      \* wallets the SELECT ... FOR UPDATE matched
  seen,         \* rows read FOR UPDATE, locked until the end; None if not
  writes,       \* ledger rows and balances written; None if not
  \* cache
  balCache,     \* wallet:balance:<id>
  idemCache,    \* idempotency:<key>
  xferCache,    \* transfer:<log id>: the log ids with an entry
  \* requests
  req,          \* what each request asks for
  pc,           \* the step it is at
  foundLog,     \* log row read from the database by checkIdempotency
  readBalance,  \* balance read from the database by getBalance
  reply         \* the answer, meaningful once pc is "done"

dbVars    == <<balance, ledgers, logs>>
txVars    == <<txLog, keyShare, matched, seen, writes>>
cacheVars == <<balCache, idemCache, xferCache>>
localVars == <<req, foundLog, readBalance>>
vars == <<dbVars, txVars, cacheVars, localVars, pc, reply>>

TxSteps  == {"insertLog", "fkCheck", "select", "lockRows", "invalidateFrom",
             "invalidateTo", "cacheResult", "commit"}
AppSteps == {"checkCache", "checkLog", "fillCache", "findUser", "insertWallet",
             "openLedger", "getCached", "readRow", "setCached"}
Steps    == TxSteps \cup AppSteps \cup {"received", "rollback", "done"}

Codes == {"none", "ok", "badRequest", "conflict", "notFound",
          "insufficientFunds", "serverError", "lost"}

NoRows == [w \in WalletIds |-> None]

OpeningRows(w) ==
  IF Opening[w] = None \/ Opening[w] = 0 THEN <<>>
                                        ELSE <<OpeningEntry(Opening[w])>>

Init ==
  /\ req \in [Requests -> Inputs]
  /\ balance = [w \in WalletIds |-> Opening[w]]
  /\ ledgers = [w \in WalletIds |-> OpeningRows(w)]
  /\ logs = [k \in KeySpace |-> None]
  /\ txLog = [r \in Requests |-> None]
  /\ keyShare = [r \in Requests |-> {}]
  /\ matched = [r \in Requests |-> {}]
  /\ seen = [r \in Requests |-> NoRows]
  /\ writes = [r \in Requests |-> NoRows]
  /\ balCache = NoRows
  /\ idemCache = [k \in KeySpace |-> None]
  /\ xferCache = {}
  /\ pc = [r \in Requests |-> "received"]
  /\ foundLog = [r \in Requests |-> None]
  /\ readBalance = [r \in Requests |-> None]
  /\ reply = [r \in Requests |-> [code |-> "none", value |-> None]]

------------------------------------------------------------------------------
(* Moving a request on, answering it, and ending its transaction.          *)

MyKey(r) == KeyOf(req[r], r)

Goto(r, step) == pc' = [pc EXCEPT ![r] = step] /\ UNCHANGED reply

Answer(r, code, value) ==
  /\ pc' = [pc EXCEPT ![r] = "done"]
  /\ reply' = [reply EXCEPT ![r] = [code |-> code, value |-> value]]

\* An exception inside the transaction callback: Sequelize rolls back, then
\* the caller gets the exception.
Throw(r, code) ==
  /\ pc' = [pc EXCEPT ![r] = "rollback"]
  /\ reply' = [reply EXCEPT ![r] = [code |-> code, value |-> None]]

\* The database forgets the transaction: its locks and its private writes.
EndTx(r) ==
  /\ txLog' = [txLog EXCEPT ![r] = None]
  /\ keyShare' = [keyShare EXCEPT ![r] = {}]
  /\ matched' = [matched EXCEPT ![r] = {}]
  /\ seen' = [seen EXCEPT ![r] = NoRows]
  /\ writes' = [writes EXCEPT ![r] = NoRows]

\* A statement fails inside PostgreSQL: it aborts the transaction at once.
DatabaseError(r) ==
  /\ EndTx(r)
  /\ Answer(r, "serverError", None)
  /\ UNCHANGED <<dbVars, cacheVars, localVars>>

------------------------------------------------------------------------------
(* Who waits for whom.                                                     *)

Others(r) == Requests \ {r}

\* Open transactions that have inserted the same idempotency key.
KeyHolders(r) == {s \in Others(r) : txLog[s] # None /\ MyKey(s) = MyKey(r)}

\* Transactions holding the row FOR UPDATE.
RowHolders(r, w) == {s \in Others(r) : seen[s][w] # None}

\* A faulty variant: plain reads, which wait for nobody.
NoUpdateBlockers(r, w) == {}

\* Transactions whose lock on the row conflicts with FOR UPDATE.
UpdateBlockers(r, w) ==
  {s \in Others(r) : w \in keyShare[s] \/ seen[s][w] # None}

Unlocked(r) == {w \in matched[r] : seen[r][w] = None}

WaitsFor(r) ==
  {s \in Others(r) :
     \/ pc[r] = "insertLog" /\ s \in KeyHolders(r)
     \/ pc[r] = "fkCheck"   /\ s \in RowHolders(r, req[r].wallet)
     \/ pc[r] = "lockRows"  /\ \E w \in Unlocked(r) : s \in UpdateBlockers(r, w)
     \/ /\ pc[r] = "openLedger" /\ GreaterThan(req[r].amount, 0)
        /\ s \in RowHolders(r, req[r].wallet)}

\* r is on a cycle of waits: the requests of some set each wait for another
\* of them, all different.
Deadlocked(r) ==
  \E S \in SUBSET Requests :
    /\ r \in S
    /\ \E next \in [S -> S] :
         /\ \A s, t \in S : next[s] = next[t] => s = t
         /\ \A s \in S : next[s] \in WaitsFor(s)

\* The last call of a method takes effect and its acknowledgement is lost.
Unacknowledged(r) == "ack" \in Faults /\ Answer(r, "serverError", None)

------------------------------------------------------------------------------
(* Validation and the idempotency check.                                   *)

\* The checks made before the first await.  An amount that is no number is
\* refused like one that is not positive.
Valid(i) ==
  /\ i.op = "CREATE" => ~LessThan(i.amount, 0)
  /\ i.op \in {"CREDIT", "DEBIT", "TRANSFER"} => ~LessThanOrEqual(i.amount, 0)
  /\ i.op = "TRANSFER" => i.key # None /\ i.to # i.wallet

Posting(i) == i.op \in {"CREDIT", "DEBIT", "TRANSFER"}

FirstStep(i) ==
  IF i.op = "CREATE" THEN "findUser"
  ELSE IF i.op = "BALANCE" THEN "getCached"
  ELSE IF i.key # None THEN "checkCache" ELSE "insertLog"

Refuse(r) ==
  /\ pc[r] = "received"
  /\ ~Valid(req[r])
  /\ Answer(r, "badRequest", None)
  /\ UNCHANGED <<dbVars, txVars, cacheVars, localVars>>

Accept(r) ==
  /\ pc[r] = "received"
  /\ Valid(req[r])
  /\ Goto(r, FirstStep(req[r]))
  /\ UNCHANGED <<dbVars, txVars, cacheVars, localVars>>

\* A faulty variant: the row of any operation answers a transfer.
ReplayAnyRow(r, row) ==
  IF row.status = "COMPLETED" THEN Answer(r, "ok", row.id)
                              ELSE Answer(r, "conflict", None)

\* The answer to a request whose key has a log row.  A transfer answered
\* from a row that is not a transfer's has no second leg for the controller
\* to read.
Replay(r, row) ==
  IF row.status = "COMPLETED"
    THEN IF req[r].op = "TRANSFER" /\ row.op # "TRANSFER"
           THEN Answer(r, "serverError", None)
           ELSE Answer(r, "ok", row.id)
    ELSE Answer(r, IF row.status = "PENDING" THEN "conflict" ELSE "badRequest",
                None)

CheckCache(r) ==
  /\ pc[r] = "checkCache"
  /\ IF idemCache[MyKey(r)] # None
       THEN Replay(r, idemCache[MyKey(r)])
       ELSE Goto(r, "checkLog")
  /\ UNCHANGED <<dbVars, txVars, cacheVars, localVars>>

CheckLog(r) ==
  /\ pc[r] = "checkLog"
  /\ foundLog' = [foundLog EXCEPT ![r] = logs[MyKey(r)]]
  /\ Goto(r, IF logs[MyKey(r)] # None THEN "fillCache" ELSE "insertLog")
  /\ UNCHANGED <<dbVars, txVars, cacheVars, req, readBalance>>

FillCache(r) ==
  /\ pc[r] = "fillCache"
  /\ idemCache' = [idemCache EXCEPT ![MyKey(r)] = foundLog[r]]
  /\ Replay(r, foundLog[r]) \/ Unacknowledged(r)
  /\ UNCHANGED <<dbVars, txVars, balCache, xferCache, localVars>>

------------------------------------------------------------------------------
(* The transaction of creditWallet, debitWallet and transfer.              *)

\* A faulty variant: no unique index on the key.
InsertLogWithoutIndex(r) ==
  /\ pc[r] = "insertLog"
  /\ Format(req[r].amount) <= MaxMoney
  /\ txLog' = [txLog EXCEPT ![r] = NewLog(req[r], r)]
  /\ Goto(r, "fkCheck")
  /\ UNCHANGED <<dbVars, keyShare, matched, seen, writes, cacheVars, localVars>>

\* INSERT INTO transaction_logs: while another open transaction holds the key
\* the insert waits for it to end.
InsertLog(r) ==
  /\ pc[r] = "insertLog"
  /\ KeyHolders(r) = {}
  /\ logs[MyKey(r)] = None
  /\ Format(req[r].amount) <= MaxMoney
  /\ txLog' = [txLog EXCEPT ![r] = NewLog(req[r], r)]
  /\ Goto(r, "fkCheck")
  /\ UNCHANGED <<dbVars, keyShare, matched, seen, writes, cacheVars, localVars>>

\* The amount does not fit its column, or the key is taken.
LogRefused(r) ==
  /\ pc[r] = "insertLog"
  /\ \/ Format(req[r].amount) > MaxMoney
     \/ KeyHolders(r) = {} /\ logs[MyKey(r)] # None
  /\ DatabaseError(r)

\* The foreign-key check at the end of the insert.
CheckWalletRef(r) ==
  /\ pc[r] = "fkCheck"
  /\ balance[req[r].wallet] # None
  /\ RowHolders(r, req[r].wallet) = {}
  /\ keyShare' = [keyShare EXCEPT ![r] = {req[r].wallet}]
  /\ Goto(r, "select")
  /\ UNCHANGED <<dbVars, txLog, matched, seen, writes, cacheVars, localVars>>

WalletRefMissing(r) ==
  /\ pc[r] = "fkCheck"
  /\ balance[req[r].wallet] = None
  /\ DatabaseError(r)

\* A faulty variant: the result is cached before the wallets are looked at.
SelectCachingResult(r) ==
  /\ pc[r] = "select"
  /\ matched' = [matched EXCEPT ![r] =
                   {w \in Touched(req[r]) : balance[w] # None}]
  /\ xferCache' = xferCache \cup {r}
  /\ Goto(r, "lockRows")
  /\ UNCHANGED <<dbVars, txLog, keyShare, seen, writes, balCache, idemCache, localVars>>

\* SELECT ... FOR UPDATE: the rows it will return are fixed when it starts,
\* then locked one by one in no stated order.
Select(r) ==
  /\ pc[r] = "select"
  /\ matched' = [matched EXCEPT ![r] =
                   {w \in Touched(req[r]) : balance[w] # None}]
  /\ Goto(r, "lockRows")
  /\ UNCHANGED <<dbVars, txLog, keyShare, seen, writes, cacheVars, localVars>>

LockRow(r, w) ==
  /\ pc[r] = "lockRows"
  /\ w \in Unlocked(r)
  /\ UpdateBlockers(r, w) = {}
  /\ seen' = [seen EXCEPT ![r][w] = balance[w]]
  /\ UNCHANGED <<dbVars, txLog, keyShare, matched, writes, cacheVars, localVars,
                 pc, reply>>

RowsLocked(r) == pc[r] = "lockRows" /\ Unlocked(r) = {}

\* The log row gets status FAILED, then the exception.
Fail(r, code) ==
  /\ txLog' = [txLog EXCEPT ![r] = WithStatus(@, "FAILED")]
  /\ Throw(r, code)
  /\ UNCHANGED <<dbVars, keyShare, matched, seen, writes, cacheVars, localVars>>

RowsMissing(r) ==
  /\ RowsLocked(r)
  /\ matched[r] # Touched(req[r])
  /\ Fail(r, "notFound")

FundsShort(r) ==
  /\ RowsLocked(r)
  /\ matched[r] = Touched(req[r])
  /\ InsufficientFunds(req[r], seen[r])
  /\ Fail(r, "insufficientFunds")

Overflow(r) ==
  /\ RowsLocked(r)
  /\ matched[r] = Touched(req[r])
  /\ ~InsufficientFunds(req[r], seen[r])
  /\ Overflows(req[r], seen[r])
  /\ DatabaseError(r)

\* Balances, ledger rows and the COMPLETED status, private until COMMIT.
Write(r) ==
  /\ RowsLocked(r)
  /\ matched[r] = Touched(req[r])
  /\ ~InsufficientFunds(req[r], seen[r])
  /\ ~Overflows(req[r], seen[r])
  /\ writes' = [writes EXCEPT ![r] = Legs(req[r], r, seen[r])]
  /\ txLog' = [txLog EXCEPT ![r] = WithStatus(@, "COMPLETED")]
  /\ Goto(r, "invalidateFrom")
  /\ UNCHANGED <<dbVars, keyShare, matched, seen, cacheVars, localVars>>

\* A faulty variant: the new balance cached instead of the old one dropped.
RefreshFrom(r) ==
  /\ pc[r] = "invalidateFrom"
  /\ balCache' = [balCache EXCEPT ![req[r].wallet] =
                    writes[r][req[r].wallet].after]
  /\ Goto(r, IF req[r].op = "TRANSFER" THEN "invalidateTo" ELSE "commit")
  /\ UNCHANGED <<dbVars, txVars, idemCache, xferCache, localVars>>

InvalidateFrom(r) ==
  /\ pc[r] = "invalidateFrom"
  /\ balCache' = [balCache EXCEPT ![req[r].wallet] = None]
  /\ Goto(r, IF req[r].op = "TRANSFER" THEN "invalidateTo" ELSE "commit")
  /\ UNCHANGED <<dbVars, txVars, idemCache, xferCache, localVars>>

InvalidateTo(r) ==
  /\ pc[r] = "invalidateTo"
  /\ balCache' = [balCache EXCEPT ![req[r].to] = None]
  /\ Goto(r, "cacheResult")
  /\ UNCHANGED <<dbVars, txVars, idemCache, xferCache, localVars>>

\* A faulty variant: the log row is cached under its key as well.
CacheResultUnderKey(r) ==
  /\ pc[r] = "cacheResult"
  /\ xferCache' = xferCache \cup {r}
  /\ idemCache' = [idemCache EXCEPT ![MyKey(r)] = txLog[r]]
  /\ Goto(r, "commit")
  /\ UNCHANGED <<dbVars, txVars, balCache, localVars>>

CacheResult(r) ==
  /\ pc[r] = "cacheResult"
  /\ xferCache' = xferCache \cup {r}
  /\ Goto(r, "commit")
  /\ UNCHANGED <<dbVars, txVars, balCache, idemCache, localVars>>

Publish(r) ==
  /\ balance' = PostedBalance(balance, writes[r])
  /\ ledgers' = PostedLedgers(ledgers, writes[r])
  /\ logs' = [logs EXCEPT ![MyKey(r)] = txLog[r]]
  /\ EndTx(r)
  /\ UNCHANGED <<cacheVars, localVars>>

Commit(r) ==
  /\ pc[r] = "commit"
  /\ Publish(r)
  /\ Answer(r, "ok", r)

\* The database commits, the connection drops before the answer.
CommitUnacknowledged(r) ==
  /\ pc[r] = "commit"
  /\ "ack" \in Faults
  /\ Publish(r)
  /\ Answer(r, "serverError", None)

\* A faulty variant: a transaction that failed is tried again.
RetryAfterRollback(r) ==
  /\ pc[r] = "rollback"
  /\ EndTx(r)
  /\ Goto(r, "insertLog")
  /\ UNCHANGED <<dbVars, cacheVars, localVars>>

\* A faulty variant: the caller gets the exception, the database no ROLLBACK.
RollbackForgotten(r) ==
  /\ pc[r] = "rollback"
  /\ pc' = [pc EXCEPT ![r] = "done"]
  /\ UNCHANGED <<dbVars, txVars, cacheVars, localVars, reply>>

Rollback(r) ==
  /\ pc[r] = "rollback"
  /\ EndTx(r)
  /\ pc' = [pc EXCEPT ![r] = "done"]
  /\ UNCHANGED <<dbVars, cacheVars, localVars, reply>>

DeadlockAbort(r) ==
  /\ Deadlocked(r)
  /\ DatabaseError(r)

------------------------------------------------------------------------------
(* createWallet: three statements, no transaction.                         *)

FindUser(r) ==
  /\ pc[r] = "findUser"
  /\ IF balance[req[r].wallet] # None
       THEN Answer(r, "badRequest", None)
       ELSE Goto(r, "insertWallet")
  /\ UNCHANGED <<dbVars, txVars, cacheVars, localVars>>

\* A faulty variant: no unique index on the user.
InsertWalletAgain(r) ==
  /\ pc[r] = "insertWallet"
  /\ Format(req[r].amount) <= MaxMoney
  /\ balance' = [balance EXCEPT ![req[r].wallet] = Format(req[r].amount)]
  /\ Goto(r, "openLedger")
  /\ UNCHANGED <<ledgers, logs, txVars, cacheVars, localVars>>

InsertWallet(r) ==
  /\ pc[r] = "insertWallet"
  /\ balance[req[r].wallet] = None
  /\ Format(req[r].amount) <= MaxMoney
  /\ balance' = [balance EXCEPT ![req[r].wallet] = Format(req[r].amount)]
  /\ Goto(r, "openLedger")
  /\ UNCHANGED <<ledgers, logs, txVars, cacheVars, localVars>>

\* The user already has a wallet, or the balance does not fit its column.
WalletRefused(r) ==
  /\ pc[r] = "insertWallet"
  /\ balance[req[r].wallet] # None \/ Format(req[r].amount) > MaxMoney
  /\ DatabaseError(r)

\* A faulty variant: the comparison the wrong way round.
OpenLedgerUnlessPositive(r) ==
  /\ pc[r] = "openLedger"
  /\ IF LessThan(req[r].amount, 0)
       THEN /\ RowHolders(r, req[r].wallet) = {}
            /\ ledgers' = [ledgers EXCEPT ![req[r].wallet] =
                             Append(@, OpeningEntry(req[r].amount))]
       ELSE UNCHANGED ledgers
  /\ Answer(r, "ok", r)
  /\ UNCHANGED <<balance, logs, txVars, cacheVars, localVars>>

\* The ledger row of a positive initial balance (its foreign-key check waits
\* for the wallet row), then the answer.
OpenLedger(r) ==
  /\ pc[r] = "openLedger"
  /\ IF GreaterThan(req[r].amount, 0)
       THEN /\ RowHolders(r, req[r].wallet) = {}
            /\ ledgers' = [ledgers EXCEPT ![req[r].wallet] =
                             Append(@, OpeningEntry(req[r].amount))]
       ELSE UNCHANGED ledgers
  /\ Answer(r, "ok", r) \/ (GreaterThan(req[r].amount, 0) /\ Unacknowledged(r))
  /\ UNCHANGED <<balance, logs, txVars, cacheVars, localVars>>

------------------------------------------------------------------------------
(* getBalance.                                                             *)

GetCached(r) ==
  /\ pc[r] = "getCached"
  /\ IF balCache[req[r].wallet] # None
       THEN Answer(r, "ok", balCache[req[r].wallet])
       ELSE Goto(r, "readRow")
  /\ UNCHANGED <<dbVars, txVars, cacheVars, localVars>>

ReadRow(r) ==
  /\ pc[r] = "readRow"
  /\ readBalance' = [readBalance EXCEPT ![r] = balance[req[r].wallet]]
  /\ IF balance[req[r].wallet] = None
       THEN Answer(r, "notFound", None)
       ELSE Goto(r, "setCached")
  /\ UNCHANGED <<dbVars, txVars, cacheVars, req, foundLog>>

SetCached(r) ==
  /\ pc[r] = "setCached"
  /\ balCache' = [balCache EXCEPT ![req[r].wallet] = readBalance[r]]
  /\ Answer(r, "ok", readBalance[r]) \/ Unacknowledged(r)
  /\ UNCHANGED <<dbVars, txVars, idemCache, xferCache, localVars>>

------------------------------------------------------------------------------
(* Failures.                                                               *)

\* An awaited call rejects: the database connection or Redis is gone.
AwaitFails(r) ==
  /\ "await" \in Faults
  /\ pc[r] \in TxSteps \cup AppSteps
  /\ IF pc[r] \in TxSteps THEN Throw(r, "serverError")
                          ELSE Answer(r, "serverError", None)
  /\ UNCHANGED <<dbVars, txVars, cacheVars, localVars>>

\* The process dies: its requests get no answer and the database rolls their
\* transactions back.  Requests not yet received reach the next process.
Running(r) == pc[r] \notin {"received", "done"}

Crash ==
  /\ "crash" \in Faults
  /\ \E r \in Requests : Running(r)
  /\ txLog' = [r \in Requests |-> None]
  /\ keyShare' = [r \in Requests |-> {}]
  /\ matched' = [r \in Requests |-> {}]
  /\ seen' = [r \in Requests |-> NoRows]
  /\ writes' = [r \in Requests |-> NoRows]
  /\ pc' = [r \in Requests |-> IF Running(r) THEN "done" ELSE pc[r]]
  /\ reply' = [r \in Requests |->
                 IF Running(r) THEN [code |-> "lost", value |-> None]
                               ELSE reply[r]]
  /\ UNCHANGED <<dbVars, cacheVars, localVars>>

\* A cache entry reaches its time to live, or is evicted.
ExpireBalance(w) ==
  /\ "expiry" \in Faults
  /\ balCache[w] # None
  /\ balCache' = [balCache EXCEPT ![w] = None]
  /\ UNCHANGED <<dbVars, txVars, idemCache, xferCache, localVars, pc, reply>>

ExpireKey(k) ==
  /\ "expiry" \in Faults
  /\ idemCache[k] # None
  /\ idemCache' = [idemCache EXCEPT ![k] = None]
  /\ UNCHANGED <<dbVars, txVars, balCache, xferCache, localVars, pc, reply>>

ExpireTransfer(r) ==
  /\ "expiry" \in Faults
  /\ r \in xferCache
  /\ xferCache' = xferCache \ {r}
  /\ UNCHANGED <<dbVars, txVars, balCache, idemCache, localVars, pc, reply>>

------------------------------------------------------------------------------

CheckKey(r) == CheckCache(r) \/ CheckLog(r) \/ FillCache(r)

LockWallets(r) ==
  Select(r) \/ (\E w \in WalletIds : LockRow(r, w)) \/ RowsMissing(r)

Post(r) ==
  \/ InsertLog(r) \/ LogRefused(r) \/ CheckWalletRef(r) \/ WalletRefMissing(r)
  \/ LockWallets(r)
  \/ FundsShort(r) \/ Overflow(r) \/ Write(r)
  \/ InvalidateFrom(r) \/ InvalidateTo(r) \/ CacheResult(r)
  \/ Commit(r) \/ Rollback(r)

CreateWallet(r) ==
  FindUser(r) \/ InsertWallet(r) \/ WalletRefused(r) \/ OpenLedger(r)

GetBalance(r) == GetCached(r) \/ ReadRow(r) \/ SetCached(r)

\* What the server does for a request it has accepted.
Handle(r) == CheckKey(r) \/ Post(r) \/ CreateWallet(r) \/ GetBalance(r)

Failure(r) == CommitUnacknowledged(r) \/ AwaitFails(r)

Expiry ==
  \/ \E w \in WalletIds : ExpireBalance(w)
  \/ \E k \in KeySpace : ExpireKey(k)
  \/ \E r \in Requests : ExpireTransfer(r)

\* Every request has its answer: nothing is left to do.
Finished == (\A r \in Requests : pc[r] = "done") /\ UNCHANGED vars

Next ==
  \/ \E r \in Requests : Refuse(r) \/ Accept(r) \/ Handle(r) \/ DeadlockAbort(r)
                         \/ Failure(r)
  \/ Crash
  \/ Expiry
  \/ Finished

Spec == Init /\ [][Next]_vars

\* The event loop, the database and the cache go on with every request that
\* was accepted, and PostgreSQL breaks deadlocks; clients and failures are
\* under no obligation.
Fairness ==
  \A r \in Requests : WF_vars(Handle(r)) /\ WF_vars(DeadlockAbort(r))

FairSpec == Spec /\ Fairness
=============================================================================
