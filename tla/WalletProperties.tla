--------------------------- MODULE WalletProperties ---------------------------
(***************************************************************************)
(* What the wallet service must keep true whatever the interleaving of its *)
(* requests and whatever fails.                                            *)
(***************************************************************************)
EXTENDS WalletService, FiniteSetsExt, SequencesExt

Amounts == Int \cup {None}

\* Every variable has the shape of the row, lock table, cache entry or answer
\* it stands for.
TypeOK ==
  /\ req \in [Requests -> Inputs]
  /\ balance \in [WalletIds -> Amounts]
  /\ ledgers \in [WalletIds -> Seq(Entry)]
  /\ logs \in [KeySpace -> LogRow \cup {None}]
  /\ txLog \in [Requests -> LogRow \cup {None}]
  /\ keyShare \in [Requests -> SUBSET WalletIds]
  /\ matched \in [Requests -> SUBSET WalletIds]
  /\ seen \in [Requests -> [WalletIds -> Amounts]]
  /\ writes \in [Requests -> [WalletIds -> Entry \cup {None}]]
  /\ balCache \in [WalletIds -> Amounts]
  /\ idemCache \in [KeySpace -> LogRow \cup {None}]
  /\ xferCache \subseteq Requests
  /\ pc \in [Requests -> Steps]
  /\ foundLog \in [Requests -> LogRow \cup {None}]
  /\ readBalance \in [Requests -> Amounts]
  /\ reply \in [Requests -> [code: Codes, value: Requests \cup {None} \cup Int]]

\* A balance read FOR UPDATE is still the committed one when the transaction
\* uses it, and nobody else has read it to change it: what the row locks of
\* transfer are there for.
LockedReadsAreCurrent ==
  \A r \in Requests, w \in WalletIds :
    seen[r][w] # None =>
      /\ seen[r][w] = balance[w]
      /\ \A s \in Others(r) : seen[s][w] = None /\ w \notin keyShare[s]

\* No interleaving of debits and transfers takes a wallet below zero or above
\* what its column holds.
NoOverdraft ==
  \A w \in WalletIds : balance[w] # None => balance[w] \in 0 .. MaxMoney

Posted(e) == e.log # None

\* The rows of a wallet's postings follow one another: each starts from the
\* balance the one before it left, and the last one left the balance of now.
LedgerChain ==
  \A w \in WalletIds : \A n \in DOMAIN ledgers[w] :
    Posted(ledgers[w][n]) =>
      LET later == {m \in DOMAIN ledgers[w] : m > n /\ Posted(ledgers[w][m])}
      IN  \/ later = {} /\ ledgers[w][n].after = balance[w]
          \/ \E m \in later : /\ \A i \in later : m <= i
                              /\ ledgers[w][m].before = ledgers[w][n].after

\* What a wallet keeps of a debit: if the amount ends in half a cent, its row
\* and the new balance are both rounded up.
KeptBack(i) ==
  IF i.op \in {"DEBIT", "TRANSFER"} /\ i.amount % Cent = Cent \div 2 THEN Cent ELSE 0

Moved(e) == IF e.type = "CREDIT" THEN e.amount ELSE KeptBack(req[e.log]) - e.amount

LedgerSum(w) == SumFunction([n \in DOMAIN ledgers[w] |-> Moved(ledgers[w][n])])

\* A createWallet between its two inserts, or one that never got to the second.
OpenedWithoutRow(r, w) ==
  /\ req[r].op = "CREATE" /\ req[r].wallet = w
  /\ \/ pc[r] = "openLedger"
     \/ pc[r] = "done" /\ reply[r].code \in {"serverError", "lost"}

\* A wallet's ledger accounts for its balance, whatever was posted and rounded,
\* but for the opening balance of a createWallet that was not answered: then the
\* row of the opening is what is missing, and nothing else.
LedgerExplainsBalance ==
  \A w \in WalletIds : balance[w] # None =>
    \/ balance[w] = LedgerSum(w)
    \/ /\ \A n \in DOMAIN ledgers[w] : Posted(ledgers[w][n])
       /\ \E r \in Requests : /\ OpenedWithoutRow(r, w)
                              /\ balance[w] = LedgerSum(w) + Format(req[r].amount)

RowsOf(id, w) == {n \in DOMAIN ledgers[w] : ledgers[w][n].log = id}

ExpectedType(i, w) == IF Takes(i, w) THEN "DEBIT" ELSE "CREDIT"

\* Once-only and all-or-nothing: a committed log row is COMPLETED and comes
\* with exactly the ledger rows of its request, one for each wallet it
\* touches; and no other ledger row mentions a log.
PostedExactlyOnce ==
  /\ \A k \in KeySpace : logs[k] # None =>
       /\ logs[k].status = "COMPLETED"
       /\ \A w \in WalletIds :
            LET i == req[logs[k].id] IN
            IF Takes(i, w) \/ Gives(i, w)
              THEN \E n \in DOMAIN ledgers[w] :
                     /\ RowsOf(logs[k].id, w) = {n}
                     /\ ledgers[w][n].type = ExpectedType(i, w)
                     /\ ledgers[w][n].amount = logs[k].amount
              ELSE RowsOf(logs[k].id, w) = {}
  /\ \A w \in WalletIds : \A n \in DOMAIN ledgers[w] :
       Posted(ledgers[w][n]) =>
         \E k \in KeySpace : logs[k] # None /\ logs[k].id = ledgers[w][n].log

\* Nothing committed is rewritten: a key keeps its log row, a ledger keeps its
\* rows and their order, a wallet stays.
HistoryIsPermanent ==
  [][/\ \A k \in KeySpace : logs[k] # None => logs'[k] = logs[k]
     /\ \A w \in WalletIds : /\ IsPrefix(ledgers[w], ledgers'[w])
                             /\ balance[w] # None => balance'[w] # None]_vars

Total(bal) == SumFunctionOnSet(bal, {w \in WalletIds : bal[w] # None})

\* A transfer moves money: the commit of its log row changes no total, but for
\* the cent the source keeps of an amount that ends in half a cent.
TransfersConserve ==
  [][\A k \in KeySpace :
       logs[k] = None /\ logs'[k] # None /\ logs'[k].op = "TRANSFER"
         => Total(balance') = Total(balance) + KeptBack(req[logs'[k].id])]_vars

\* checkIdempotency may answer from Redis because what it finds there is the
\* committed log row of the key.
CachedLogsAreCommitted ==
  \A k \in KeySpace : idemCache[k] # None => idemCache[k] = logs[k]

Answered(r, code) == pc[r] = "done" /\ reply[r].code = code

\* A success names the one committed posting of the request's key, so that all
\* who succeed with a key are told of the same posting, and a definite refusal
\* means that the request posted nothing.  A transfer is told only of a
\* transfer; createTransaction does not ask what the posting it finds is, and
\* answers a CREDIT or DEBIT that reuses another operation's key with that
\* other operation's row.
AnswersAreTruthful ==
  \A r \in Requests : Posting(req[r]) =>
    /\ Answered(r, "ok") =>
         /\ logs[MyKey(r)] # None
         /\ logs[MyKey(r)].id = reply[r].value
         /\ req[r].op = "TRANSFER" => logs[MyKey(r)].op = "TRANSFER"
    /\ (\E code \in {"badRequest", "notFound", "insufficientFunds"} :
          Answered(r, code)) =>
         \A k \in KeySpace : logs[k] # None => logs[k].id # r

\* The result of a transfer is cached before its commit.  One whose transfer
\* did not happen belongs to a request that was told neither of a success nor
\* of a refusal, or is still being rolled back.
CachedTransfersAreNotDenied ==
  \A r \in xferCache :
    \/ logs[MyKey(r)] # None /\ logs[MyKey(r)].id = r
    \/ pc[r] = "commit"
    \/ pc[r] \in {"rollback", "done"} /\ reply[r].code \in {"serverError", "lost"}

\* Balances a wallet has had, as far as its ledger tells.
BalancesHad(w) ==
  {balance[w]} \cup {ledgers[w][n].before : n \in DOMAIN ledgers[w]}
               \cup {ledgers[w][n].after : n \in DOMAIN ledgers[w]}

\* getBalance never shows, and Redis never holds, a balance of a transaction
\* that did not commit.
BalancesReadWereCommitted ==
  /\ \A w \in WalletIds : balCache[w] # None => balCache[w] \in BalancesHad(w)
  /\ \A r \in Requests :
       req[r].op = "BALANCE" /\ Answered(r, "ok") =>
         reply[r].value \in BalancesHad(req[r].wallet)

OpeningRow(e) == e.log = None

\* However its requests race, a user gets one wallet: one of them is told so
\* and at most one opening row is in the ledger.
OneWalletPerUser ==
  /\ \A r, s \in Requests :
       /\ r # s /\ req[r].op = "CREATE" /\ req[s].op = "CREATE"
       /\ Answered(r, "ok") /\ Answered(s, "ok")
       => req[r].wallet # req[s].wallet
  /\ \A w \in WalletIds : \A m, n \in DOMAIN ledgers[w] :
       OpeningRow(ledgers[w][m]) /\ OpeningRow(ledgers[w][n]) => m = n

\* The service implements the atomic ledger: commits are its postings, in
\* their order, whatever the locks, caches and failures do in between.
Ledger == INSTANCE AtomicLedger

ImplementsAtomicLedger == Ledger!Spec

\* No lock outlives the work it was taken for: while requests are at work, one
\* of them waits for nobody, or PostgreSQL sees it on a cycle of waits and
\* aborts it.
SomebodyCanGoOn ==
  (\E r \in Requests : Running(r)) =>
    \E r \in Requests : Running(r) /\ (WaitsFor(r) = {} \/ Deadlocked(r))

\* Every request the server has accepted is answered: lock waits, waits for
\* another transaction's key and deadlocks all end.
EveryRequestAnswered ==
  \A r \in Requests : (pc[r] # "received") ~> (pc[r] = "done")
------------------------------------------------------------------------------
(* The inductive invariant of the proofs.                                  *)

\* A request is at a step of its own operation, which it validated first.
Routed ==
  \A r \in Requests :
    /\ pc[r] \in TxSteps \cup {"checkCache", "checkLog", "fillCache"} =>
         Valid(req[r]) /\ Posting(req[r])
    /\ pc[r] \in {"findUser", "insertWallet", "openLedger"} =>
         Valid(req[r]) /\ req[r].op = "CREATE"
    /\ pc[r] \in {"getCached", "readRow", "setCached"} => req[r].op = "BALANCE"

\* Once its log row is in, the transaction keeps it until it ends.
Logged ==
  \A r \in Requests :
    /\ pc[r] \in TxSteps \ {"insertLog"} => txLog[r] # None
    /\ pc[r] = "fillCache" => foundLog[r] # None

\* A transaction writes only rows it has locked, and balances that fit.
WritesLocked ==
  \A r \in Requests, w \in WalletIds :
    writes[r][w] # None => /\ seen[r][w] # None
                           /\ writes[r][w].after \in 0 .. MaxMoney

\* An open transaction that has inserted its key has it to itself, and the key
\* has no committed log row.
KeysHeld ==
  \A r \in Requests :
    txLog[r] # None => logs[MyKey(r)] = None /\ KeyHolders(r) = {}

\* A log row read before it is put in Redis is still the row of its key.
FoundCommitted ==
  \A r \in Requests : pc[r] = "fillCache" => foundLog[r] = logs[MyKey(r)]

Written == {"invalidateFrom", "invalidateTo", "cacheResult", "commit"}

\* What a transaction has written is the posting of its request from the
\* balances it has read, and those allow it.
Prepared ==
  \A r \in Requests :
    /\ pc[r] \in {"fkCheck", "select", "lockRows"} =>
         txLog[r] = NewLog(req[r], r)
    /\ pc[r] \in Written =>
         /\ txLog[r] = WithStatus(NewLog(req[r], r), "COMPLETED")
         /\ writes[r] = Legs(req[r], r, seen[r])
         /\ \A w \in Touched(req[r]) : seen[r][w] # None
         /\ ~InsufficientFunds(req[r], seen[r])
         /\ ~Overflows(req[r], seen[r])

\* A committed log row is of a request that is over: it commits no other.
LogsAreOver ==
  \A k \in KeySpace : logs[k] # None => pc[logs[k].id] = "done"

\* Where requests are and what they carry there.
Control == Routed /\ Logged

\* What row locks protect.
Locking == LockedReadsAreCurrent /\ WritesLocked /\ NoOverdraft

\* What the unique index of the keys protects.
Keyed == KeysHeld /\ FoundCommitted /\ CachedLogsAreCommitted

\* What makes a commit a posting.
Postable == Prepared /\ LogsAreOver

\* No step of a request, no failure and no expiry breaks it: the invariant
\* the proofs of WalletServiceProofs go by.
IInv == TypeOK /\ Control /\ Locking /\ Keyed /\ Postable

------------------------------------------------------------------------------
(* What comments and tests say of the service and its steps do not keep.   *)

\* wallet.service.ts:405 - transfer "locks both wallets in consistent order
\* (prevents deadlocks)".  The foreign-key check of the log row has already
\* locked the source wallet by then, so the order does not decide.
TransfersDoNotDeadlock ==
  \A r \in Requests : req[r].op = "TRANSFER" => ~Deadlocked(r)

\* wallet-idempotency.service.spec.ts:438-441 - after a transfer failed for
\* lack of funds the log row of its key is there and FAILED.
FailedTransfersAreLogged ==
  \A r \in Requests :
    req[r].op = "TRANSFER" /\ Answered(r, "insufficientFunds") =>
      logs[MyKey(r)] # None /\ logs[MyKey(r)].status = "FAILED"

\* redis.service.ts:36-37 - the cached balance is invalidated after balance
\* changes "to ensure cache consistency": once every request is answered, a
\* cached balance is the wallet's.
CacheConsistentAtRest ==
  (\A r \in Requests : pc[r] = "done") =>
    \A w \in WalletIds : balCache[w] \in {None, balance[w]}
=============================================================================
