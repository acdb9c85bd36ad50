# A formal model of the TranxNgine wallet engine

TranxNgine is a NestJS service that keeps wallets in PostgreSQL (through
Sequelize) with a Redis cache in front of it. It credits, debits and transfers
money under client-chosen idempotency keys. This directory holds a TLA+
development of that service: modules translated from the source, TLC
configurations that check them on small instances, and TLAPS proofs that hold
for every instance. Paths below are relative to the repository root; the
service's code is under `src/`.

## 1. Inventory

| Component | Source | State it keeps | Operations | Module |
|---|---|---|---|---|
| Wallet service | `src/services/wallet.service.ts` | none of its own; rows, cache entries and the local variables of each request | `createWallet`, `creditWallet`, `debitWallet`, `transfer`, `getBalance`, `checkIdempotency`, read-only queries | `WalletService`, `TransactionHistory` |
| Schema | `src/models/*.model.ts`, `database/migrations/*` | wallets, ledgers, transaction_logs | unique keys, foreign keys, column widths, time stamps | `WalletData`, `WalletService`, `TransactionHistory` |
| Redis service, caches | `src/services/redis.service.ts` | `wallet:balance:*`, `idempotency:*`, `transfer:*` with a time to live | get, set, invalidate | `WalletService` |
| Rate limiting | `src/guards/rate-limit.guard.ts`, `redis.service.ts` | `ratelimit:ip:*` | read and write of a counter | `RateLimit` |
| Money arithmetic | `src/utils/money-math.util.ts` | none | add, subtract, compare, format, multiply | `MoneyMath` |
| Interest | `src/utils/money-math.util.ts` 139-220 | none | daily interest, interest over a period with leap years | `Interest` |
| Idempotency interceptor | `src/common/interceptors/idempotency.interceptor.ts` | processing marks and results in Redis | intercept | `IdempotencyInterceptor`, `OnceByKey` |
| Shutdown | `src/bootstrap/shutdown.ts` | a flag and a timer | signal and error handlers, forced exit | `Shutdown` |
| Controller, DTOs, filter | `src/controllers`, `src/common` | none | routes, validation, formatting | inputs and answers of `WalletService`, the pages of `TransactionHistory` |
| Bootstrap, config, logger, health, Swagger | `src/main.ts`, `src/bootstrap`, ... | none that matters here | wiring | not modelled |

How they interact. A signal makes the server stop accepting requests, wait for
those it has and close the database, with a timer behind it. A request passes the rate-limit guard (two Redis calls), then
the controller calls one method of the wallet service. A posting (credit,
debit, transfer) first looks for its key in Redis and in `transaction_logs`,
outside any transaction. Then, in one database transaction, it inserts its log
row, locks the wallet rows, checks funds, writes balances, ledger rows and the
log status. Still inside the transaction it invalidates cached balances and
caches a transfer's result in Redis, and then commits. `createWallet` uses no
transaction: a read, an insert, and a second insert. A client that reads the
history sends one request for each page, and postings go on in between. The
interceptor wraps a handler in three cache calls; no route applies it yet, and
no service calls the interest functions.

What is hard. Requests interleave at every `await`. Two systems (PostgreSQL
and Redis) are updated without a common commit. Locks are taken explicitly
(`FOR UPDATE`) and implicitly (a foreign-key check takes `FOR KEY SHARE`). Any
call may fail, a commit may go unacknowledged, the process may die, clients
retry with the same key, and cache entries vanish. Amounts are decimal strings
that may fall between two cents while everything stored is rounded to cents.
Pages are cut by offset out of a list that grows at its front. Events reach the
shutdown more than once, and NestJS closes the application beside it.
`PROJECT.json` lists the hazards at the lines where they bite; the properties
below are aimed at them.

What makes each component correct:

* wallet service: nobody overdraws a wallet; a ledger is a chain of before and
  after balances ending in the current one and accounting for it; a key is
  posted at most once and completely; whoever succeeds with a key is told of its
  one posting and a refusal posted nothing; a user has one wallet; every accepted request is answered;
* caches: an idempotency entry is the committed log row; a cached balance is
  one the wallet has had;
* rate limit: the counter never charges a client for requests it did not make,
  refuses only who has just made as many requests as the limit without a pause,
  and lets in whoever pauses; no time to live of the counter admits more than
  the limit, but for requests that overlap and losses of the counter (that the
  limit is per minute is not so, see section 6);
* history: newest first is last committed first; a client that pages to the end
  has missed nothing that was there, and finds what it was told by key;
* interceptor: an answer is of a run there was; nobody passes the mark of a
  request at work, and a handler runs again for an answered key, only when
  something took the mark or the result away;
* interest: leap days are found exactly, and a year earns the annual rate;
* shutdown: requests are cut only by force, none works on without a database,
  and a shutdown that has begun ends;
* money: rounding is to the nearest cent, rows say what balances gained or lost,
  and the funds check on exact amounts protects the rounded balance.

## 2. The modules

| Module | What it is |
|---|---|
| `MoneyMath` | toFixed(2) under ROUND_HALF_UP, sums, comparisons; amounts are whole mills, ten to the cent |
| `Interest` | the calendar and the interest functions, over `MoneyMath` |
| `WalletData` | constants with their assumptions, the row types, and the pure part of a posting: the ledger rows it writes given the balances it read |
| `WalletService` | requests, transactions, locks, caches, failures; one action per database or cache statement |
| `AtomicLedger` | the abstract specification: postings that happen in one step |
| `WalletProperties` | what is checked of `WalletService`, the inductive invariant, and the refinement to `AtomicLedger` |
| `TransactionHistory` | the two read endpoints, as a client uses them while postings go on |
| `RateLimit` | the guard and its counter, with its properties |
| `IdempotencyInterceptor` | the interceptor over its cache |
| `OnceByKey` | the abstract specification of what its clients may rely on |
| `Shutdown` | handlers, flag, timer, the two closes and the requests in flight |
| `MCWalletService`, `MCMoneyMath`, `MCRateLimit`, `MCTransactionHistory`, `MCIdempotencyInterceptor`, `MCShutdown` | instances for TLC |
| `WalletServiceProofs` | the inductive invariant, kept by every step, and the theorems that follow from it alone |
| `WalletOutcomeProofs` | what becomes of requests: that `WalletService` implements `AtomicLedger`, what clients are told, that somebody can always go on |
| `WalletLedgerProofs` | what the ledger records, and the sums over it |
| `MoneyMathProofs` | the arithmetic of a posting, the leap days and the year of interest |
| `RateLimitProofs`, `IdempotencyInterceptorProofs`, `TransactionHistoryProofs`, `ShutdownProofs` | the theorems of these components |

Some definitions are preceded by one marked "A faulty variant": a plausible bug
(a missing lock, a missing unique index, a wrong limit). No specification uses
them. `PROJECT.json` pairs each with a property that fails when it replaces the
definition after it; that is the evidence that the property would notice.

### WalletService: state and steps against the code

A request is one call of a service method; `pc` is the `await` it has reached.
A step runs the code between two awaits together with the statement awaited, so
requests interleave exactly where Node.js lets them.

| Code | Actions |
|---|---|
| validation before the first await | `Refuse`, `Accept` |
| `checkIdempotency` (151-186) and the answer to a known key | `CheckCache`, `CheckLog`, `FillCache`, `Replay` |
| `transactionLogModel.create` | `InsertLog`, `LogRefused` (unique key, column overflow), `CheckWalletRef`, `WalletRefMissing` (foreign key) |
| `findByPk` / `findAll` with `LOCK.UPDATE` | `Select` fixes the matching rows, `LockRow` locks and reads each, `RowsMissing` answers 404 |
| funds check, updates, ledger rows, COMPLETED | `FundsShort`, `Overflow`, `Write` |
| Redis calls inside the transaction | `InvalidateFrom`, `InvalidateTo`, `CacheResult` |
| end of `sequelize.transaction` | `Commit`, `Rollback` |
| `createWallet` | `FindUser`, `InsertWallet`, `WalletRefused`, `OpenLedger` |
| `getBalance` | `GetCached`, `ReadRow`, `SetCached` |
| failures | `AwaitFails`, `CommitUnacknowledged`, `Unacknowledged` (the last call of `createWallet`, `getBalance` or `checkIdempotency` takes effect, its answer is lost), `Crash`, `DeadlockAbort`, `ExpireBalance`, `ExpireKey`, `ExpireTransfer` |

Several statements of one transaction whose effects stay private until COMMIT,
touch rows already locked and cannot wait (the balance updates, the ledger
inserts, the status update) are one step, `Write`: no other request can tell
them apart, and a failure between them is a failure before or after `Write`, for
the rollback drops whatever was written. `Fail` (status FAILED, then the
exception) and `Rollback` are separate steps, because locks are held in
between.

PostgreSQL is not in the repository; it is modelled from how the code uses it,
at READ COMMITTED (nothing overrides the default):

* writes are private until COMMIT; locks last until the transaction ends;
* an insert of a unique value waits for an open transaction that has inserted
  the same one, then succeeds or fails by how that one ended;
* the foreign key `transaction_logs.wallet_id` (migration
  `20240201000003`) makes the insert take FOR KEY SHARE on the wallet row, which
  conflicts with FOR UPDATE of another transaction;
* SELECT ... FOR UPDATE finds its rows, then locks them one at a time, in an
  order the statement does not state (`transfer` sorts the two ids, but an `IN`
  list is no ORDER BY), and reads the current version of each;
* a cycle of waits is detected and some transaction on it is aborted;
* a number too large for DECIMAL(20,2) makes the statement fail.

Abstractions of data. A wallet id stands for its user too (`userId` is unique).
A request without a key gets a fresh uuid, which the request itself stands for.
An amount the code refuses as no number is like one that is not positive: both
are refused with the same status before the first await. `MaxMoney` is the
largest value of the column. References, descriptions, metadata and timestamps
are left out; nothing here depends on them. Decimal.js works with 20
significant digits, so a sum beyond 20 digits would round twice; amounts of
that size do not fit a column and are not modelled.

Where the cache lives. `src/modules/redis-cache.module.ts` configures the cache by
the `store` option of older cache-manager releases, and the times to live are
passed as numbers of seconds where cache-manager 7 counts milliseconds. The
model depends on neither: an entry may vanish at any moment (`ExpireBalance`,
`ExpireKey`, `ExpireTransfer`), together with a `Crash` or without one, which
covers Redis, process memory and any time to live. Only what the rate limit
promises depends on times, so `RateLimit` has a clock and both units.

Two things one sees in the model and not at a glance in the code: a committed
log row is always COMPLETED, because PENDING and FAILED are only ever written
inside a transaction that does not commit with them. So the 409 "still
processing" and the 400 "previous transaction failed" branches are never
taken; `Replay` keeps them, and the first conjunct of `PostedExactlyOnce` is
why they stay idle. And a posting on a wallet that does not exist fails on the
foreign key of the log row (500) before the code that answers 404 is reached;
only a transfer's destination gets the 404.

### AtomicLedger

What the service promises to a reader who knows nothing of locks and caches:
`balance`, `ledgers` and `logs` only, and a posting is one step that requires
an unused key, an unposted request, existing wallets, funds and room. The
refinement is the identity on the three variables: `Commit` and
`CommitUnacknowledged` map to `Post`, `InsertWallet` to `OpenWallet`,
`OpenLedger` to `RecordOpening`, everything else to a stutter.

### RateLimit

One client address. `Read` and `WriteBack` are the two calls of
`checkRateLimit` (redis.service.ts 71-90); a refusal is decided at the read.
A write may be applied and its answer lost (`WriteUnacknowledged`), and the
entry may be lost at any moment, by eviction or with the process that keeps it
(`Forget`).

The clock ticks in the cache's unit, the millisecond of cache-manager 7
(`package.json` 40). The guard gives its window in seconds and `checkRateLimit`
passes the number on as the time to live, so `Window` is `WindowSeconds * Second`
ticks and `TimeToLive` is `WindowSeconds` ticks: 60 ms where a minute is meant. A
cache that counted seconds would be `Second = 1`; the theorems hold for every
value. Each write restarts the time to live.

`disturbedAt` is history: the last moment at which the entry was lost or two
requests had both read and not yet written. `readAt` and `chargedAt` are when a
request read and wrote the counter.

### Interest

A moment is a record of local time: year, day of the year, tick of the day; the
code has milliseconds, and the number of ticks is a parameter. Local time is at
a fixed distance from universal time, so every day has 24 hours. Rates are
whole hundredths. `HasLeapYearBetween` is the loop over years, `Earned` the
product of principal, rate and days over 365 or 366, rounded to cents. It is a
set: the quotient of days was cut off at twenty digits before, so where the exact
result is half a cent the code may round either way. TLC and the proofs take
every outcome of the set.

### TransactionHistory

One wallet, and one client that asks by key, then reads page after page.

| Code | Actions |
|---|---|
| `walletModel.create`, `ledgerModel.create` with their time stamp | `CreateWallet`, `Stamp` |
| the end of the transaction | `Commit`, `Abort` |
| `getTransactionByIdempotencyKey` | `AskByKey` |
| `getTransactionHistory`: the wallet, then `findAndCountAll` | `FindWallet`, `CountRows` and `FindRows` in either order, `Answer`, `QueryFails` |
| the next request with a larger offset | `Begin`, `NextPage`, `LastPage` |

A posting stamps its rows while it holds the lock of the wallet, so `Stamp`
waits until no other posting has a row that is not visible; the opening row
takes no lock. `NewestFirst` gives the places rows may take under ORDER BY
createdAt DESC: rows of one time stamp may take theirs in any order, anew in each
query. The transfer's other wallet has its own history and the same rules.

### IdempotencyInterceptor and OnceByKey

One key of one route; requests in `Keyed` carry it. The lookup, the mark and
the result are the three cache calls of the code (`LookupCompleted`,
`LookupProcessing`, `LookupFree`; `Mark`; `Store`). The code awaits the first two
and not the third: `Respond` answers and leaves the result on its way in
`storing`. `RecordFailure` is the `catchError` branch. Time to live is `Expire`, at
any moment: the mark's 300, counted in milliseconds, may be less than the handler
takes. Three variables
are history: `marked`, `late` (went on although an answer had been given) and
`spoiled` (an entry expired, or a failure replaced another request's mark or
result).

`OnceByKey` knows no cache: requests claim the key, run, and get the answer of
their own run, of another run, a refusal or an error. The mapping takes `marked`
for the claims, `ran` for the runs and the answers for the outcomes: `Mark` is
`Claim`; `Handle` and a `HandlerThrows` after its effect are `Run`; `Respond` is
`AnswerOwn`; `LookupCompleted` is `Replay`; `LookupProcessing` is `Refuse`; errors
are `Fail`; `Crash` is `Lose`; the rest stutters. So a refused or replayed request
has never run, whatever fails. What the code does not promise, that only one
request runs, is not in `OnceByKey` either (section 6).

### Shutdown

`main.ts` listens first and then calls `installGracefulShutdown`, so `Install` is a
step and a signal may come before it (`SignalEarly`). `Handle` is a `once` handler of
the source: it is gone afterwards, and `BeginShutdown` sets flag and timer unless
the flag is set. `enableShutdownHooks` gives NestJS listeners that close the
application on their own: `closer` has both closes. `Killer` is the timer,
`Finally` the `finally` block, `NestEnds` what NestJS does after its close.

## 3. The runs

| Run | Instance | What it asks |
|---|---|---|
| `posts` | 3 requests out of 13 inputs: postings of 2 open wallets, half cents and every refusal among them, and creations of a third wallet that others pay into, debit and read; every failure | types, reads under locks stay current, no overdraft, transfers conserve money, one wallet per user, ledger chains, ledgers account for balances but for an opening nobody was told of, balances read were committed |
| `retries` | 3 requests out of 4 that retry and reuse two keys, every failure | no lock outlives its request, once-only postings, truthful answers, what the idempotency and transfer caches hold, nothing committed changes, refinement of `AtomicLedger` |
| `progress` | 3 crossing postings, no failures, `FairSpec` | every accepted request is answered |
| `history` | 3 postings and the opening row, pages of 2, clock to 2 | newest first is last committed first, nothing is skipped, what was told is listed, repeats need new rows |
| `money` | every balance and amount up to 60 mills; periods of up to 2 years between days around leap days, year ends and centuries | rounding, exact credit rows, exact debit rows but for halves, sufficiency of the funds check, leap days found, a year earns its rate |
| `rate_limit` | 4 requests, limit 2, window of 2 seconds of 2 ticks, clock to 4 | the counter errs only in the client's favour, the limit holds for each undisturbed time to live, only a burst is refused, a pause ends it |
| `once_by_key` | 3 requests with the key, 1 without, every failure | runs are repeated only if something was spoiled, refinement of `OnceByKey`, marks keep others out |
| `shutdown` | 2 requests, up to 4 signals and errors, `FairSpec` | requests are cut only by force, none works without the database, the shutdown ends |
| `lock_cycle`, `failed_log`, `stale_balance` | 2 requests | three statements of comments and tests the code does not keep (section 6) |
| `minute_limit` | as `rate_limit` | the limit per minute, a comment the code does not keep (section 6) |

Bounds and why they are enough.

* Wallet. Three requests are the least with two competitors and a third that
  retries, reads or completes a cycle of waits; the inputs of a run are chosen so
  that they meet (same wallets, opposite directions, same keys) and so that each
  refusal occurs: no funds (30 and 20 mills against amounts of 20 to 40), no such
  wallet, no room in the column (`MaxMoney` of 40), same wallet twice, negative
  initial balance. A debit, a transfer and an opening of a cent and a half are
  among them, so that rows and balances are rounded separately while others post.
* `money`. 60 mills cover each residue of a cent in both operands several times.
  The years hold 1900 and 2100, which are no leap years, 2000, which is one, 2024,
  and ordinary ones; the days are New Year, the last of February's three days and
  the last day of the year; two ticks a day let a period begin or end within one.
* `history`. Four rows on pages of two are two full pages and an empty one, with
  rows pushed from the first to the second in between; three times let rows share
  one or not.
* `rate_limit`. A limit of two and four requests let two race and two follow; a
  time to live of two in a clock of four lets the counter expire and refill, or
  live past its first time by being written again. A window of four ticks is the
  least that is not the time to live and holds two of it.
* `once_by_key`. Three requests let two race while a third comes after their
  answers; the fourth must leave no trace.
* `shutdown`. Four events are the least that use up a handler, start the other
  close, and leave a further event to the default action.

Section 4 proves the safety properties for every bound. `RequestSymmetry`,
`KeyedSymmetry` and `PostingSymmetry` are sound because no definition orders or
names requests or postings. They are used with safety properties only, never under fairness.

Deadlock of the whole system is checked in every wallet run; `Finished` is the
only allowed end. Elsewhere the system really may stop and the check is off:
at the bound of the clock (`rate_limit`, `history`), when all requests are answered
and the cache is empty (`once_by_key`), when the process has ended (`shutdown`).

Fairness.

* The wallet's `FairSpec` assumes that the server goes on with each accepted request
  (Node's event loop, the database and Redis answer: weak fairness of `Handle`) and
  that PostgreSQL's detector runs for as long as a cycle lasts (weak fairness of
  `DeadlockAbort`). Weak fairness is enough since neither is disabled again by
  others except by progress of the one that was waited for. Nothing is assumed of
  clients (`Accept` is not fair) or of failures.
* The shutdown's `FairSpec` assumes only that the timer fires. Requests and
  `close` may hang.

## 4. What is proved

TLAPS checks every step; nothing is assumed but the named ASSUMEs of the
modules: inputs are well formed and only transfers have a second wallet,
`MaxMoney` and opening balances are whole cents within the column, limits and page
sizes are positive, sets of requests are finite where they are counted, and
`None` is none of the values it is compared with. TLC evaluates them in the runs.
One theorem, `TransfersConserveMoney`, has a hypothesis besides: the set of wallets
is finite, as the rows of a table are; a total over infinitely many has no value.

### The wallet

For any sets of wallets, requests, keys and inputs, any opening balances, any
choice of failures (`WalletServiceProofs`, `WalletOutcomeProofs`,
`WalletLedgerProofs`):

| Theorem | Property |
|---|---|
| `Invariance` | `IInv`, the inductive invariant of the others |
| `TypeCorrect` | `TypeOK` |
| `LocksProtectReads` | `LockedReadsAreCurrent` |
| `NoWalletOverdrawn` | `NoOverdraft` |
| `CachedKeysAreTrue` | `CachedLogsAreCommitted` |
| `CommittedIsPermanent` | `HistoryIsPermanent` |
| `Refinement` | `ImplementsAtomicLedger` |
| `TruthfulAnswers` | `AnswersAreTruthful` |
| `NoDeniedTransferCached` | `CachedTransfersAreNotDenied` |
| `LedgersAreChains` | `LedgerChain` |
| `PostedOnce` | `PostedExactlyOnce` |
| `OneWallet` | `OneWalletPerUser` |
| `NoDirtyReads` | `BalancesReadWereCommitted` |
| `WaitsCanEnd` | `SomebodyCanGoOn` |
| `DeadlocksAreOverRows` | only requests at `lockRows` deadlock |
| `LedgersExplainBalances` | `LedgerExplainsBalance` |
| `TransfersConserveMoney` | `TransfersConserve` |

None of the properties is inductive: a commit stores what the transaction wrote
several steps earlier, from balances read before that. `IInv` is `TypeOK` and
four groups that carry this over:

* `Control`: a request is at a step of its own operation, has passed validation
  (so its amount is positive), and in the transaction has its log row.
* `Locking`: a row read FOR UPDATE is the committed one and no other transaction
  has it, even FOR KEY SHARE (`LockedReadsAreCurrent`); what a transaction has
  written is within the column and concerns rows it has read
  (`WritesLocked`); balances are within the column (`NoOverdraft`). The first
  survives a commit, since the committing transaction changes only rows it
  holds (`PublishLocking`), and `createWallet`, which only writes a wallet that
  did not exist (`InsertWalletLocking`). The second holds at `Write` because the
  funds and column checks were made on those rows (`LegsFit`, with the rounding
  lemmas).
* `Keyed`: an open transaction that has inserted its key has it to itself, and
  the key has no committed row (`KeysHeld`); hence a commit never overwrites a
  log row, so one found by `checkIdempotency` stays the row of its key until it
  is cached (`FoundCommitted`) and after (`CachedLogsAreCommitted`).
* `Postable`: what a transaction has written is the posting of its request from
  the balances it read, which allow it (`Prepared`), and a request with a
  committed log row is over (`LogsAreOver`), so that none posts twice.

The proof goes `InitInv`; `TypeStep`, `ControlStep`, `LockingStep`, `KeysStep`,
`PostableStep` (a step per action, or group of actions alike); `InductiveStep`; then
the temporal theorems.

The refinement follows at each commit: by `Locking` the balances read are those
of the moment, by `Keyed` the key is unused, by `LogsAreOver` the request has
posted nothing, and by `Prepared` the writes are the ledger's own. `OpenLedger`
needs one more invariant, `Opened`: the wallet inserted is still there. Its
first lemmas (`SameMoney`, `SameRows`, ...) say that both specifications have
the operators of `WalletData`.

The outcome theorems add an invariant each, on top of `IInv`:

* truth: a request that is rolling back will be told of no success, and what a
  step does to a request is one of a few fates (`FateStep`), of which only a
  commit or a replay answers with success;
* chains: a posting prolongs the chain, as it starts from the current balance
  (`PostingProlongs`), and a wallet that is not there has no rows
  (`WalletsComeFirst`), so `createWallet` sets a balance under no chain;
* once-only: each log has its rows (`EachRecorded`) and each row its log
  (`EachLogged`);
* one wallet: the unique index lets one creation reach `openLedger`
  for a wallet (`SoleOpeners`), so a ledger has at most one opening row
  (`SoleOpenings`);
* reads: what `getBalance` carries between its awaits was committed
  (`ReadsCommitted`), and balances once had stay on the ledger
  (`BalancesHadStay`);
* waits: a key is held only by a transaction that is past its insert, and a row only
  by one past its foreign key check (`OnlyOpenHold`), so whoever is waited for is
  at work; and finitely many requests are at work, for a
  step sets one to work at most (`FewRunning`). If all of them wait, follow from
  each to one it waits for: some go round (`CycleExists`, by taking away one after
  the other whom nobody follows), and that is what `Deadlocked` says. This is the
  safety under `EveryRequestAnswered`. On a cycle everybody is waited for too
  (`CyclesAreOverRows`), hence holds a key, hence waits for a row, hence all hold
  rows: only `lockRows` is left;
* ledgers: balances are whole cents (`WholeBalances`), a commit changes a balance
  by what the row says it moves (`CommitMoves`, from `RoundedBalances`: sum and
  difference of a whole number of cents and any amount), and a request at
  `openLedger` lacks exactly its own opening (`OpeningsPending`). The opening row
  restores the sum; if the request ends instead, the wallet is one of those
  `LedgerExplainsBalance` excepts, and stays one (`WithoutRowStays`), since no
  other request opens it again;
* totals: the commit of a transfer moves two balances, by amounts that differ by
  what the source keeps (`TransferMoves`, `SumMovesTwo`).

The sums are `SumFunction` and `SumFunctionOnSet` of the community modules, defined
by recursion over sets. Their recursion has a solution on a finite set
(`SumsExist`), which is shown by induction over the number of summands; the
induction itself is first-order, on a set of numbers (`Induction`) or of subsets
(`InductionOnSubsets`), and rests on the well-foundedness of the natural
numbers. From it follow the facts one uses: a sum does not depend on the order of
its summands (`SumWithout`), only on their values (`SumOfEqual`), and grows by a
summand that is added (`SumExtended`, `LedgerSumAppend`).

### Rate limit

For every limit, window, unit of time and finite set of requests: `TypeCorrect`,
`NobodyOvercharged` (`NeverOvercharged`), `RefusalsEndABurst` (`RefusalsEndBursts`),
`LimitHoldsPerTimeToLive` (`LimitPerTimeToLive`), `QuietClientsGetIn`
(`QuietClientsAreAdmitted`). The invariant is what requests carry and the counter
counts (`Counting`, `Clock`), that the entry expires one time to live after the last
charge (`Recent`), that a count is the length of a burst that ends with that charge,
and so is what a request that has read carries, even if it has become stale since
(`Bursts`), and that, since the last disturbance, at most one request is about to
write and the counter counts every period that ends with the last charge
(`Sequential`). `Bursts` needs no such condition: overlaps and losses only make the
counter smaller.

### Interceptor

For every set of requests and every choice of failures: `TypeCorrect`,
`RunsAgainIfSpoiled` (`RunsAgainOnlyIfSpoiled`), `MarksKeepOut`
(`MarksKeepOthersOut`) and `Refinement` (`ImplementsOnceByKey`).
The invariant is what a request has done at each step (`Paced`), that a result is
of a request that ran (`Stored`), and that the cache stops whoever comes while a
mark or a result must be there and nothing was spoiled (`Guarded`).

### History

For any number of postings, any page size: `TypeCorrect`,
`NewestFirstIsLastCommitted` (`TimesFollowCommits`), `NoRowIsSkipped`
(`NothingSkipped`), `ToldMeansListed` (`ToldRowsAreListed`), `RepeatsAreExplained`
(`RepeatsNeedNewRows`). The place of a row that shares its time with none is the
number of newer rows, in whatever order the others are listed (`PlaceOfRow`). That
number only grows, so rows are only pushed to later pages (`NoGaps`), and while
no row is added pages stay where they were (`NoRepeats`). `Session` says what the
client knows at each step, `InOrder` what the wallet lock gives.

### Money

For amounts, balances, principals and rates of any size and any two moments:
`RoundsToNearest`, `CreditsAreExact`, `DebitsAreExactButForHalves`,
`FundsCheckIsEnough`, `LeapDaysFound` and `AYearEarns`, the six properties of the
`money` run.

### Shutdown

For any number of requests, signals and errors: `TypeCorrect`,
`OrderlyEndsCutNobody` (`CutOnlyByForce`), `RequestsKeepTheirDatabase`
(`DatabaseOutlivesRequests`), and `ShutdownsAreTimed`, the safety under
`ShutdownEnds`: while the process runs, a shutdown that has begun has its timer.
The two closes do not know of each other, so the invariant speaks of both: a close
past its first step has stopped the server for both (`Stopped`), and once one has
seen the requests off none comes any more, whatever stage the other is at
(`SeenOff`). So an end that is not forced, by either, finds none in flight
(`EndStep`).

### Only model-checked

Liveness: `EveryRequestAnswered` and `ShutdownEnds`, for the prover does not reason about fairness and ENABLED. `WaitsCanEnd` and `ShutdownsAreTimed` are
what they rest on and do not need it.

## 5. Not modelled

* `getWalletById`, `getWalletByUserId`: one read of a committed row. `divide`,
  `isValid`, `equals`, `greaterThanOrEqual` and the generic `get`, `set`, `del`,
  `reset` of the Redis service: no code of the service calls them.
* Limits and offsets a sensible client does not send (negative, not a number).
* Clocks that step back, and several server processes that stamp rows by clocks
  of their own: `TimesFollowCommits` assumes one that does not.
* Days of 23 or 25 hours, and principals beyond twenty digits, in `Interest`.
* Handlers whose client has disconnected: NestJS waits for connections, so such a
  handler may still work when the application is closed. `Shutdown` has one
  request to a connection that stays. Requests that arrive on kept-alive
  connections after `close` began, and a
  process that ends because its event loop is empty while the timer, which is
  unreferenced, is all it waits for.
* Names of columns. The models use attributes such as `userId` without a mapping
  (no `underscored`, no `field`), the migrations create columns such as `user_id`,
  and `synchronize` is false (app.module.ts:27), so the two need a mapping the
  repository does not contain. The modules take the models' attributes, with the
  constraints of the migrations.
* The rate limit in front of the wallet as one system: a refused request reaches
  no service method, so the composition has the behaviours of the wallet alone.
* HTTP, DTO decorators, formatting of responses, logging, health, configuration,
  Swagger: no state that matters to the rest.

## 6. What the code does otherwise than it says

Four have a run whose counterexample shows it.

* `lock_cycle`: a comment (wallet.service.ts:405) says locking in consistent
  order prevents deadlocks. The log row's foreign key has locked one wallet FOR
  KEY SHARE before the ordered lock; two postings on one wallet can wait for
  each other and one is aborted with a 500.
  `DeadlocksAreOverRows`: on every cycle, all wait at that lock.
* `failed_log`: a test (wallet-idempotency.service.spec.ts:438) and the README
  expect a FAILED log row after a transfer without funds. It is written in the
  transaction that is rolled back. For the same reason the PENDING row that
  wallet.service.ts:410 wants kept "if connection drops" does not outlive the
  connection.
* `stale_balance`: the balance cache is invalidated before the commit, and a
  concurrent read may fill it with the old balance afterwards; it stays until
  its time to live ends.
* `minute_limit`: comments in rate-limit.guard.ts (15, 29, 33) promise 100 requests
  per minute. The 60 is passed to a cache that counts milliseconds, so the counter
  is gone 60 ms after the last request it counted, and a client that pauses for as
  long is admitted again, any number of times a minute.

The others have no run of their own; the properties are stated around them.

* ledger.model.ts:28 promises precise amount tracking. A debit that ends in half
  a cent leaves a ledger row a cent larger than what it takes, down to a row of
  one cent for nothing taken, since amount and balance are each rounded half up
  (wallet.service.ts:362 and :370). A transfer of half a cent credits a cent that
  its source keeps. The DTOs accept any numeric string.
  `DebitRowsAreExactButForHalves`, `LedgerExplainsBalance` and `TransfersConserve`
  say that it is this cent and no more.
* A test (wallet-idempotency.service.spec.ts:508) says two concurrent taps with
  one key both complete. The second insert fails on the unique key, so one tap
  gets an error; money moves once (`PostedExactlyOnce`).
* Requests that read the rate counter together are all admitted, and losing the
  counter admits a client anew. `LimitPerTimeToLive` excepts both, and says that
  they do not spoil the periods that begin later. The period is the counter's time
  to live, not the minute.
* The rate limit also refuses where no window is full: every write restarts the
  time to live, so a client that keeps asking is refused after 100 requests however
  long they took. If the cache counted seconds, a request every 59 seconds would be
  refused after 100 of them. `RefusalsEndBursts` says exactly which clients are
  refused.
* A CREDIT or DEBIT that reuses the key of another operation is answered with that
  operation's ledger row (wallet.service.ts:213-214), as if it had been done; of a
  transfer's two rows it is whichever comes first. Only a transfer fails when the
  stored posting is not one. This contradicts no stated line ("Returns the existing
  transaction if found"); `AnswersAreTruthful` promises the posting of the key, and
  its kind only to transfers.
* The README (line 98) promises a per-day computation in leap years. The code
  divides all days of a period by 366 if a leap day lies anywhere in it, and by
  365 otherwise, so a longer period may earn less: 1094 days without a leap day
  earn more than 1095 that end on one.
* Requests with one key that race through the interceptor all run the handler,
  and so does one that comes after a failure has replaced another's mark.
  `RunsAgainOnlyIfSpoiled` says that an answered key runs again for no other
  reason than that or an expiry.
* Rows of one wallet with equal time stamps may change places between two pages
  and be missed: `createdAt` is the only sort key. `NothingSkipped` excepts them.
* A crash between the two inserts of `createWallet` leaves a wallet with a balance
  and no opening ledger row. This contradicts no stated line. `LedgerChain` is
  stated over postings for that reason, and `LedgerExplainsBalance` says that the
  opening is all that can be missing.

## 7. Plan

Done: every component above is checked, and all safety properties are proved.

Next:

1. The interceptor over the wallet, once a route applies it: its key and the
   service's own would then answer the same retries.
2. Interest posted to wallets, once a service calls it.
