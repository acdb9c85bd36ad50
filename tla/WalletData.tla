----------------------------- MODULE WalletData -----------------------------
(***************************************************************************)
(* The rows of the three tables (wallets, ledgers, transaction_logs), what *)
(* a client may ask for, and the pure part of the wallet operations: the   *)
(* rows an operation writes, as a function of the wallet rows it read.     *)
(***************************************************************************)
EXTENDS MoneyMath, Sequences

CONSTANTS
  WalletIds,  \* wallets; one per user, so an id also stands for its user
  Requests,   \* HTTP requests; a log row is identified by its request
  Keys,       \* idempotency keys clients send
  Inputs,     \* the requests clients may make
  MaxMoney,   \* the largest value of a DECIMAL(20,2) column, in mills
  None        \* no row, no value

Operations == {"CREDIT", "DEBIT", "TRANSFER", "CREATE", "BALANCE"}

\* to is the destination of a TRANSFER; other operations repeat wallet there.
Input == [op: Operations, wallet: WalletIds, to: WalletIds,
          amount: Int, key: Keys \cup {None}]

ASSUME InputsAssumption ==
  /\ Inputs \subseteq Input
  /\ \A i \in Inputs : i.op # "TRANSFER" => i.to = i.wallet

ASSUME MaxMoneyAssumption == MaxMoney \in Nat /\ WholeCents(MaxMoney)

ASSUME NamesAssumption ==
  /\ Requests \cap Keys = {}
  /\ None \notin Requests \cup Keys \cup WalletIds \cup Int

\* Values of the transaction_logs unique column: a request without a key gets
\* a fresh uuid, which the request itself stands for.
KeySpace == Keys \cup Requests

Statuses == {"PENDING", "COMPLETED", "FAILED"}

LogRow == [id: Requests, op: Operations, wallet: WalletIds,
           amount: Int, status: Statuses]

Entry == [type: {"CREDIT", "DEBIT"}, amount: Int, before: Int, after: Int,
          log: Requests \cup {None}]

ASSUME RowsAssumption == None \notin LogRow /\ None \notin Entry

KeyOf(i, id) == IF i.key = None THEN id ELSE i.key

\* transactionLogModel.create: the PENDING row a request inserts first.
NewLog(i, id) ==
  [id |-> id, op |-> i.op, wallet |-> i.wallet,
   amount |-> Format(i.amount), status |-> "PENDING"]

\* transactionLog.update({status}).
WithStatus(row, status) == [row EXCEPT !.status = status]

\* The wallets a posting takes money from, gives it to, and reads.
Takes(i, w)  == i.op \in {"DEBIT", "TRANSFER"} /\ w = i.wallet

\* A faulty variant: a transfer that forgets its destination.
GivesCreditsOnly(i, w) == i.op = "CREDIT" /\ w = i.wallet

Gives(i, w)  == \/ i.op = "CREDIT" /\ w = i.wallet
                \/ i.op = "TRANSFER" /\ w = i.to
Touched(i)   == {i.wallet, i.to}

\* A faulty variant: the row typed by the operation, which the enum lacks.
DebitLegTypedByOperation(i, id, before) ==
  [type |-> i.op, amount |-> Format(i.amount), before |-> before,
   after |-> Subtract(before, i.amount), log |-> id]

DebitLeg(i, id, before) ==
  [type |-> "DEBIT", amount |-> Format(i.amount), before |-> before,
   after |-> Subtract(before, i.amount), log |-> id]

CreditLeg(i, id, before) ==
  [type |-> "CREDIT", amount |-> Format(i.amount), before |-> before,
   after |-> Add(before, i.amount), log |-> id]

\* The ledger row written for each wallet, given the balances read; the new
\* balance of the wallet is the after of its row.
Legs(i, id, rows) ==
  [w \in WalletIds |->
     IF Takes(i, w) THEN DebitLeg(i, id, rows[w])
     ELSE IF Gives(i, w) THEN CreditLeg(i, id, rows[w])
     ELSE None]

\* A faulty variant: transfers are not checked for funds.
InsufficientFundsOfDebits(i, rows) ==
  i.op = "DEBIT" /\ LessThan(rows[i.wallet], i.amount)

InsufficientFunds(i, rows) ==
  i.op \in {"DEBIT", "TRANSFER"} /\ LessThan(rows[i.wallet], i.amount)

\* numeric field overflow: the credited balance does not fit its column.
Overflows(i, rows) ==
  \E w \in Touched(i) : Gives(i, w) /\ Add(rows[w], i.amount) > MaxMoney

\* The row createWallet adds for a positive initial balance.
OpeningEntry(amount) ==
  [type |-> "CREDIT", amount |-> Format(amount), before |-> 0,
   after |-> Format(amount), log |-> None]

\* What a commit of legs does to the wallets and to their ledgers.
PostedBalance(bal, legs) ==
  [w \in WalletIds |-> IF legs[w] = None THEN bal[w] ELSE legs[w].after]

PostedLedgers(rows, legs) ==
  [w \in WalletIds |-> IF legs[w] = None THEN rows[w]
                                         ELSE Append(rows[w], legs[w])]
=============================================================================
