----------------------------- MODULE AtomicLedger -----------------------------
(***************************************************************************)
(* What the wallet service promises, without locks, caches, transactions   *)
(* or answers: wallets are opened, and each posting happens in one step on *)
(* the balances of that moment, under a key nobody used, for a request     *)
(* that was not posted before.                                             *)
(***************************************************************************)
EXTENDS WalletData

CONSTANT Opening

VARIABLES balance, ledgers, logs

vars == <<balance, ledgers, logs>>

OpeningRows(w) ==
  IF Opening[w] = None \/ Opening[w] = 0 THEN <<>>
                                        ELSE <<OpeningEntry(Opening[w])>>

Init ==
  /\ balance = [w \in WalletIds |-> Opening[w]]
  /\ ledgers = [w \in WalletIds |-> OpeningRows(w)]
  /\ logs = [k \in KeySpace |-> None]

OpenWallet(w, amount) ==
  /\ balance[w] = None
  /\ Format(amount) \in 0 .. MaxMoney
  /\ balance' = [balance EXCEPT ![w] = Format(amount)]
  /\ UNCHANGED <<ledgers, logs>>

RecordOpening(w, amount) ==
  /\ balance[w] # None
  /\ ledgers' = [ledgers EXCEPT ![w] = Append(@, OpeningEntry(amount))]
  /\ UNCHANGED <<balance, logs>>

Posted(id) == \E k \in KeySpace : logs[k] # None /\ logs[k].id = id

Post(i, id) ==
  /\ i.op \in {"CREDIT", "DEBIT", "TRANSFER"}
  /\ GreaterThan(i.amount, 0)
  /\ logs[KeyOf(i, id)] = None
  /\ ~Posted(id)
  /\ \A w \in Touched(i) : balance[w] # None
  /\ ~InsufficientFunds(i, balance)
  /\ ~Overflows(i, balance)
  /\ balance' = PostedBalance(balance, Legs(i, id, balance))
  /\ ledgers' = PostedLedgers(ledgers, Legs(i, id, balance))
  /\ logs' = [logs EXCEPT ![KeyOf(i, id)] =
                            WithStatus(NewLog(i, id), "COMPLETED")]

Next ==
  \/ \E i \in Inputs, id \in Requests : Post(i, id)
  \/ \E i \in Inputs : OpenWallet(i.wallet, i.amount)
                       \/ RecordOpening(i.wallet, i.amount)

Spec == Init /\ [][Next]_vars
=============================================================================
