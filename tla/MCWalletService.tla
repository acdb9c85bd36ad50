--------------------------- MODULE MCWalletService ---------------------------
(***************************************************************************)
(* Small instances of the wallet service for TLC.  Amounts are in mills:   *)
(* 20 is two cents, 5 is half a cent.                                      *)
(***************************************************************************)
EXTENDS WalletProperties, TLC

CONSTANTS a, b, c, k1, k2

Credit(w, amount, key) ==
  [op |-> "CREDIT", wallet |-> w, to |-> w, amount |-> amount, key |-> key]
Debit(w, amount, key) ==
  [op |-> "DEBIT", wallet |-> w, to |-> w, amount |-> amount, key |-> key]
Transfer(from, to, amount, key) ==
  [op |-> "TRANSFER", wallet |-> from, to |-> to, amount |-> amount, key |-> key]
Create(w, amount) ==
  [op |-> "CREATE", wallet |-> w, to |-> w, amount |-> amount, key |-> None]
Balance(w) ==
  [op |-> "BALANCE", wallet |-> w, to |-> w, amount |-> 0, key |-> None]

\* Two open wallets, a third that nobody has opened.
TwoOpen == [w \in WalletIds |-> IF w = a THEN 30 ELSE IF w = b THEN 20 ELSE None]

\* Postings that compete for the same money, some of half a cent, with one of
\* each kind that must be refused (no such wallet, no balance left, no room in
\* the column, a wallet to itself), and a wallet opened twice while it is
\* credited, paid into, spent to half a cent and read.
PostInputs ==
  {Credit(a, 20, None), Debit(a, 20, None), Transfer(a, b, 15, k1),
   Transfer(a, a, 10, k1), Credit(b, 50, None),
   Create(c, 15), Create(c, 0), Create(c, -10), Create(b, 50),
   Credit(c, 10, None), Transfer(b, c, 10, k2), Debit(c, 15, None), Balance(c)}

\* Retries: the same transfer, and other postings that reuse its key.
RetryInputs ==
  {Transfer(a, b, 20, k1), Credit(a, 10, k1), Debit(b, 10, k2),
   Transfer(b, a, 30, k2)}

\* Reads of the balance between transfers that change it.
ReadInputs == {Balance(a), Transfer(a, b, 20, k1), Debit(a, 40, None),
               Credit(a, 10, k2)}

\* Two transfers in opposite directions and a debit.
CrossingInputs == {Transfer(a, b, 20, k1), Transfer(b, a, 10, k2),
                   Debit(a, 40, None)}

RequestSymmetry == Permutations(Requests)
=============================================================================
