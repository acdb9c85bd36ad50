------------------------- MODULE MCTransactionHistory -------------------------
(***************************************************************************)
(* A small instance of the history endpoint for TLC.                       *)
(***************************************************************************)
EXTENDS TransactionHistory, TLC

PostingSymmetry == Permutations(Postings)
=============================================================================
