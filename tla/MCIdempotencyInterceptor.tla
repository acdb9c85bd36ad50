----------------------- MODULE MCIdempotencyInterceptor -----------------------
(***************************************************************************)
(* A small instance of the interceptor for TLC: requests that carry the    *)
(* key and one that does not.                                              *)
(***************************************************************************)
EXTENDS IdempotencyInterceptor, TLC

CONSTANTS r1, r2, r3, plain

KeyedSymmetry == Permutations(Keyed)
=============================================================================
