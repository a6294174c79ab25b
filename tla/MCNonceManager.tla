--------------------------- MODULE MCNonceManager ---------------------------
(* NonceManager on small instances. *)
EXTENDS NonceManager, TLC

CONSTANTS t1, t2, t3, a1

Symmetric == Permutations(Threads)
=============================================================================
