----------------------------- MODULE MCService ------------------------------
(* Service on small instances. *)
EXTENDS Service, TLC

CONSTANTS quick, slow, twin, r1, r2, r3

(* twin is another function with slow's name.                              *)
SomeNames == (quick :> "quick") @@ (slow :> "slow") @@ (twin :> "slow")
Symmetric == Permutations(Requests)
=============================================================================
