---------------------------- MODULE MCConnection ----------------------------
(* Connection on small instances. *)
EXTENDS Connection, TLC

CONSTANTS t1, t2, main, test, dMain, dTest, mine, dead

Defaults == (main :> dMain) @@ (test :> dTest)
Symmetric == Permutations(Threads)
=============================================================================
