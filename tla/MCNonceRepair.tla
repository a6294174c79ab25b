---------------------------- MODULE MCNonceRepair ----------------------------
(* NonceRepair on a small instance. *)
EXTENDS NonceRepair

CONSTANTS e1, e2, canceller, stuck

(* What executor_answered leaves out, a receipt that is slow, and the       *)
(* interrupts that lose a nonce.                                            *)
RepairFaults ==
  {"reply_lost", "replacement", "slow_receipt", "early_interrupt", "late_interrupt"}
=============================================================================
