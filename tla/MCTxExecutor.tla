--------------------------- MODULE MCTxExecutor ---------------------------
(* TxExecutor on small instances. *)
EXTENDS TxExecutor

CONSTANTS e1, e2, e3

(* Everything that can go wrong, except what takes the node's answer away   *)
(* from the code and the replacement of one of our transactions by another. *)
AnsweredFaults == AllFaults \ {"reply_lost", "replacement"}

(* What can still go wrong once the transaction is out.                     *)
FaultsAfterBroadcast == {"slow_receipt", "receipt_error", "status_zero"}

LostReply == {"reply_lost"}
=============================================================================
