---------------------------- MODULE PublishOnce -----------------------------
(***************************************************************************)
(* What a caller of TxExecutor.execute is promised: the call publishes at  *)
(* most one transaction, and how it ends tells whether it did.             *)
(***************************************************************************)
CONSTANTS Callers, Nonces

VARIABLES
  tx,       \* tx[c]: the nonces at which c's transaction is on the node
  result    \* result[c]: how the call ended, "none" while it runs

(* Results after which the transaction is out, after which it is not, and  *)
(* which leave it open (the caller reconciles).                            *)
Sent == {"Receipt", "TxRevertError", "TxReceiptTimeoutError"}
NotSent == {"PublishTimeoutError", "Reverted", "NonceError", "GasError", "raw_exception"}
Unknown == {"TxRpcError", "KeyboardInterrupt"}

Init ==
  /\ tx = [c \in Callers |-> {}]
  /\ result = [c \in Callers |-> "none"]

Publish(c) ==
  /\ result[c] = "none"
  /\ tx[c] = {}
  /\ \E n \in Nonces :
       /\ \A d \in Callers : n \notin tx[d]
       /\ tx' = [tx EXCEPT ![c] = {n}]
  /\ UNCHANGED result

Return(c) ==
  /\ result[c] = "none"
  /\ \E r \in (IF tx[c] = {} THEN NotSent ELSE Sent) \cup Unknown :
       result' = [result EXCEPT ![c] = r]
  /\ UNCHANGED tx

Next == \E c \in Callers : Publish(c) \/ Return(c)

Spec == Init /\ [][Next]_<<tx, result>>
=============================================================================
