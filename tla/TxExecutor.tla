----------------------------- MODULE TxExecutor -----------------------------
(***************************************************************************)
(* TxExecutor.execute, run by concurrent threads that share one signer,    *)
(* the signer's NonceManager entry and the node.  Each executor is one     *)
(* call of execute.  A call between two places where another thread, the   *)
(* node or the clock can matter is one action:                             *)
(*                                                                         *)
(*   head -> reserve -> reading -> build -> send -> receipt -> done        *)
(*                                   |       |         |                   *)
(*                                   +-> release -> handle -> head | done  *)
(***************************************************************************)
EXTENDS Integers, NonceCache, Node

CONSTANTS
  Executors,     \* the concurrent calls of execute
  MaxRetriesArg, \* the max_retries argument
  Deadlined,     \* the executors given a deadline (publish_task total_timeout)
  Faults,        \* what may go wrong in this instance, out of AllFaults
  NoExecutor

AllFaults ==
  { "read_error",         \* the pending-count RPC of reserve_nonce raises
    "revert",             \* gas estimation reports a contract revert
    "build_transient",    \* building raises a transient RPC error
    "build_other",        \* building raises any other exception
    "send_transient",     \* the connection drops before the node has the bytes
    "send_other",
    "reply_lost",         \* it drops after the node took the transaction in
    "replacement",        \* an outbid transaction is replaced, not refused
    "stale_count",        \* lagging replicas
    "foreign",            \* another wallet uses the account
    "slow_receipt",       \* TimeExhausted while waiting for the receipt
    "receipt_error",      \* a transport error while waiting for the receipt
    "status_zero",        \* mined but reverted
    "interrupt",          \* KeyboardInterrupt anywhere but in these two places:
    "early_interrupt",    \* after reserving, before the try
    "late_interrupt" }    \* while release_nonce waits for the address lock

ASSUME ExecutorAssumption ==
  /\ Executors \subseteq Senders
  /\ Deadlined \subseteq Executors
  /\ Faults \subseteq AllFaults
  /\ MaxRetriesArg \in Int
  /\ NoExecutor \notin Executors

VARIABLES
  cache,         \* NonceManager._nonces entry of the signer
  lock,          \* holder of the signer's NonceManager lock
  pc,
  attempt,       \* loop variable of execute
  seen,          \* pending_nonce read inside reserve_nonce
  nonce,         \* the reserved nonce
  broadcast,     \* the broadcast flag of this attempt
  err,           \* the exception being handled
  expired,       \* time.monotonic() >= deadline
  outcome,       \* how execute ended
  abandoned      \* history: reservations an interrupt took away, while the entry is above them

execVars == <<cache, lock, pc, attempt, seen, nonce, broadcast, err, expired, outcome>>
vars == <<execVars, abandoned, nodeVars>>

MaxRetries == IF MaxRetriesArg < 1 THEN 1 ELSE MaxRetriesArg

Labels == {"head", "reserve", "reading", "build", "send", "receipt",
           "release", "handle", "done"}
Errors == {"none", "revert", "publish_timeout", "nonce", "underpriced",
           "transient", "other", "interrupt"}
Outcomes == {"none", "Receipt", "TxRevertError", "TxReceiptTimeoutError",
             "PublishTimeoutError", "Reverted", "NonceError", "GasError",
             "TxRpcError", "raw_exception", "KeyboardInterrupt"}

TypeOK ==
  /\ NodeTypeOK
  /\ cache \in Entry
  /\ lock \in Executors \cup {NoExecutor}
  /\ pc \in [Executors -> Labels]
  /\ attempt \in [Executors -> 0 .. MaxRetries - 1]
  /\ seen \in [Executors -> Nat]
  /\ nonce \in [Executors -> Nat]
  /\ broadcast \in [Executors -> BOOLEAN]
  /\ err \in [Executors -> Errors]
  /\ expired \in [Executors -> BOOLEAN]
  /\ outcome \in [Executors -> Outcomes]
  /\ abandoned \subseteq Nat

Init ==
  /\ NodeInit
  /\ cache = NoNonce
  /\ lock = NoExecutor
  /\ pc = [e \in Executors |-> "head"]
  /\ attempt = [e \in Executors |-> 0]
  /\ seen = [e \in Executors |-> 0]
  /\ nonce = [e \in Executors |-> 0]
  /\ broadcast = [e \in Executors |-> FALSE]
  /\ err = [e \in Executors |-> "none"]
  /\ expired = [e \in Executors |-> FALSE]
  /\ outcome = [e \in Executors |-> "none"]
  /\ abandoned = {}
-----------------------------------------------------------------------------
Goto(e, l) == pc' = [pc EXCEPT ![e] = l]

Finish(e, r) ==
  /\ Goto(e, "done")
  /\ outcome' = [outcome EXCEPT ![e] = r]

(* The end of a with block: a thread can only free a lock it has taken.    *)
Unlock(e) == lock' = IF lock = e THEN NoExecutor ELSE lock

(* An exception leaves the inner try: release_nonce is called before the   *)
(* exception is looked at.                                                 *)
FailBeforeBroadcast(e, k) ==
  /\ err' = [err EXCEPT ![e] = k]
  /\ Goto(e, "release")
  /\ UNCHANGED <<cache, lock, attempt, seen, nonce, broadcast, expired, outcome>>

(* The deadline check at the head of every attempt.                        *)
CheckBudget(e) ==
  /\ pc[e] = "head"
  /\ \/ /\ expired[e]
        /\ Finish(e, "PublishTimeoutError")
     \/ /\ ~expired[e]
        /\ Goto(e, "reserve")
        /\ UNCHANGED outcome
  /\ UNCHANGED <<cache, lock, attempt, seen, nonce, broadcast, err, expired, nodeVars>>

(* reserve_nonce, first half: take the address lock and read the chain.    *)
ReadPendingCount(e) ==
  /\ pc[e] = "reserve"
  /\ lock = NoExecutor
  /\ lock' = e
  /\ \E p \in 0 .. MaxNonce :
       /\ IF "stale_count" \in Faults THEN IsStaleCount(p) ELSE IsPendingCount(p)
       /\ seen' = [seen EXCEPT ![e] = p]
  /\ Goto(e, "reading")
  /\ UNCHANGED <<cache, attempt, nonce, broadcast, err, expired, outcome, nodeVars>>

(* The read raises inside the lock; the call is outside execute's try, so  *)
(* the exception leaves execute as it is.                                  *)
ReadFails(e) ==
  /\ "read_error" \in Faults
  /\ pc[e] = "reserve"
  /\ lock = NoExecutor
  /\ Finish(e, "raw_exception")
  /\ UNCHANGED <<cache, lock, attempt, seen, nonce, broadcast, err, expired, nodeVars>>

(* reserve_nonce, second half, and the reset of the broadcast flag.        *)
Reserve(e) ==
  /\ pc[e] = "reading"
  /\ ReservedNonce(cache, seen[e]) \in Slots
  /\ nonce' = [nonce EXCEPT ![e] = ReservedNonce(cache, seen[e])]
  /\ cache' = AfterReserve(cache, seen[e])
  /\ Unlock(e)
  /\ broadcast' = [broadcast EXCEPT ![e] = FALSE]
  /\ seen' = [seen EXCEPT ![e] = 0]
  /\ Goto(e, "build")
  /\ UNCHANGED <<attempt, err, expired, outcome, nodeVars>>

Build(e) ==
  /\ pc[e] = "build"
  /\ Goto(e, "send")
  /\ UNCHANGED <<cache, lock, attempt, seen, nonce, broadcast, err, expired, outcome, nodeVars>>

BuildFails(e) ==
  /\ pc[e] = "build"
  /\ \/ "revert" \in Faults /\ FailBeforeBroadcast(e, "revert")
     \/ "build_transient" \in Faults /\ FailBeforeBroadcast(e, "transient")
     \/ "build_other" \in Faults /\ FailBeforeBroadcast(e, "other")
  /\ UNCHANGED nodeVars

(* The second deadline check, after signing.                               *)
SendTooLate(e) ==
  /\ pc[e] = "send"
  /\ expired[e]
  /\ FailBeforeBroadcast(e, "publish_timeout")
  /\ UNCHANGED nodeVars

(* send_raw_transaction returns a hash.                                    *)
Send(e) ==
  /\ pc[e] = "send"
  /\ ~expired[e]
  /\ \E v \in Verdicts(e, nonce[e]) :
       /\ TakesIn(v)
       /\ v = "replaced" => "replacement" \in Faults
  /\ Include(e, nonce[e])
  /\ broadcast' = [broadcast EXCEPT ![e] = TRUE]
  /\ Goto(e, "receipt")
  /\ UNCHANGED <<cache, lock, attempt, seen, nonce, err, expired, outcome>>

(* The node refuses the transaction.                                       *)
SendRefused(e) ==
  /\ pc[e] = "send"
  /\ ~expired[e]
  /\ \E v \in Verdicts(e, nonce[e]) :
       /\ ~TakesIn(v)
       /\ FailBeforeBroadcast(e, IF v = "underpriced" THEN "underpriced" ELSE "nonce")
  /\ UNCHANGED nodeVars

(* The transaction never reaches the node.                                 *)
SendFails(e) ==
  /\ pc[e] = "send"
  /\ ~expired[e]
  /\ \/ "send_transient" \in Faults /\ FailBeforeBroadcast(e, "transient")
     \/ "send_other" \in Faults /\ FailBeforeBroadcast(e, "other")
  /\ UNCHANGED nodeVars

(* The node takes the transaction in but the answer is lost: the code sees *)
(* "read timed out", "connection reset", with broadcast still False.   *)
ReplyLost(e) ==
  /\ "reply_lost" \in Faults
  /\ pc[e] = "send"
  /\ ~expired[e]
  /\ "accepted" \in Verdicts(e, nonce[e])
  /\ Include(e, nonce[e])
  /\ \E k \in {"transient", "other"} \cup ({"interrupt"} \cap Faults) :
       FailBeforeBroadcast(e, k)

(* send_raw_transaction raises a transport error, whichever side of the    *)
(* node's acceptance the connection broke on: the code cannot tell.        *)
SendBreaksOff(e) ==
  /\ pc[e] = "send" /\ ~expired[e]
  /\ SendFails(e) \/ ReplyLost(e)

(* The inner handler: release_nonce, under the address lock.               *)
ReleaseNonce(e) ==
  /\ pc[e] = "release"
  /\ lock = NoExecutor
  /\ cache' = AfterRelease(cache, nonce[e])
  /\ Goto(e, "handle")
  /\ UNCHANGED <<lock, attempt, seen, nonce, broadcast, err, expired, outcome, nodeVars>>
-----------------------------------------------------------------------------
(* Deliberate faults: one attempt too many, a retry that is not counted,   *)
(* a transport error retried after the broadcast, a receipt timeout that   *)
(* is reported as a spent budget.                                          *)
OneRetryTooMany(e) == attempt[e] < MaxRetries
UncountedRetry(e) ==
  /\ Goto(e, "head")
  /\ err' = [err EXCEPT ![e] = "none"]
  /\ UNCHANGED <<attempt, outcome>>
RetriableAfterBroadcast(e) == err[e] = "transient"
ReceiptTimeoutAsBudget(e) ==
  /\ pc[e] = "receipt" /\ expired[e]
  /\ Finish(e, "PublishTimeoutError")
  /\ UNCHANGED <<cache, lock, attempt, seen, nonce, broadcast, err, expired, nodeVars>>

HasRetries(e) == attempt[e] < MaxRetries - 1

Retry(e) ==
  /\ HasRetries(e)
  /\ attempt' = [attempt EXCEPT ![e] = @ + 1]
  /\ err' = [err EXCEPT ![e] = "none"]
  /\ Goto(e, "head")
  /\ UNCHANGED outcome

GiveUp(e, r) == Finish(e, r) /\ UNCHANGED <<attempt, err>>

(* except ContractLogicError, except OGPUError, and the exceptions that    *)
(* are not Exceptions.                                                     *)
HandleTyped(e) ==
  /\ pc[e] = "handle"
  /\ \/ err[e] = "revert" /\ GiveUp(e, "Reverted")
     \/ err[e] = "publish_timeout" /\ GiveUp(e, "PublishTimeoutError")
     \/ err[e] = "interrupt" /\ GiveUp(e, "KeyboardInterrupt")
  /\ UNCHANGED <<cache, lock, seen, nonce, broadcast, expired, nodeVars>>

(* Nonce collision or underpriced replacement: reset_nonce, then retry     *)
(* while attempts are left (after a backoff for underpriced).              *)
HandleCollision(e) ==
  /\ pc[e] = "handle"
  /\ err[e] \in {"nonce", "underpriced"}
  /\ lock = NoExecutor
  /\ cache' = AfterReset(cache)
  /\ \/ Retry(e)
     \/ ~HasRetries(e) /\ GiveUp(e, IF err[e] = "nonce" THEN "NonceError" ELSE "GasError")
  /\ UNCHANGED <<lock, seen, nonce, broadcast, expired, nodeVars>>

(* A transient transport error is retried only before the broadcast; all   *)
(* else becomes TxRpcError.                                                *)
Retriable(e) == err[e] = "transient" /\ ~broadcast[e]

HandleTransport(e) ==
  /\ pc[e] = "handle"
  /\ err[e] \in {"transient", "other"}
  /\ \/ Retriable(e) /\ Retry(e)
     \/ ~(Retriable(e) /\ HasRetries(e)) /\ GiveUp(e, "TxRpcError")
  /\ UNCHANGED <<cache, lock, seen, nonce, broadcast, expired, nodeVars>>

(* e has reserved n and has neither handed it back nor used it.            *)
Holds(e, n) == pc[e] \in {"build", "send", "release"} /\ nonce[e] = n

(* n blocks every later transaction of the signer: no transaction has it,  *)
(* and nobody will send or hand it back.                                   *)
Lost(n) == ~Occupied(n) /\ ~\E e \in Executors : Holds(e, n)

(* The receipt arrives.                                                    *)
GetReceipt(e) ==
  /\ pc[e] = "receipt"
  /\ Mined(e, nonce[e])
  /\ \/ Finish(e, "Receipt")
     \/ "status_zero" \in Faults /\ Finish(e, "TxRevertError")
  /\ UNCHANGED <<cache, lock, attempt, seen, nonce, broadcast, err, expired, nodeVars>>

(* No receipt within the timeout: the node is slow, or the transaction     *)
(* cannot be mined because it was replaced or waits behind a vacant nonce. *)
ReceiptTimesOut(e) ==
  /\ pc[e] = "receipt"
  /\ \/ "slow_receipt" \in Faults
     \/ slot[nonce[e]] # e
     \/ \E n \in mined .. nonce[e] : Lost(n)
  /\ Finish(e, "TxReceiptTimeoutError")
  /\ UNCHANGED <<cache, lock, attempt, seen, nonce, broadcast, err, expired, nodeVars>>

ReceiptFails(e) ==
  /\ "receipt_error" \in Faults
  /\ pc[e] = "receipt"
  /\ \E k \in {"transient", "other"} : err' = [err EXCEPT ![e] = k]
  /\ Goto(e, "handle")
  /\ UNCHANGED <<cache, lock, attempt, seen, nonce, broadcast, expired, outcome, nodeVars>>

(* KeyboardInterrupt: inside the inner try the nonce is handed back, in    *)
(* reserve_nonce the lock is freed; elsewhere the call just ends.          *)
Interrupt(e) ==
  /\ "interrupt" \in Faults
  /\ \/ pc[e] \in {"build", "send"} /\ FailBeforeBroadcast(e, "interrupt")
     \/ /\ pc[e] \in {"head", "reserve", "reading", "receipt", "handle"}
        /\ Finish(e, "KeyboardInterrupt")
        /\ Unlock(e)
        /\ seen' = [seen EXCEPT ![e] = 0]
        /\ UNCHANGED <<cache, attempt, nonce, broadcast, err, expired>>
  /\ UNCHANGED nodeVars

(* Delivered after reserve_nonce stored the new value and before the try   *)
(* is entered, or while release_nonce, in the handler of another           *)
(* exception, waits for the lock: nothing hands the nonce back.            *)
Abandon(e) ==
  /\ \/ "early_interrupt" \in Faults /\ pc[e] = "build"
     \/ "late_interrupt" \in Faults /\ pc[e] = "release"
  /\ Finish(e, "KeyboardInterrupt")
  /\ UNCHANGED <<cache, lock, attempt, seen, nonce, broadcast, err, expired, nodeVars>>

DeadlinePasses(e) ==
  /\ e \in Deadlined
  /\ pc[e] # "done"
  /\ ~expired[e]
  /\ expired' = [expired EXCEPT ![e] = TRUE]
  /\ UNCHANGED <<cache, lock, pc, attempt, seen, nonce, broadcast, err, outcome, nodeVars>>

Environment ==
  /\ Mine \/ ("foreign" \in Faults /\ ForeignSend)
  /\ UNCHANGED <<execVars, abandoned>>

Terminated == (\A e \in Executors : pc[e] = "done") /\ UNCHANGED vars

(* The steps the thread itself takes.                                      *)
Step(e) ==
  \/ CheckBudget(e) \/ ReadPendingCount(e) \/ ReadFails(e) \/ Reserve(e)
  \/ Build(e) \/ BuildFails(e)
  \/ SendTooLate(e) \/ Send(e) \/ SendRefused(e) \/ SendBreaksOff(e)
  \/ ReleaseNonce(e)
  \/ HandleTyped(e) \/ HandleCollision(e) \/ HandleTransport(e)
  \/ GetReceipt(e) \/ ReceiptTimesOut(e) \/ ReceiptFails(e)

(* The history: lost is what this step abandons.  A reservation the entry  *)
(* no longer stands above will be handed out again.                        *)
Remember(lost) ==
  abandoned' = IF cache' = NoNonce THEN {} ELSE {n \in abandoned \cup lost : n < cache'}

ThreadStep(e) == Step(e) /\ Remember({})
Disturbed(e) == (Interrupt(e) \/ DeadlinePasses(e)) /\ Remember({})
Abandoned(e) == Abandon(e) /\ Remember({nonce[e]})

Next ==
  \/ \E e \in Executors : ThreadStep(e) \/ Disturbed(e) \/ Abandoned(e)
  \/ Environment
  \/ Terminated

Spec == Init /\ [][Next]_vars

(* A thread takes its next step sooner or later: every RPC it waits for    *)
(* returns or times out, and the address lock is never held across more    *)
(* than one RPC.  Blocks keep being mined.                                 *)
FairSpec ==
  /\ Spec
  /\ \A e \in Executors : WF_vars(ThreadStep(e))
  /\ WF_vars(Mine /\ UNCHANGED <<execVars, abandoned>>)
-----------------------------------------------------------------------------
Published(e) == {n \in Slots : slot[n] = e}

(* One call of execute puts its transaction on the chain at most once,     *)
(* whatever it retries (_base.py 586-588).                                 *)
AtMostOncePublished ==
  \A e \in Executors : \A m, n \in Published(e) : m = n

(* What execute reports agrees with the chain: a receipt or a revert by    *)
(* status means that its transaction is mined; PublishTimeoutError, the    *)
(* nonce and gas errors and a decoded revert mean that nothing was         *)
(* published, so that the caller may safely publish again.                 *)
OutcomeMatchesChain ==
  \A e \in Executors :
    /\ outcome[e] \in {"Receipt", "TxRevertError"} => \E n \in Published(e) : n < mined
    /\ outcome[e] \in {"PublishTimeoutError", "NonceError", "GasError", "Reverted",
                       "raw_exception"}
         => Published(e) = {}

(* Seen from the caller, execute publishes at most once and says so.       *)
Promise == INSTANCE PublishOnce
  WITH Callers <- Executors, Nonces <- Slots,
       tx <- [e \in Executors |-> Published(e)], result <- outcome
PublishesOnce == Promise!Spec

(* No nonce below the cached one is lost, except those an interrupt took   *)
(* away in one of two places: between the reservation and the try, and in  *)
(* release_nonce's wait for the lock (_base.py 480-484, which promises     *)
(* that no exit loses one, 485-487 and 507-508).                           *)
NoLostNonce ==
  cache # NoNonce => \A n \in mined .. cache - 1 : Lost(n) => n \in abandoned

(* Concurrent executors hold distinct nonces (nonce.py 36-37, 120).        *)
ReservationsDistinct ==
  \A e, f \in Executors, n \in Slots : Holds(e, n) /\ Holds(f, n) => e = f

(* A published transaction is mined in the end: the nonces below it do not *)
(* stay vacant (_base.py 480-484, nonce.py 133-135).                       *)
PublishedIsMined ==
  \A e \in Executors, n \in Slots : slot[n] = e ~> n < mined

(* Every call of execute returns or raises.                                *)
EveryCallEnds == \A e \in Executors : <>(pc[e] = "done")

(* With nothing going wrong before the broadcast every call publishes: no  *)
(* concurrent call costs it its transaction (nonce.py 36-37).              *)
EveryCallPublishes == \A e \in Executors : <>(Published(e) # {})
=============================================================================
