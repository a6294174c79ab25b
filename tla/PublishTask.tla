---------------------------- MODULE PublishTask -----------------------------
(***************************************************************************)
(* One call of client.publish_task (or publish_source, which has neither   *)
(* an expiry time nor a budget), in time: the expiry checks, the IPFS pin  *)
(* with its attempts and backoffs, and the legs of TxExecutor.execute with *)
(* its deadline checks, backoffs and the cap on the receipt wait.  Each    *)
(* blocking call is one action that lets some time pass.  What happens to  *)
(* nonces meanwhile is the subject of TxExecutor; here the node's answer   *)
(* is never lost.                                                          *)
(*                                                                         *)
(*   start -> pin (-> pin)* -> pinned -> head -> reserve -> build -> send  *)
(*                                        ^---------------------|          *)
(*                                              receipt -> done            *)
(***************************************************************************)
EXTENDS Integers

CONSTANTS
  Never,              \* no deadline, no expiry time, nothing sent
  Budgets,            \* total_timeout: durations, or Never
  Expiries,           \* expiryTime: times, or Never
  IpfsTimeout, IpfsRetries, IpfsBackoff,
  ReceiptTimeout, ReceiptFloor,
  MaxRetries,         \* of the executor
  UnderpricedBackoff, TransientBackoff,
  MaxRpc              \* the longest an RPC other than the receipt wait takes

Durations == {IpfsTimeout, IpfsBackoff, ReceiptTimeout, ReceiptFloor,
              UnderpricedBackoff, TransientBackoff, MaxRpc}

PinAttempts == IF IpfsRetries < 1 THEN 1 ELSE IpfsRetries

ASSUME PublishAssumption ==
  /\ Never \notin Int
  /\ Budgets \subseteq Int \cup {Never}
  /\ Expiries \subseteq Int \cup {Never}
  /\ Durations \subseteq Nat
  /\ IpfsRetries \in Int
  /\ MaxRetries \in Nat \ {0}

VARIABLES
  now,        \* time.monotonic(), counted from the call
  deadline, expiry,
  pc,
  attempt,    \* loop variable of publish_to_ipfs, then of execute
  lastError,  \* last_error of publish_to_ipfs
  pinEnd,     \* when the pin phase was over
  sentAt,     \* when send_raw_transaction was called and the node took it in
  result

vars == <<now, deadline, expiry, pc, attempt, lastError, pinEnd, sentAt, result>>
params == <<deadline, expiry>>

PinLabels == {"start", "pin", "pinned"}
ExecuteLabels == {"head", "reserve", "build", "send", "receipt"}
Labels == PinLabels \cup ExecuteLabels \cup {"done"}
Results == {"none", "Task", "TaskExpiredError", "IPFSGatewayError", "IPFSFetchError",
            "PublishTimeoutError", "Reverted", "TxRevertError", "NonceError", "GasError",
            "TxRpcError", "TxReceiptTimeoutError", "raw_exception"}

TypeOK ==
  /\ now \in Nat
  /\ deadline \in Int \cup {Never}
  /\ expiry \in Int \cup {Never}
  /\ pc \in Labels
  /\ attempt \in Nat
  /\ pc \in PinLabels => attempt \in 1 .. PinAttempts
  /\ pc \in ExecuteLabels => attempt \in 0 .. MaxRetries - 1
  /\ lastError \in {"none", "IPFSGatewayError", "IPFSFetchError"}
  /\ pinEnd \in Nat \cup {Never}
  /\ sentAt \in Nat \cup {Never}
  /\ result \in Results

(* total_timeout is added to the time of the call, which is 0 here.        *)
Init ==
  /\ now = 0
  /\ deadline \in Budgets
  /\ expiry \in Expiries
  /\ pc = "start"
  /\ attempt = 1
  /\ lastError = "none"
  /\ pinEnd = Never
  /\ sentAt = Never
  /\ result = "none"
-----------------------------------------------------------------------------
Smaller(a, b) == IF a <= b THEN a ELSE b
Larger(a, b) == IF a >= b THEN a ELSE b

Past(t) == t # Never /\ t <= now

(* What is left of the budget at time t may shorten a wait.                *)
WithinBudget(d, t) == IF deadline = Never THEN d ELSE Smaller(d, Larger(deadline - t, 0))

Finish(r) == pc' = "done" /\ result' = r

(* _check_not_expired, before the pin and again after it.                  *)
CheckNotExpired(next) ==
  \/ Past(expiry) /\ Finish("TaskExpiredError")
  \/ ~Past(expiry) /\ pc' = next /\ UNCHANGED result

CheckAtStart ==
  /\ pc = "start"
  /\ CheckNotExpired("pin")
  /\ UNCHANGED <<now, params, attempt, lastError, pinEnd, sentAt>>

(* Deliberate fault: the expiry time is not checked again.                 *)
NoCheckAfterPin ==
  /\ pc = "pinned"
  /\ pc' = "head"
  /\ attempt' = 0
  /\ UNCHANGED <<now, params, lastError, pinEnd, sentAt, result>>

CheckAfterPin ==
  /\ pc = "pinned"
  /\ CheckNotExpired("head")
  /\ attempt' = 0
  /\ UNCHANGED <<now, params, lastError, pinEnd, sentAt>>

-----------------------------------------------------------------------------
(* publish_to_ipfs: one turn of its loop.  An upload takes at most its     *)
(* timeout.                                                                *)
UploadTime == IF deadline = Never THEN IpfsTimeout ELSE Smaller(IpfsTimeout, deadline - now)

TwoTo[n \in Nat] == IF n = 0 THEN 1 ELSE 2 * TwoTo[n - 1]

(* Deliberate fault: the backoff is doubled once too often.                *)
DoubledTooSoon(n) == IpfsBackoff * TwoTo[n]

Backoff(n) == IpfsBackoff * TwoTo[n - 1]

PinGivesUp(e) == Finish(IF e = "IPFSGatewayError" THEN e ELSE "IPFSFetchError")

PinOutOfBudget ==
  /\ pc = "pin"
  /\ Past(deadline)
  /\ PinGivesUp(lastError)
  /\ pinEnd' = now
  /\ UNCHANGED <<now, params, attempt, lastError, sentAt>>

PinSucceeds ==
  /\ pc = "pin"
  /\ ~Past(deadline)
  /\ \E d \in 0 .. UploadTime : now' = now + d
  /\ pinEnd' = now'
  /\ pc' = "pinned"
  /\ UNCHANGED <<params, attempt, lastError, sentAt, result>>

(* A status below 500, or a success whose body has no link.                *)
PinRejected ==
  /\ pc = "pin"
  /\ ~Past(deadline)
  /\ \E d \in 0 .. UploadTime : now' = now + d
  /\ pinEnd' = now'
  /\ Finish("IPFSGatewayError")
  /\ UNCHANGED <<params, attempt, lastError, sentAt>>

(* A status of 500 or more, or no answer; then the backoff, doubled each   *)
(* time and cut by the budget.                                             *)
PinFails ==
  /\ pc = "pin"
  /\ ~Past(deadline)
  /\ \E e \in {"IPFSGatewayError", "IPFSFetchError"}, d \in 0 .. UploadTime :
       /\ lastError' = e
       /\ \/ /\ attempt < PinAttempts
             /\ now' = now + d + WithinBudget(Backoff(attempt), now + d)
             /\ attempt' = attempt + 1
             /\ UNCHANGED <<pc, pinEnd, result>>
          \/ /\ attempt = PinAttempts
             /\ now' = now + d
             /\ pinEnd' = now'
             /\ PinGivesUp(e)
             /\ UNCHANGED attempt
  /\ UNCHANGED <<params, sentAt>>
-----------------------------------------------------------------------------
(* The legs of execute.                                                    *)
Rpc == \E d \in 0 .. MaxRpc : now' = now + d

(* Deliberate faults: the deadline is not checked at the head, or right    *)
(* before the send.                                                        *)
NoBudgetCheck ==
  /\ pc = "head"
  /\ pc' = "reserve"
  /\ UNCHANGED <<now, params, attempt, lastError, pinEnd, sentAt, result>>
SendUnchecked ==
  /\ pc = "send"
  /\ sentAt' = now
  /\ Rpc
  /\ pc' = "receipt"
  /\ UNCHANGED <<params, attempt, lastError, pinEnd, result>>

CheckBudget ==
  /\ pc = "head"
  /\ \/ Past(deadline) /\ Finish("PublishTimeoutError")
     \/ ~Past(deadline) /\ pc' = "reserve" /\ UNCHANGED result
  /\ UNCHANGED <<now, params, attempt, lastError, pinEnd, sentAt>>

Reserve ==
  /\ pc = "reserve"
  /\ Rpc
  /\ \/ pc' = "build" /\ UNCHANGED result
     \/ Finish("raw_exception")
  /\ UNCHANGED <<params, attempt, lastError, pinEnd, sentAt>>

Build ==
  /\ pc = "build"
  /\ Rpc
  /\ \/ pc' = "send" /\ UNCHANGED result
     \/ Finish("Reverted")
  /\ UNCHANGED <<params, attempt, lastError, pinEnd, sentAt>>

(* A failure after d: another attempt after a pause, or the error e: when  *)
(* no attempt is left, or at once when an RPC error is not transient.      *)
RetryAfter(d, pause, e) ==
  \/ /\ attempt < MaxRetries - 1
     /\ now' = now + d + pause
     /\ attempt' = attempt + 1
     /\ pc' = "head"
     /\ UNCHANGED result
  \/ /\ attempt = MaxRetries - 1 \/ e = "TxRpcError"
     /\ now' = now + d
     /\ Finish(e)
     /\ UNCHANGED attempt

BuildFails ==
  /\ pc = "build"
  /\ \E d \in 0 .. MaxRpc : RetryAfter(d, TransientBackoff, "TxRpcError")
  /\ UNCHANGED <<params, lastError, pinEnd, sentAt>>

SendTooLate ==
  /\ pc = "send"
  /\ Past(deadline)
  /\ Finish("PublishTimeoutError")
  /\ UNCHANGED <<now, params, attempt, lastError, pinEnd, sentAt>>

Send ==
  /\ pc = "send"
  /\ ~Past(deadline)
  /\ sentAt' = now
  /\ Rpc
  /\ pc' = "receipt"
  /\ UNCHANGED <<params, attempt, lastError, pinEnd, result>>

SendFails ==
  /\ pc = "send"
  /\ ~Past(deadline)
  /\ \E d \in 0 .. MaxRpc :
       \/ RetryAfter(d, 0, "NonceError")
       \/ RetryAfter(d, UnderpricedBackoff, "GasError")
       \/ RetryAfter(d, TransientBackoff, "TxRpcError")
  /\ UNCHANGED <<params, lastError, pinEnd, sentAt>>

ReceiptCap ==
  IF deadline = Never THEN ReceiptTimeout
  ELSE Smaller(ReceiptTimeout, Larger(deadline - now, ReceiptFloor))

GetReceipt ==
  /\ pc = "receipt"
  /\ \E d \in 0 .. ReceiptCap :
       /\ now' = now + d
       /\ \E r \in {"Task", "TxRevertError", "TxRpcError"} : Finish(r)
  /\ UNCHANGED <<params, attempt, lastError, pinEnd, sentAt>>

ReceiptTimesOut ==
  /\ pc = "receipt"
  /\ now' = now + ReceiptCap
  /\ Finish("TxReceiptTimeoutError")
  /\ UNCHANGED <<params, attempt, lastError, pinEnd, sentAt>>

Terminated == pc = "done" /\ UNCHANGED vars

Next ==
  \/ CheckAtStart \/ CheckAfterPin
  \/ PinOutOfBudget \/ PinSucceeds \/ PinRejected \/ PinFails
  \/ CheckBudget \/ Reserve \/ Build \/ BuildFails
  \/ SendTooLate \/ Send \/ SendFails
  \/ GetReceipt \/ ReceiptTimesOut
  \/ Terminated

Spec == Init /\ [][Next]_vars
-----------------------------------------------------------------------------
(* The transaction is never broadcast once the budget is exhausted         *)
(* (_base.py 473-474, client 249-250).                                     *)
NeverSentPastBudget == sentAt # Never /\ deadline # Never => sentAt < deadline

(* A pin that stalls past the expiry time publishes nothing (client        *)
(* 50-57, 274-276).                                                        *)
StalledPinPublishesNothing ==
  sentAt # Never /\ expiry # Never => pinEnd < expiry

(* The pin phase ends within the budget, neither an upload nor a backoff   *)
(* running past it (publish.py 68-70), and in any case within its own      *)
(* knobs: its attempts and its doubled backoffs (publish.py 105-179).      *)
PinKnobs == PinAttempts * IpfsTimeout + IpfsBackoff * (TwoTo[PinAttempts - 1] - 1)
PinIsBounded ==
  pinEnd # Never =>
    /\ pinEnd <= PinKnobs
    /\ deadline # Never => pinEnd <= Larger(deadline, 0)

(* publish_task overruns its budget at most by the calls and the pause     *)
(* that were under way: reserving and building then a pause, a send then   *)
(* the longer pause, or a send then the least receipt wait (_base.py       *)
(* 514-518, 581, 596).                                                     *)
Overrun == Larger(2 * MaxRpc + TransientBackoff,
                  MaxRpc + Larger(UnderpricedBackoff, ReceiptFloor))
OverrunBounded ==
  pc = "done" /\ deadline # Never => now <= Larger(deadline, 0) + Overrun

(* publish_task returns or raises within total_timeout (client 245-248).   *)
ReturnsWithinBudget ==
  pc = "done" /\ deadline # Never => now <= Larger(deadline, 0)
=============================================================================
