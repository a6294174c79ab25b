---------------------------- MODULE NonceRepair ----------------------------
(***************************************************************************)
(* The user-facing recovery tools of chain/nonce.py, called by a thread of *)
(* its own while executes of the same signer are under way:                *)
(*                                                                         *)
(*   fix_nonce          latest -> pending -> cancel* -> reset -> final     *)
(*   get_nonce_info     latest -> pending -> cached                        *)
(*   reset_nonce_cache  reset                                              *)
(*   clear_all_nonce_caches  clear                                         *)
(*                                                                         *)
(* Each RPC and each access to the cache is one action.  The sleeps of     *)
(* fix_nonce are the time other actions take in between.                   *)
(***************************************************************************)
EXTENDS TxExecutor

CONSTANTS
  Tools,        \* the recovery functions this instance may call
  Canceller,    \* sender of the replacement self-transfers
  Stuck,        \* sender of a transaction no block will include
  MaxStuck      \* bound: stuck transactions and replacements, beyond which none gets stuck

RecoveryTools ==
  {"fix_nonce", "get_nonce_info", "reset_nonce_cache", "clear_all_nonce_caches"}

ASSUME RepairAssumption ==
  /\ Tools \subseteq RecoveryTools
  /\ {Canceller, Stuck} \subseteq Senders \ Executors
  /\ Canceller # Stuck
  /\ MaxStuck \in Nat

VARIABLES
  tool,       \* the function under way, or "none"
  toolPc,
  low, high,  \* mined_nonce and pending_nonce as the tool has read them
  current,    \* loop variable of fix_nonce
  kept,       \* history, in the loop: the lowest nonce whose cancellation raised
  raised      \* the tool ended with an exception

toolVars == <<tool, toolPc, low, high, current, kept, raised>>
repairVars == <<vars, toolVars>>

ToolLabels == {"idle", "latest", "pending", "cancel", "reset", "final", "cached",
               "clear", "done"}

RepairTypeOK ==
  /\ TypeOK
  /\ tool \in Tools \cup {"none"}
  /\ toolPc \in ToolLabels
  /\ low \in 0 .. MaxNonce /\ high \in 0 .. MaxNonce /\ current \in 0 .. MaxNonce
  /\ kept \in 0 .. MaxNonce
  /\ raised \in BOOLEAN

RepairInit ==
  /\ Init
  /\ tool = "none" /\ toolPc = "idle"
  /\ low = 0 /\ high = 0 /\ current = 0
  /\ kept = MaxNonce
  /\ raised = FALSE
-----------------------------------------------------------------------------
FirstLabel(t) ==
  CASE t \in {"fix_nonce", "get_nonce_info"} -> "latest"
    [] t = "reset_nonce_cache" -> "reset"
    [] t = "clear_all_nonce_caches" -> "clear"

(* The function returns or raises: its locals are gone.                    *)
Return(byRaising) ==
  /\ toolPc' = "done"
  /\ tool' = "none"
  /\ raised' = byRaising
  /\ low' = 0 /\ high' = 0 /\ current' = 0

(* The tool is called; without a private key in the argument or in         *)
(* CLIENT_PRIVATE_KEY all but clear_all raise ValueError.                  *)
CallTool ==
  /\ toolPc = "idle"
  /\ \E t \in Tools :
       /\ \/ tool' = t /\ toolPc' = FirstLabel(t) /\ UNCHANGED <<low, high, current, raised>>
          \/ t # "clear_all_nonce_caches" /\ Return(TRUE)
  /\ UNCHANGED <<kept, vars>>

(* An RPC outside the inner try raises out of the tool.                    *)
ToolReadFails ==
  /\ toolPc \in {"latest", "pending", "final"}
  /\ Return(TRUE)
  /\ UNCHANGED <<kept, vars>>

ReadLatest ==
  /\ toolPc = "latest"
  /\ low' = mined
  /\ toolPc' = "pending"
  /\ UNCHANGED <<tool, high, current, kept, raised, vars>>

(* Deliberate faults: off by one at either end of the range.               *)
LeavesOutTheFirst == low + 1
CancelsOneTooMany(n) == n <= high

FirstToCancel == low
MustCancel(n) == n < high

ReadPending ==
  /\ toolPc = "pending"
  /\ \E p \in 0 .. MaxNonce :
       /\ IsPendingCount(p)
       /\ high' = p
       /\ current' = FirstToCancel
       /\ toolPc' = IF tool = "get_nonce_info" THEN "cached"
                    ELSE IF p > low THEN "cancel" ELSE "reset"
  /\ UNCHANGED <<tool, low, kept, raised, vars>>

(* get_cached_nonce takes no lock and changes nothing.                     *)
ReadCached ==
  /\ toolPc = "cached"
  /\ Return(FALSE)
  /\ UNCHANGED <<kept, vars>>

KeptFrom(n) == IF kept < n THEN kept ELSE n

(* _cancel_transaction_with_nonce: the self-transfer outbids what holds    *)
(* the nonce.                                                              *)
Cancel ==
  /\ toolPc = "cancel" /\ MustCancel(current)
  /\ \E v \in Verdicts(Canceller, current) : TakesIn(v)
  /\ Include(Canceller, current)
  /\ current' = current + 1
  /\ \/ UNCHANGED kept
     \/ kept' = KeptFrom(current)   \* the answer is lost
  /\ UNCHANGED <<tool, toolPc, low, high, raised, execVars, abandoned>>

(* The gas price cannot be read, the nonce is mined by now, the node finds *)
(* the fee too low: the exception is printed and the loop goes on.         *)
CancelFails ==
  /\ toolPc = "cancel" /\ MustCancel(current)
  /\ kept' = KeptFrom(current)
  /\ current' = current + 1
  /\ UNCHANGED <<tool, toolPc, low, high, raised, vars>>

LeaveLoop ==
  /\ toolPc = "cancel" /\ ~MustCancel(current)
  /\ toolPc' = "reset"
  /\ kept' = MaxNonce
  /\ UNCHANGED <<tool, low, high, current, raised, vars>>

(* NonceManager.reset_nonce, under the address lock, whatever executes     *)
(* have reserved.                                                          *)
ResetCache ==
  /\ toolPc = "reset"
  /\ lock = NoExecutor
  /\ cache' = AfterReset(cache)
  /\ abandoned' = {}
  /\ \/ tool = "fix_nonce" /\ toolPc' = "final" /\ UNCHANGED <<tool, low, high, current, raised>>
     \/ tool # "fix_nonce" /\ Return(FALSE)
  /\ UNCHANGED <<kept, nodeVars,
                 lock, pc, attempt, seen, nonce, broadcast, err, expired, outcome>>

(* NonceManager.clear_all takes no address lock: it forgets the entry and  *)
(* the lock while a thread may be inside reserve_nonce, and the next one   *)
(* gets a new lock.  (NonceManager has what a thread that already waits    *)
(* for the old one does.)                                                  *)
ClearAll ==
  /\ toolPc = "clear"
  /\ cache' = NoNonce
  /\ lock' = NoExecutor
  /\ abandoned' = {}
  /\ Return(FALSE)
  /\ UNCHANGED <<kept, nodeVars,
                 pc, attempt, seen, nonce, broadcast, err, expired, outcome>>

ReadFinal ==
  /\ toolPc = "final"
  /\ \E p \in 0 .. MaxNonce : IsPendingCount(p)   \* final_nonce
  /\ Return(FALSE)
  /\ UNCHANGED <<kept, vars>>

ToolStep ==
  CallTool \/ ToolReadFails \/ ReadLatest \/ ReadPending \/ ReadCached
  \/ Cancel \/ CancelFails \/ LeaveLoop \/ ResetCache \/ ClearAll \/ ReadFinal
-----------------------------------------------------------------------------
(* A block takes the next transaction unless that one is stuck.            *)
MineUnlessStuck ==
  /\ mined \in Slots /\ slot[mined] # Stuck
  /\ Mine
  /\ UNCHANGED <<execVars, abandoned, toolVars>>

(* A transaction with too low a price, of a signer that has crashed since. *)
GetsStuck ==
  /\ Cardinality({n \in Slots : slot[n] \in {Stuck, Canceller}}) < MaxStuck
  /\ \E n \in Slots : IsPendingCount(n) /\ Include(Stuck, n)
  /\ UNCHANGED <<execVars, abandoned, toolVars>>

ExecuteStep ==
  /\ \E e \in Executors : ThreadStep(e) \/ Disturbed(e) \/ Abandoned(e)
  /\ UNCHANGED toolVars

RepairEnded ==
  /\ toolPc = "done"
  /\ \A e \in Executors : pc[e] = "done"
  /\ UNCHANGED repairVars

RepairNext ==
  ExecuteStep \/ ToolStep \/ MineUnlessStuck \/ GetsStuck \/ RepairEnded

(* As for the executors; the tool's thread runs, and blocks are mined.     *)
RepairSpec ==
  /\ RepairInit
  /\ [][RepairNext]_repairVars
  /\ \A e \in Executors : WF_repairVars(ThreadStep(e) /\ UNCHANGED toolVars)
  /\ WF_repairVars(ToolStep)
  /\ WF_repairVars(MineUnlessStuck)
-----------------------------------------------------------------------------
(* A cancellation replaces a transaction; it never takes a nonce nobody    *)
(* has used, which an execute under way may have reserved (nonce.py        *)
(* 308-321).                                                               *)
CancelsOnlyWhatIsThere ==
  [][\A n \in Slots : slot'[n] = Canceller => Occupied(n)]_repairVars

(* An interrupt can lose a nonce (NoLostNonce).  After reset_nonce or      *)
(* clear_all the next reservations find it again: no nonce below the       *)
(* counter is lost unless an interrupt has struck since, although executes *)
(* in flight hold reservations the reset has forgotten (nonce.py 190-205,  *)
(* 332).                                                                   *)
ResetFindsLostNonces ==
  abandoned = {} /\ cache # NoNonce => \A n \in mined .. cache - 1 : ~Lost(n)

(* fix_nonce clears what is stuck when it is called: the nonce is mined in *)
(* the end, unless the tool raised or could not cancel that nonce or one   *)
(* below it (nonce.py 253-262).                                            *)
StuckIsCleared ==
  \A n \in Slots :
    (slot[n] = Stuck /\ tool = "fix_nonce" /\ toolPc = "latest")
      ~> (n < mined \/ raised \/ kept <= n)
=============================================================================
