---------------------------- MODULE NonceManager ----------------------------
(***************************************************************************)
(* NonceManager called by concurrent threads: the dictionaries _nonces and *)
(* _locks, the global lock, one lock object per address.  Every read and   *)
(* write of _nonces is a step of its own, since the interpreter may switch *)
(* threads between them; what keeps them together is the address lock.     *)
(* get_cached_nonce only reads and is left out.                            *)
(***************************************************************************)
EXTENDS NonceCache

CONSTANTS
  Threads,
  Addresses,
  ClearAnyTime, \* clear_all may be called while other calls are in progress
  MaxCalls,     \* bound: calls per thread
  MaxPending    \* bound: the chain's pending count

Ops == {"reserve", "get", "refresh", "release", "increment", "reset", "clear"}

ASSUME ManagerAssumption ==
  /\ ClearAnyTime \in BOOLEAN
  /\ MaxCalls \in Nat
  /\ MaxPending \in Nat

VARIABLES
  nonces,     \* _nonces
  locks,      \* the keys of _locks
  clears,     \* how often _locks was emptied: with the address, a lock's identity
  pending,    \* the chain's pending counts
  pc,
  op, addr,   \* the call in progress
  lockOf,     \* the lock object _get_lock returned
  seen,       \* pending_nonce read from the chain
  entry,      \* the _nonces entry found by the first access
  mine,       \* mine[t][a]: the nonce t last reserved and may release
  calls       \* calls started

vars == <<nonces, locks, clears, pending, pc, op, addr, lockOf, seen, entry,
          mine, calls>>

Locks == Addresses \X Nat

(* Where a thread holds the lock it found. *)
InLock == {"chain", "test", "commit", "reread"}
Labels == InLock \cup {"idle", "lookup", "acquire", "clear", "clearing", "KeyError"}

TypeOK ==
  /\ nonces \in [Addresses -> Entry]
  /\ locks \subseteq Addresses
  /\ clears \in Nat
  /\ pending \in [Addresses -> 0 .. MaxPending]
  /\ pc \in [Threads -> Labels]
  /\ op \in [Threads -> Ops]
  /\ addr \in [Threads -> Addresses]
  /\ lockOf \in [Threads -> Locks]
  /\ seen \in [Threads -> Nat]
  /\ entry \in [Threads -> Entry]
  /\ mine \in [Threads -> [Addresses -> Entry]]
  /\ calls \in [Threads -> 0 .. MaxCalls]

Init ==
  /\ nonces = [a \in Addresses |-> NoNonce]
  /\ locks = {}
  /\ clears = 0
  /\ pending \in [Addresses -> 0 .. MaxPending]
  /\ pc = [t \in Threads |-> "idle"]
  /\ op = [t \in Threads |-> "reset"]
  /\ addr \in {[t \in Threads |-> a] : a \in Addresses}
  /\ lockOf = [t \in Threads |-> <<addr[t], 0>>]
  /\ seen = [t \in Threads |-> 0]
  /\ entry = [t \in Threads |-> NoNonce]
  /\ mine = [t \in Threads |-> [a \in Addresses |-> NoNonce]]
  /\ calls = [t \in Threads |-> 0]
-----------------------------------------------------------------------------
Goto(t, l) == pc' = [pc EXCEPT ![t] = l]
SetNonce(t, v) == nonces' = [nonces EXCEPT ![addr[t]] = v]

(* clear_all is meant for teardown: nothing else runs meanwhile.           *)
MayStart(o) ==
  \/ ClearAnyTime
  \/ \A u \in Threads :
       IF o = "clear" THEN pc[u] \in {"idle", "KeyError"}
       ELSE pc[u] \notin {"clear", "clearing"}

(* A thread calls an operation.  release_nonce is called with a nonce the  *)
(* thread reserved.                                                        *)
Call(t) ==
  /\ pc[t] = "idle"
  /\ calls[t] < MaxCalls
  /\ \E o \in Ops, a \in Addresses :
       /\ MayStart(o)
       /\ o = "release" => mine[t][a] # NoNonce
       /\ op' = [op EXCEPT ![t] = o]
       /\ addr' = [addr EXCEPT ![t] = a]
       /\ Goto(t, IF o = "clear" THEN "clear" ELSE "lookup")
  /\ calls' = [calls EXCEPT ![t] = @ + 1]
  /\ UNCHANGED <<nonces, locks, clears, pending, lockOf, seen, entry, mine>>

GlobalLockFree == \A u \in Threads : pc[u] # "clearing"

(* _get_lock, under the global lock. *)
FindLock(t) ==
  /\ pc[t] = "lookup"
  /\ GlobalLockFree
  /\ locks' = locks \cup {addr[t]}
  /\ lockOf' = [lockOf EXCEPT ![t] = <<addr[t], clears>>]
  /\ Goto(t, "acquire")
  /\ UNCHANGED <<nonces, clears, pending, op, addr, seen, entry, mine, calls>>

(* Deliberate fault: the lock is not taken. *)
LockIgnored(l) == TRUE

LockFree(l) == \A u \in Threads : pc[u] \in InLock => lockOf[u] # l

Acquire(t) ==
  /\ pc[t] = "acquire"
  /\ LockFree(lockOf[t])
  /\ Goto(t, IF op[t] \in {"reserve", "get", "refresh"} THEN "chain" ELSE "test")
  /\ UNCHANGED <<nonces, locks, clears, pending, op, addr, lockOf, seen, entry, mine, calls>>

ReadChain(t) ==
  /\ pc[t] = "chain"
  /\ seen' = [seen EXCEPT ![t] = pending[addr[t]]]
  /\ Goto(t, "test")
  /\ UNCHANGED <<nonces, locks, clears, pending, op, addr, lockOf, entry, mine, calls>>

(* Deliberate fault: a failed read is tried again for ever. *)
ReadForever(t) ==
  /\ pc[t] = "chain"
  /\ Goto(t, "acquire")
  /\ UNCHANGED <<nonces, locks, clears, pending, op, addr, lockOf, seen, entry, mine, calls>>

(* The RPC raises: the with statement releases the lock. *)
ReadChainFails(t) ==
  /\ pc[t] = "chain"
  /\ Goto(t, "idle")
  /\ UNCHANGED <<nonces, locks, clears, pending, op, addr, lockOf, seen, entry, mine, calls>>

(* The first access: _nonces.get(address), or "address in _nonces". *)
Test(t) ==
  /\ pc[t] = "test"
  /\ entry' = [entry EXCEPT ![t] = nonces[addr[t]]]
  /\ Goto(t, "commit")
  /\ UNCHANGED <<nonces, locks, clears, pending, op, addr, lockOf, seen, mine, calls>>
-----------------------------------------------------------------------------
(* The second access acts on what the first one found. *)
Reserve(t) ==
  /\ pc[t] = "commit"
  /\ op[t] = "reserve"
  /\ SetNonce(t, AfterReserve(entry[t], seen[t]))
  /\ mine' = [mine EXCEPT ![t][addr[t]] = ReservedNonce(entry[t], seen[t])]
  /\ Goto(t, "idle")
  /\ UNCHANGED <<locks, clears, pending, op, addr, lockOf, seen, entry, calls>>

(* The key that the first access found has gone: a subscript raises        *)
(* KeyError and nothing is written.                                        *)
Vanished(t) == entry[t] # NoNonce /\ nonces[addr[t]] = NoNonce

WriteUnlessVanished(t, v, next) ==
  /\ Goto(t, IF Vanished(t) THEN "KeyError" ELSE next)
  /\ IF Vanished(t) THEN UNCHANGED nonces ELSE SetNonce(t, v)
  /\ UNCHANGED <<locks, clears, pending, op, addr, lockOf, seen, entry, mine, calls>>

Get(t) ==
  /\ pc[t] = "commit"
  /\ op[t] = "get"
  /\ WriteUnlessVanished(t,
       AfterGet(IF entry[t] = NoNonce THEN NoNonce ELSE nonces[addr[t]], seen[t], FALSE),
       "reread")

(* With force_refresh the entry is not looked at.                          *)
Refresh(t) ==
  /\ pc[t] = "commit"
  /\ op[t] = "refresh"
  /\ SetNonce(t, AfterGet(NoNonce, seen[t], TRUE))
  /\ Goto(t, "reread")
  /\ UNCHANGED <<locks, clears, pending, op, addr, lockOf, seen, entry, mine, calls>>

(* get_nonce reads the entry once more to return it. *)
Reread(t) ==
  /\ pc[t] = "reread"
  /\ Goto(t, IF nonces[addr[t]] = NoNonce THEN "KeyError" ELSE "idle")
  /\ UNCHANGED <<nonces, locks, clears, pending, op, addr, lockOf, seen, entry, mine, calls>>

Release(t) ==
  /\ pc[t] = "commit"
  /\ op[t] = "release"
  /\ SetNonce(t, AfterRelease(entry[t], mine[t][addr[t]]))
  /\ mine' = [mine EXCEPT ![t][addr[t]] = NoNonce]
  /\ Goto(t, "idle")
  /\ UNCHANGED <<locks, clears, pending, op, addr, lockOf, seen, entry, calls>>

(* increment_nonce and reset_nonce do nothing when there is no entry.      *)
IncrementOrReset(t) ==
  /\ pc[t] = "commit"
  /\ op[t] \in {"increment", "reset"}
  /\ WriteUnlessVanished(t,
       IF entry[t] = NoNonce THEN nonces[addr[t]]
       ELSE IF op[t] = "reset" THEN AfterReset(nonces[addr[t]])
       ELSE AfterIncrement(nonces[addr[t]]),
       "idle")

(* clear_all empties both dictionaries under the global lock; it takes no  *)
(* address lock.                                                           *)
ClearNonces(t) ==
  /\ pc[t] = "clear"
  /\ GlobalLockFree
  /\ nonces' = [a \in Addresses |-> NoNonce]
  /\ Goto(t, "clearing")
  /\ UNCHANGED <<locks, clears, pending, op, addr, lockOf, seen, entry, mine, calls>>

ClearLocks(t) ==
  /\ pc[t] = "clearing"
  /\ locks' = {}
  /\ clears' = clears + 1
  /\ Goto(t, "idle")
  /\ UNCHANGED <<nonces, pending, op, addr, lockOf, seen, entry, mine, calls>>

ChainAdvances ==
  /\ \E a \in Addresses :
       /\ pending[a] < MaxPending
       /\ pending' = [pending EXCEPT ![a] = @ + 1]
  /\ UNCHANGED <<nonces, locks, clears, pc, op, addr, lockOf, seen, entry, mine, calls>>

Step(t) ==
  \/ FindLock(t) \/ Acquire(t) \/ ReadChain(t) \/ ReadChainFails(t) \/ Test(t)
  \/ Reserve(t) \/ Get(t) \/ Refresh(t) \/ Reread(t) \/ Release(t) \/ IncrementOrReset(t)
  \/ ClearNonces(t) \/ ClearLocks(t)

Quiet ==
  /\ \A t \in Threads : pc[t] = "KeyError" \/ (pc[t] = "idle" /\ calls[t] = MaxCalls)
  /\ UNCHANGED vars

Next == (\E t \in Threads : Call(t) \/ Step(t)) \/ ChainAdvances \/ Quiet

Spec == Init /\ [][Next]_vars

(* The RPC answers or fails, and the interpreter runs every thread. *)
FairSpec == Spec /\ \A t \in Threads : WF_vars(Step(t))
-----------------------------------------------------------------------------
(* At most one thread at a time works on an address's counter              *)
(* (nonce.py 32-35).                                                       *)
MutualExclusion ==
  \A t, u \in Threads :
    t # u /\ pc[t] \in InLock /\ pc[u] \in InLock => addr[t] # addr[u]

(* No operation finds that the key it has just seen is gone (nonce.py 29). *)
NoKeyError == \A t \in Threads : pc[t] # "KeyError"

(* To its callers every operation happens in one step, between its call    *)
(* and its return (nonce.py 36-40).  TxExecutor is modelled on that.       *)
Atomic == INSTANCE NonceCounter WITH counter <- nonces, held <- mine
ActsAtomically == Atomic!Spec

(* A call returns or raises. *)
EveryCallReturns ==
  \A t \in Threads : pc[t] # "idle" ~> pc[t] \in {"idle", "KeyError"}
=============================================================================
