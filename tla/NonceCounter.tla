---------------------------- MODULE NonceCounter ----------------------------
(***************************************************************************)
(* NonceManager as its callers are meant to see it: one counter per        *)
(* address and every operation in one step.  The chain's pending count     *)
(* that an operation works with is one the chain has had.                  *)
(***************************************************************************)
EXTENDS NonceCache

CONSTANTS Threads, Addresses, MaxPending

VARIABLES
  counter,    \* counter[a]: the next unreserved nonce, if known
  held,       \* held[t][a]: the nonce t last reserved and may hand back
  pending     \* the chain's pending counts

Init ==
  /\ counter = [a \in Addresses |-> NoNonce]
  /\ held = [t \in Threads |-> [a \in Addresses |-> NoNonce]]
  /\ pending \in [Addresses -> 0 .. MaxPending]

Set(a, v) == counter' = [counter EXCEPT ![a] = v] /\ UNCHANGED pending

Reserve(t, a) ==
  \E p \in 0 .. pending[a] :
    /\ Set(a, AfterReserve(counter[a], p))
    /\ held' = [held EXCEPT ![t][a] = ReservedNonce(counter[a], p)]

Read(a, force) ==
  /\ \E p \in 0 .. pending[a] : Set(a, AfterGet(counter[a], p, force))
  /\ UNCHANGED held

Release(t, a) ==
  /\ held[t][a] # NoNonce
  /\ Set(a, AfterRelease(counter[a], held[t][a]))
  /\ held' = [held EXCEPT ![t][a] = NoNonce]

Increment(a) == Set(a, AfterIncrement(counter[a])) /\ UNCHANGED held
Reset(a) == Set(a, AfterReset(counter[a])) /\ UNCHANGED held

Clear ==
  /\ counter' = [a \in Addresses |-> NoNonce]
  /\ UNCHANGED <<held, pending>>

Advance(a) ==
  /\ pending[a] < MaxPending
  /\ pending' = [pending EXCEPT ![a] = @ + 1]
  /\ UNCHANGED <<counter, held>>

Next ==
  \/ \E t \in Threads, a \in Addresses : Reserve(t, a) \/ Release(t, a)
  \/ \E a \in Addresses, force \in BOOLEAN : Read(a, force)
  \/ \E a \in Addresses : Increment(a) \/ Reset(a) \/ Advance(a)
  \/ Clear

Spec == Init /\ [][Next]_<<counter, held, pending>>
=============================================================================
