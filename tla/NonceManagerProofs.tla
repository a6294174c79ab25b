------------------------- MODULE NonceManagerProofs -------------------------
(* Theorems about NonceManager, for any number of threads, addresses and   *)
(* calls.                                                                  *)
EXTENDS NonceManager, TLAPS

(* Every operation leaves an entry an entry.                               *)
LEMMA EntriesStayEntries ==
  ASSUME NEW x \in Entry, NEW p \in Nat, NEW n \in Nat
  PROVE  /\ ReservedNonce(x, p) \in Nat
         /\ AfterReserve(x, p) \in Nat
         /\ \A force \in BOOLEAN : AfterGet(x, p, force) \in Nat
         /\ AfterRelease(x, n) \in Entry
         /\ AfterIncrement(x) \in Entry
         /\ AfterReset(x) \in Entry
BY DEF Entry, ReservedNonce, AfterReserve, AfterGet, AfterRelease, AfterIncrement, AfterReset, Higher

LEMMA NatIsEntry == Nat \subseteq Entry /\ NoNonce \in Entry
BY DEF Entry

LEMMA TypeInit == Init => TypeOK
BY ManagerAssumption, NatIsEntry DEF Init, TypeOK, Labels, InLock, Ops, Locks

LEMMA WriteType ==
  ASSUME TypeOK, NEW t \in Threads, NEW v \in Entry, NEW next \in Labels,
         WriteUnlessVanished(t, v, next)
  PROVE  TypeOK'
<1>1. "KeyError" \in Labels
  BY DEF Labels
<1> QED BY <1>1 DEF TypeOK, WriteUnlessVanished, SetNonce, Goto

LEMMA TypeStep == TypeOK /\ [Next]_vars => TypeOK'
<1> SUFFICES ASSUME TypeOK, [Next]_vars PROVE TypeOK'
  OBVIOUS
<1> USE ManagerAssumption, NatIsEntry DEF Goto, SetNonce
<1>l. Labels = {"chain", "test", "commit", "reread", "idle", "lookup", "acquire",
                "clear", "clearing", "KeyError"}
  BY DEF Labels, InLock
<1>1. ASSUME NEW t \in Threads, Call(t) PROVE TypeOK'
  BY <1>1, <1>l DEF TypeOK, Call
<1>2. ASSUME NEW t \in Threads, FindLock(t) PROVE TypeOK'
  BY <1>2, <1>l DEF TypeOK, FindLock, Locks
<1>3. ASSUME NEW t \in Threads, Acquire(t) PROVE TypeOK'
  BY <1>3, <1>l DEF TypeOK, Acquire
<1>4. ASSUME NEW t \in Threads, ReadChain(t) PROVE TypeOK'
  BY <1>4, <1>l DEF TypeOK, ReadChain
<1>5. ASSUME NEW t \in Threads, ReadChainFails(t) \/ Reread(t) PROVE TypeOK'
  BY <1>5, <1>l DEF TypeOK, ReadChainFails, Reread
<1>6. ASSUME NEW t \in Threads, Test(t) PROVE TypeOK'
  BY <1>6, <1>l DEF TypeOK, Test
<1>7. ASSUME NEW t \in Threads, Reserve(t) PROVE TypeOK'
  <2>1. entry[t] \in Entry /\ seen[t] \in Nat /\ addr[t] \in Addresses
    BY DEF TypeOK
  <2>2. ReservedNonce(entry[t], seen[t]) \in Entry /\ AfterReserve(entry[t], seen[t]) \in Entry
    BY <2>1, EntriesStayEntries
  <2> QED BY <1>7, <1>l, <2>1, <2>2 DEF TypeOK, Reserve
<1>8. ASSUME NEW t \in Threads, Get(t) PROVE TypeOK'
  <2>1. nonces[addr[t]] \in Entry /\ seen[t] \in Nat
    BY DEF TypeOK
  <2>2. AfterGet(IF entry[t] = NoNonce THEN NoNonce ELSE nonces[addr[t]], seen[t], FALSE) \in Entry
    BY <2>1, EntriesStayEntries
  <2> QED BY <1>8, <1>l, <2>2, WriteType DEF Get
<1>9. ASSUME NEW t \in Threads, Refresh(t) PROVE TypeOK'
  <2>1. AfterGet(NoNonce, seen[t], TRUE) \in Entry
    BY EntriesStayEntries DEF TypeOK
  <2> QED BY <1>9, <1>l, <2>1 DEF TypeOK, Refresh
<1>10. ASSUME NEW t \in Threads, Release(t) PROVE TypeOK'
  <2>1. AfterRelease(entry[t], mine[t][addr[t]]) \in Entry
    BY DEF TypeOK, AfterRelease, Entry
  <2> QED BY <1>10, <1>l, <2>1 DEF TypeOK, Release
<1>11. ASSUME NEW t \in Threads, IncrementOrReset(t) PROVE TypeOK'
  <2>1. nonces[addr[t]] \in Entry
    BY DEF TypeOK
  <2>2. AfterReset(nonces[addr[t]]) \in Entry
    BY DEF AfterReset, Entry
  <2>3. AfterIncrement(nonces[addr[t]]) \in Entry
    BY <2>1 DEF AfterIncrement, Entry
  <2>4. (IF entry[t] = NoNonce THEN nonces[addr[t]]
         ELSE IF op[t] = "reset" THEN AfterReset(nonces[addr[t]])
         ELSE AfterIncrement(nonces[addr[t]])) \in Entry
    BY <2>1, <2>2, <2>3
  <2>5. \E v \in Entry : WriteUnlessVanished(t, v, "idle")
    BY <1>11, <2>4 DEF IncrementOrReset
  <2> QED BY <1>l, <2>5, WriteType
<1>12. ASSUME NEW t \in Threads, ClearNonces(t) \/ ClearLocks(t) PROVE TypeOK'
  <2>1. CASE ClearNonces(t)
    BY <2>1, <1>l DEF TypeOK, ClearNonces
  <2>2. CASE ClearLocks(t)
    <3>1. lockOf' \in [Threads -> Locks] /\ clears' \in Nat /\ locks' \subseteq Addresses
      BY <2>2 DEF TypeOK, ClearLocks
    <3> QED BY <2>2, <1>l, <3>1 DEF TypeOK, ClearLocks
  <2> QED BY <1>12, <2>1, <2>2
<1>13. CASE ChainAdvances
  BY <1>13 DEF TypeOK, ChainAdvances
<1>14. CASE UNCHANGED vars
  BY <1>14 DEF TypeOK, vars
<1> QED
  BY <1>1, <1>2, <1>3, <1>4, <1>5, <1>6, <1>7, <1>8, <1>9, <1>10, <1>11, <1>12, <1>13, <1>14
     DEF Next, Step, Quiet

(* The type invariant holds in every reachable state. *)
THEOREM TypeCorrect == Spec => []TypeOK
BY TypeInit, TypeStep, PTL DEF Spec
-----------------------------------------------------------------------------
(* While clear_all runs alone, the lock a thread has looked up is the one  *)
(* its address has, and two threads hold different ones.                   *)
Looked == InLock \cup {"acquire"}

LockInv ==
  /\ TypeOK
  /\ \A t, u \in Threads :
       t # u /\ pc[t] \in {"clear", "clearing"} => pc[u] \in {"idle", "KeyError"}
  /\ \A t \in Threads : pc[t] \in Looked => lockOf[t] = <<addr[t], clears>>
  /\ MutualExclusion

LEMMA LockInit == Init => LockInv
<1> SUFFICES ASSUME Init PROVE LockInv
  OBVIOUS
<1>1. TypeOK /\ \A t \in Threads : pc[t] = "idle"
  BY TypeInit DEF Init
<1> QED BY <1>1 DEF LockInv, MutualExclusion, Looked, InLock

(* A step of t that leaves the locks alone and takes none.                 *)
LEMMA NoLockTaken ==
  ASSUME LockInv, TypeOK', NEW t \in Threads, NEW l \in Labels, Goto(t, l),
         UNCHANGED <<clears, addr, lockOf>>,
         l \in InLock => pc[t] \in InLock,
         l \in {"clear", "clearing"} => pc[t] \in {"clear", "clearing"},
         l # "acquire",
         pc[t] \notin {"idle", "KeyError"}
  PROVE  LockInv'
<1>1. \A u \in Threads : pc'[u] = IF u = t THEN l ELSE pc[u]
  BY DEF LockInv, TypeOK, Goto
<1>2. \A u \in Threads : pc'[u] \in InLock => pc[u] \in InLock
  BY <1>1
<1>3. \A u \in Threads : pc'[u] \in {"clear", "clearing"} => pc[u] \in {"clear", "clearing"}
  BY <1>1
<1>4. \A u \in Threads : pc[u] \in {"idle", "KeyError"} => pc'[u] = pc[u]
  BY <1>1
<1>5. \A u \in Threads : pc'[u] \in Looked => pc[u] \in Looked
  BY <1>1 DEF Looked
<1>6. MutualExclusion'
  BY <1>2 DEF LockInv, MutualExclusion
<1> QED BY <1>3, <1>4, <1>5, <1>6 DEF LockInv

LEMMA CallKeepsLocks ==
  ASSUME LockInv, TypeOK', ~ClearAnyTime, NEW t \in Threads, Call(t)
  PROVE  LockInv'
<1>1. PICK o \in Ops, a \in Addresses :
        /\ MayStart(o)
        /\ addr' = [addr EXCEPT ![t] = a]
        /\ Goto(t, IF o = "clear" THEN "clear" ELSE "lookup")
  BY DEF Call
<1>2. pc[t] = "idle" /\ UNCHANGED <<clears, lockOf>>
  BY DEF Call
<1>3. \A u \in Threads : u # t => pc'[u] = pc[u] /\ addr'[u] = addr[u]
  BY <1>1 DEF LockInv, TypeOK, Goto
<1>4. pc'[t] = IF o = "clear" THEN "clear" ELSE "lookup"
  BY <1>1 DEF LockInv, TypeOK, Goto
<1>5. \A u \in Threads :
        IF o = "clear" THEN pc[u] \in {"idle", "KeyError"} ELSE pc[u] \notin {"clear", "clearing"}
  BY <1>1 DEF MayStart
<1>6. \A u \in Threads : pc'[u] \in Looked => u # t
  BY <1>4 DEF Looked, InLock
<1>7. MutualExclusion'
  BY <1>3, <1>6 DEF LockInv, MutualExclusion, Looked
<1> QED BY <1>2, <1>3, <1>4, <1>5, <1>6, <1>7 DEF LockInv

LEMMA FindLockKeepsLocks ==
  ASSUME LockInv, TypeOK', NEW t \in Threads, FindLock(t)
  PROVE  LockInv'
<1>1. /\ pc[t] = "lookup" /\ UNCHANGED <<addr, clears>>
      /\ pc' = [pc EXCEPT ![t] = "acquire"]
      /\ lockOf' = [lockOf EXCEPT ![t] = <<addr[t], clears>>]
  BY DEF FindLock, Goto
<1>2. \A u \in Threads : u # t => pc'[u] = pc[u] /\ lockOf'[u] = lockOf[u]
  BY <1>1 DEF LockInv, TypeOK
<1>3. pc'[t] = "acquire" /\ lockOf'[t] = <<addr[t], clears>>
  BY <1>1 DEF LockInv, TypeOK
<1>4. MutualExclusion'
  BY <1>1, <1>2, <1>3 DEF LockInv, MutualExclusion, InLock
<1> QED BY <1>1, <1>2, <1>3, <1>4 DEF LockInv

(* The lock that is free is the address's own.                             *)
LEMMA AcquireKeepsLocks ==
  ASSUME LockInv, TypeOK', NEW t \in Threads, Acquire(t)
  PROVE  LockInv'
<1>1. /\ pc[t] = "acquire" /\ LockFree(lockOf[t]) /\ UNCHANGED <<addr, clears, lockOf>>
      /\ pc'[t] \in {"chain", "test"}
      /\ \A u \in Threads : u # t => pc'[u] = pc[u]
  BY DEF Acquire, Goto, LockInv, TypeOK
<1>2. \A u \in Threads : pc[u] \in InLock => addr[u] # addr[t]
  BY <1>1 DEF LockInv, LockFree, Looked
<1>3. MutualExclusion'
  BY <1>1, <1>2 DEF LockInv, MutualExclusion, InLock
<1>4. \A u \in Threads : pc'[u] \in Looked => pc[u] \in Looked
  BY <1>1 DEF Looked
<1> QED BY <1>1, <1>3, <1>4 DEF LockInv

LEMMA ClearLocksKeepsLocks ==
  ASSUME LockInv, TypeOK', NEW t \in Threads, ClearLocks(t)
  PROVE  LockInv'
<1>1. /\ pc[t] = "clearing" /\ UNCHANGED <<addr, lockOf>>
      /\ pc'[t] = "idle"
      /\ \A u \in Threads : u # t => pc'[u] = pc[u]
  BY DEF ClearLocks, Goto, LockInv, TypeOK
<1>2. \A u \in Threads : pc'[u] \in {"idle", "KeyError"}
  BY <1>1 DEF LockInv
<1> QED BY <1>2 DEF LockInv, MutualExclusion, Looked, InLock

LEMMA LockStep ==
  ASSUME ~ClearAnyTime
  PROVE  LockInv /\ [Next]_vars => LockInv'
<1> SUFFICES ASSUME LockInv, [Next]_vars PROVE LockInv'
  OBVIOUS
<1>t. TypeOK'
  BY TypeStep DEF LockInv
<1>1. ASSUME NEW t \in Threads, Call(t) PROVE LockInv'
  BY <1>1, <1>t, CallKeepsLocks
<1>2. ASSUME NEW t \in Threads, FindLock(t) PROVE LockInv'
  BY <1>2, <1>t, FindLockKeepsLocks
<1>3. ASSUME NEW t \in Threads, Acquire(t) PROVE LockInv'
  BY <1>3, <1>t, AcquireKeepsLocks
<1>4. ASSUME NEW t \in Threads, ClearLocks(t) PROVE LockInv'
  BY <1>4, <1>t, ClearLocksKeepsLocks
<1>5. ASSUME NEW t \in Threads,
             \/ ReadChain(t) \/ ReadChainFails(t) \/ Test(t) \/ Reserve(t) \/ Get(t) \/ Refresh(t)
             \/ Reread(t) \/ Release(t) \/ IncrementOrReset(t) \/ ClearNonces(t)
      PROVE LockInv'
  <2>1. /\ UNCHANGED <<clears, addr, lockOf>>
        /\ \/ /\ pc[t] \in InLock
              /\ \E l \in {"test", "idle", "commit", "reread", "KeyError"} : Goto(t, l)
           \/ pc[t] = "clear" /\ Goto(t, "clearing")
    BY <1>5 DEF ReadChain, ReadChainFails, Test, Reserve, Get, Refresh, Reread, Release,
                IncrementOrReset, ClearNonces, WriteUnlessVanished, InLock
  <2>2. CASE pc[t] \in InLock /\ \E l \in {"test", "idle", "commit", "reread", "KeyError"} : Goto(t, l)
    <3> PICK l \in {"test", "idle", "commit", "reread", "KeyError"} : Goto(t, l)
      BY <2>2
    <3> QED BY <1>t, <2>1, <2>2, NoLockTaken DEF Labels, InLock
  <2>3. CASE pc[t] = "clear" /\ Goto(t, "clearing")
    BY <1>t, <2>1, <2>3, NoLockTaken DEF Labels, InLock
  <2> QED BY <2>1, <2>2, <2>3
<1>6. CASE ChainAdvances \/ UNCHANGED vars
  BY <1>6, <1>t DEF ChainAdvances, vars, LockInv, MutualExclusion
<1> QED
  BY <1>1, <1>2, <1>3, <1>4, <1>5, <1>6 DEF Next, Step, Quiet

LEMMA LocksKept ==
  ASSUME ~ClearAnyTime
  PROVE  Spec => []LockInv
BY LockInit, LockStep, PTL DEF Spec

(* As long as clear_all runs alone, at most one thread at a time works on  *)
(* an address's counter (nonce.py 32-35).                                  *)
THEOREM OneThreadPerAddress ==
  ASSUME ~ClearAnyTime
  PROVE  Spec => []MutualExclusion
<1>1. LockInv => MutualExclusion
  BY DEF LockInv
<1> QED BY <1>1, LocksKept, PTL
-----------------------------------------------------------------------------
(* What a thread has read inside the lock still stands when it writes.     *)
Reads == {"reserve", "get", "refresh"}

Consistent(t) ==
  /\ pc[t] = "commit" => entry[t] = nonces[addr[t]]
  /\ pc[t] \in {"test", "commit"} /\ op[t] \in Reads => seen[t] <= pending[addr[t]]
  /\ pc[t] = "reread" => nonces[addr[t]] # NoNonce
  /\ pc[t] \in {"lookup", "acquire", "chain", "test", "commit"} /\ op[t] = "release"
       => mine[t][addr[t]] # NoNonce
  /\ pc[t] # "KeyError"

CounterInv == LockInv /\ \A t \in Threads : Consistent(t)

LEMMA CounterInit == Init => CounterInv
BY LockInit DEF Init, CounterInv, Consistent

LEMMA OthersConsistent ==
  ASSUME CounterInv, NEW t \in Threads, NEW u \in Threads, u # t,
         pc'[u] = pc[u], op'[u] = op[u], addr'[u] = addr[u], entry'[u] = entry[u],
         seen'[u] = seen[u], mine'[u] = mine[u], pending' = pending,
         pc[u] \in InLock => nonces'[addr[u]] = nonces[addr[u]]
  PROVE  Consistent(u)'
BY DEF CounterInv, Consistent, InLock

(* A write under the address lock is out of the others' sight.             *)
LEMMA WriteIsLocal ==
  ASSUME CounterInv, NEW t \in Threads, NEW u \in Threads, u # t,
         pc[t] \in InLock, pc[u] \in InLock, NEW v, SetNonce(t, v)
  PROVE  nonces'[addr[u]] = nonces[addr[u]]
<1>1. addr[u] # addr[t]
  BY DEF CounterInv, LockInv, MutualExclusion
<1> QED BY <1>1 DEF SetNonce, CounterInv, LockInv, TypeOK

LEMMA NothingVanishes ==
  ASSUME CounterInv, NEW t \in Threads, pc[t] = "commit"
  PROVE  ~Vanished(t)
BY DEF CounterInv, Consistent, Vanished

(* Steps before the write: nonces and mine do not change.                  *)
LEMMA ReadingStep ==
  ASSUME CounterInv, TypeOK', NEW t \in Threads,
         \/ FindLock(t) \/ Acquire(t) \/ ReadChain(t) \/ ReadChainFails(t) \/ Test(t) \/ Reread(t)
         \/ ClearLocks(t)
  PROVE  /\ \A u \in Threads : Consistent(u)'
         /\ UNCHANGED <<nonces, mine, pending>>
<1> USE DEF Goto
<1>0. TypeOK
  BY DEF CounterInv, LockInv
<1>1. UNCHANGED <<nonces, mine, pending, op, addr>>
  BY DEF FindLock, Acquire, ReadChain, ReadChainFails, Test, Reread, ClearLocks
<1>2. ASSUME NEW u \in Threads, u # t PROVE Consistent(u)'
  <2>1. pc'[u] = pc[u] /\ entry'[u] = entry[u] /\ seen'[u] = seen[u]
    BY <1>0, <1>2 DEF TypeOK, FindLock, Acquire, ReadChain, ReadChainFails, Test, Reread, ClearLocks
  <2> QED BY <1>1, <1>2, <2>1, OthersConsistent
<1>3. Consistent(t)'
  <2> USE <1>0, <1>1 DEF CounterInv, Consistent, TypeOK
  <2>1. CASE FindLock(t)
    BY <2>1 DEF FindLock
  <2>2. CASE Acquire(t)
    <3>1. pc'[t] = IF op[t] \in Reads THEN "chain" ELSE "test"
      BY <2>2 DEF Acquire, Reads
    <3> QED BY <2>2, <3>1 DEF Acquire
  <2>3. CASE ReadChain(t)
    BY <2>3 DEF ReadChain
  <2>4. CASE ReadChainFails(t)
    BY <2>4 DEF ReadChainFails
  <2>5. CASE Test(t)
    BY <2>5 DEF Test
  <2>6. CASE Reread(t)
    BY <2>6 DEF Reread
  <2>7. CASE ClearLocks(t)
    BY <2>7 DEF ClearLocks
  <2> QED BY <2>1, <2>2, <2>3, <2>4, <2>5, <2>6, <2>7
<1> QED BY <1>1, <1>2, <1>3

LEMMA CallIsConsistent ==
  ASSUME CounterInv, TypeOK', NEW t \in Threads, Call(t)
  PROVE  /\ \A u \in Threads : Consistent(u)'
         /\ UNCHANGED <<nonces, mine, pending>>
<1>0. TypeOK
  BY DEF CounterInv, LockInv
<1>1. PICK o \in Ops, a \in Addresses :
        /\ o = "release" => mine[t][a] # NoNonce
        /\ op' = [op EXCEPT ![t] = o]
        /\ addr' = [addr EXCEPT ![t] = a]
        /\ pc' = [pc EXCEPT ![t] = IF o = "clear" THEN "clear" ELSE "lookup"]
  BY DEF Call, Goto
<1>2. UNCHANGED <<nonces, mine, pending, entry, seen>>
  BY DEF Call
<1>3. ASSUME NEW u \in Threads, u # t PROVE Consistent(u)'
  <2>1. pc'[u] = pc[u] /\ op'[u] = op[u] /\ addr'[u] = addr[u]
    BY <1>0, <1>1, <1>3 DEF TypeOK
  <2> QED BY <1>2, <1>3, <2>1, OthersConsistent
<1>4. Consistent(t)'
  <2>1. pc'[t] \in {"clear", "lookup"} /\ op'[t] = o /\ addr'[t] = a
    BY <1>0, <1>1 DEF TypeOK
  <2> QED BY <1>1, <1>2, <2>1 DEF Consistent
<1> QED BY <1>2, <1>3, <1>4

LEMMA WritingStep ==
  ASSUME CounterInv, TypeOK', NEW t \in Threads,
         Reserve(t) \/ Get(t) \/ Refresh(t) \/ Release(t) \/ IncrementOrReset(t)
  PROVE  \A u \in Threads : Consistent(u)'
<1>0. TypeOK
  BY DEF CounterInv, LockInv
<1>1. /\ pc[t] = "commit"
      /\ UNCHANGED <<pending, op, addr, entry, seen>>
      /\ \E v : SetNonce(t, v)
      /\ \/ pc' = [pc EXCEPT ![t] = "idle"]
         \/ /\ Get(t) \/ Refresh(t)
            /\ pc' = [pc EXCEPT ![t] = "reread"]
      /\ \A u \in Threads : u # t => mine'[u] = mine[u]
  BY <1>0, NothingVanishes
     DEF Reserve, Get, Refresh, Release, IncrementOrReset, WriteUnlessVanished, Goto, TypeOK, Vanished
<1>2. ASSUME NEW u \in Threads, u # t PROVE Consistent(u)'
  <2>1. pc'[u] = pc[u]
    BY <1>0, <1>1, <1>2 DEF TypeOK
  <2>2. pc[u] \in InLock => nonces'[addr[u]] = nonces[addr[u]]
    BY <1>1, <1>2, WriteIsLocal DEF InLock
  <2> QED BY <1>1, <1>2, <2>1, <2>2, OthersConsistent
<1>3. Consistent(t)'
  <2>1. CASE pc' = [pc EXCEPT ![t] = "idle"]
    BY <1>0, <2>1 DEF TypeOK, Consistent
  <2>2. CASE (Get(t) \/ Refresh(t)) /\ pc' = [pc EXCEPT ![t] = "reread"]
    <3>1. seen[t] \in Nat /\ addr[t] \in Addresses /\ nonces[addr[t]] \in Entry
      BY <1>0 DEF TypeOK
    <3>2. nonces'[addr[t]] \in Nat
      <4>1. CASE Get(t)
        <5>1. AfterGet(IF entry[t] = NoNonce THEN NoNonce ELSE nonces[addr[t]], seen[t], FALSE) \in Nat
          BY <3>1, EntriesStayEntries, NatIsEntry
        <5>2. SetNonce(t, AfterGet(IF entry[t] = NoNonce THEN NoNonce ELSE nonces[addr[t]],
                                   seen[t], FALSE))
          BY <1>1, <4>1, NothingVanishes DEF Get, WriteUnlessVanished
        <5> QED BY <1>0, <3>1, <5>1, <5>2 DEF SetNonce, TypeOK
      <4>2. CASE Refresh(t)
        <5>1. AfterGet(NoNonce, seen[t], TRUE) \in Nat
          BY <3>1, EntriesStayEntries, NatIsEntry
        <5> QED BY <1>0, <3>1, <4>2, <5>1 DEF Refresh, SetNonce, TypeOK
      <4> QED BY <2>2, <4>1, <4>2
    <3>3. pc'[t] = "reread" /\ addr'[t] = addr[t]
      BY <1>0, <1>1, <2>2 DEF TypeOK
    <3> QED BY <3>2, <3>3, NoNonceAssumption DEF Consistent
  <2> QED BY <1>1, <2>1, <2>2
<1> QED BY <1>2, <1>3

LEMMA CounterStep ==
  ASSUME ~ClearAnyTime
  PROVE  CounterInv /\ [Next]_vars => CounterInv'
<1> SUFFICES ASSUME CounterInv, [Next]_vars PROVE \A u \in Threads : Consistent(u)'
  BY LockStep DEF CounterInv
<1>0. TypeOK /\ TypeOK'
  BY TypeStep DEF CounterInv, LockInv
<1>1. ASSUME NEW t \in Threads, Call(t) PROVE \A u \in Threads : Consistent(u)'
  BY <1>0, <1>1, CallIsConsistent
<1>2. ASSUME NEW t \in Threads, Step(t) PROVE \A u \in Threads : Consistent(u)'
  <2>1. CASE ClearNonces(t)
    <3>1. /\ pc[t] = "clear" /\ pc'[t] = "clearing"
          /\ \A u \in Threads : u # t => pc'[u] = pc[u]
          /\ UNCHANGED <<pending, op, addr, entry, seen, mine>>
      BY <1>0, <2>1 DEF ClearNonces, Goto, TypeOK
    <3>2. ASSUME NEW u \in Threads, u # t PROVE Consistent(u)'
      <4>1. pc[u] \notin InLock
        BY <3>1, <3>2 DEF CounterInv, LockInv, InLock
      <4> QED BY <3>1, <3>2, <4>1, OthersConsistent
    <3>3. Consistent(t)'
      BY <3>1 DEF Consistent
    <3> QED BY <3>2, <3>3
  <2> QED BY <1>0, <1>2, <2>1, ReadingStep, WritingStep DEF Step
<1>3. CASE ChainAdvances
  <2>1. /\ \A a \in Addresses : pending[a] <= pending'[a]
        /\ UNCHANGED <<nonces, pc, op, addr, seen, entry, mine>>
    BY <1>0, <1>3 DEF ChainAdvances, TypeOK
  <2>2. ASSUME NEW u \in Threads PROVE Consistent(u)'
    <3>1. seen[u] \in Nat /\ addr[u] \in Addresses
      BY <1>0 DEF TypeOK
    <3>2. /\ pending[addr[u]] \in Nat /\ pending'[addr[u]] \in Nat
          /\ pending[addr[u]] <= pending'[addr[u]]
      BY <1>0, <2>1, <3>1, ManagerAssumption DEF TypeOK
    <3>3. seen[u] <= pending[addr[u]] => seen[u] <= pending'[addr[u]]
      BY <3>1, <3>2
    <3> QED BY <2>1, <3>3 DEF CounterInv, Consistent
  <2> QED BY <2>2
<1>4. CASE UNCHANGED vars
  BY <1>4 DEF vars, CounterInv, Consistent
<1> QED
  BY <1>1, <1>2, <1>3, <1>4 DEF Next, Quiet

LEMMA CounterKept ==
  ASSUME ~ClearAnyTime
  PROVE  Spec => []CounterInv
BY CounterInit, CounterStep, PTL DEF Spec

(* As long as clear_all runs alone, no operation finds that the key it has *)
(* just seen is gone (nonce.py 29).                                        *)
THEOREM NoKeyErrorEver ==
  ASSUME ~ClearAnyTime
  PROVE  Spec => []NoKeyError
<1>1. CounterInv => NoKeyError
  BY DEF CounterInv, Consistent, NoKeyError
<1> QED BY <1>1, CounterKept, PTL
-----------------------------------------------------------------------------
(* Each write is one operation of the abstract counter; every other step   *)
(* leaves the counter and what a thread may hand back as they are.         *)
abstractVars == <<nonces, mine, pending>>

(* The abstract counter's own copy of NonceCache computes the same.        *)
LEMMA SameOperators ==
  ASSUME NEW x, NEW p, NEW force
  PROVE  /\ Atomic!ReservedNonce(x, p) = ReservedNonce(x, p)
         /\ Atomic!AfterReserve(x, p) = AfterReserve(x, p)
         /\ Atomic!AfterGet(x, p, force) = AfterGet(x, p, force)
         /\ Atomic!AfterRelease(x, p) = AfterRelease(x, p)
         /\ Atomic!AfterIncrement(x) = AfterIncrement(x)
         /\ Atomic!AfterReset(x) = AfterReset(x)
BY DEF Higher, ReservedNonce, AfterReserve, AfterGet, AfterRelease, AfterIncrement, AfterReset,
       Atomic!Higher, Atomic!ReservedNonce, Atomic!AfterReserve, Atomic!AfterGet,
       Atomic!AfterRelease, Atomic!AfterIncrement, Atomic!AfterReset

LEMMA InitRefines == Init => Atomic!Init
BY DEF Init, Atomic!Init

LEMMA ReserveRefines ==
  ASSUME CounterInv, NEW t \in Threads, Reserve(t)
  PROVE  Atomic!Reserve(t, addr[t])
<1>1. /\ pc[t] = "commit" /\ op[t] = "reserve" /\ UNCHANGED pending
      /\ SetNonce(t, AfterReserve(entry[t], seen[t]))
      /\ mine' = [mine EXCEPT ![t][addr[t]] = ReservedNonce(entry[t], seen[t])]
  BY DEF Reserve
<1>2. entry[t] = nonces[addr[t]] /\ seen[t] <= pending[addr[t]]
  BY <1>1 DEF CounterInv, Consistent, Reads
<1>3. seen[t] \in 0 .. pending[addr[t]]
  BY <1>2, ManagerAssumption DEF CounterInv, LockInv, TypeOK
<1> QED BY <1>1, <1>2, <1>3, SameOperators DEF SetNonce, Atomic!Reserve, Atomic!Set

LEMMA GetRefines ==
  ASSUME CounterInv, NEW t \in Threads, Get(t) \/ Refresh(t)
  PROVE  \E force \in BOOLEAN : Atomic!Read(addr[t], force)
<1>1. pc[t] = "commit" /\ op[t] \in Reads /\ UNCHANGED <<pending, mine>>
  BY DEF Get, Refresh, WriteUnlessVanished, Reads
<1>2. entry[t] = nonces[addr[t]] /\ seen[t] <= pending[addr[t]]
  BY <1>1 DEF CounterInv, Consistent
<1>3. seen[t] \in 0 .. pending[addr[t]]
  BY <1>2, ManagerAssumption DEF CounterInv, LockInv, TypeOK
<1>4. CASE Get(t)
  <2>1. SetNonce(t, AfterGet(IF entry[t] = NoNonce THEN NoNonce ELSE nonces[addr[t]], seen[t], FALSE))
    BY <1>1, <1>4, NothingVanishes DEF Get, WriteUnlessVanished
  <2>2. SetNonce(t, AfterGet(nonces[addr[t]], seen[t], FALSE))
    BY <1>2, <2>1
  <2>3. Atomic!Read(addr[t], FALSE)
    BY <1>1, <1>3, <2>2, SameOperators DEF SetNonce, Atomic!Read, Atomic!Set
  <2> QED BY <2>3
<1>5. CASE Refresh(t)
  <2>1. AfterGet(NoNonce, seen[t], TRUE) = AfterGet(nonces[addr[t]], seen[t], TRUE)
    BY DEF AfterGet
  <2>2. SetNonce(t, AfterGet(nonces[addr[t]], seen[t], TRUE))
    BY <1>5, <2>1 DEF Refresh
  <2>3. Atomic!Read(addr[t], TRUE)
    BY <1>1, <1>3, <2>2, SameOperators DEF SetNonce, Atomic!Read, Atomic!Set
  <2> QED BY <2>3
<1> QED BY <1>4, <1>5

LEMMA ReleaseRefines ==
  ASSUME CounterInv, NEW t \in Threads, Release(t)
  PROVE  Atomic!Release(t, addr[t])
<1>1. /\ pc[t] = "commit" /\ op[t] = "release" /\ UNCHANGED pending
      /\ SetNonce(t, AfterRelease(entry[t], mine[t][addr[t]]))
      /\ mine' = [mine EXCEPT ![t][addr[t]] = NoNonce]
  BY DEF Release
<1>2. entry[t] = nonces[addr[t]] /\ mine[t][addr[t]] # NoNonce
  BY <1>1 DEF CounterInv, Consistent
<1> QED BY <1>1, <1>2, SameOperators DEF SetNonce, Atomic!Release, Atomic!Set

LEMMA IncrementOrResetRefines ==
  ASSUME CounterInv, NEW t \in Threads, IncrementOrReset(t)
  PROVE  Atomic!Increment(addr[t]) \/ Atomic!Reset(addr[t]) \/ UNCHANGED abstractVars
<1>1. /\ pc[t] = "commit" /\ UNCHANGED <<pending, mine>>
      /\ SetNonce(t, IF entry[t] = NoNonce THEN nonces[addr[t]]
                     ELSE IF op[t] = "reset" THEN AfterReset(nonces[addr[t]])
                     ELSE AfterIncrement(nonces[addr[t]]))
  BY NothingVanishes DEF IncrementOrReset, WriteUnlessVanished
<1>2. CASE entry[t] = NoNonce
  <2>1. SetNonce(t, nonces[addr[t]])
    BY <1>1, <1>2
  <2>2. nonces' = nonces
    BY <2>1 DEF SetNonce, CounterInv, LockInv, TypeOK
  <2> QED BY <1>1, <2>2 DEF abstractVars
<1>3. CASE entry[t] # NoNonce /\ op[t] = "reset"
  <2>1. SetNonce(t, AfterReset(nonces[addr[t]]))
    BY <1>1, <1>3
  <2> QED BY <1>1, <2>1, SameOperators DEF SetNonce, Atomic!Reset, Atomic!Set
<1>4. CASE entry[t] # NoNonce /\ op[t] # "reset"
  <2>1. SetNonce(t, AfterIncrement(nonces[addr[t]]))
    BY <1>1, <1>4
  <2> QED BY <1>1, <2>1, SameOperators DEF SetNonce, Atomic!Increment, Atomic!Set
<1> QED BY <1>2, <1>3, <1>4

LEMMA StepRefines ==
  ASSUME CounterInv, TypeOK', [Next]_vars
  PROVE  [Atomic!Next]_abstractVars
<1>1. ASSUME NEW t \in Threads, Call(t) PROVE UNCHANGED abstractVars
  BY <1>1, CallIsConsistent DEF abstractVars
<1>2. ASSUME NEW t \in Threads, Step(t) PROVE [Atomic!Next]_abstractVars
  <2>a. addr[t] \in Addresses
    BY DEF CounterInv, LockInv, TypeOK
  <2>1. CASE Reserve(t)
    BY <2>a, <2>1, ReserveRefines DEF Atomic!Next
  <2>2. CASE Get(t) \/ Refresh(t)
    BY <2>a, <2>2, GetRefines DEF Atomic!Next
  <2>3. CASE Release(t)
    BY <2>a, <2>3, ReleaseRefines DEF Atomic!Next
  <2>4. CASE IncrementOrReset(t)
    BY <2>a, <2>4, IncrementOrResetRefines DEF Atomic!Next
  <2>5. CASE ClearNonces(t)
    <3>1. Atomic!Clear
      BY <2>5 DEF ClearNonces, Atomic!Clear
    <3> QED BY <3>1 DEF Atomic!Next
  <2>6. CASE \/ FindLock(t) \/ Acquire(t) \/ ReadChain(t) \/ ReadChainFails(t) \/ Test(t)
             \/ Reread(t) \/ ClearLocks(t)
    BY <2>6, ReadingStep DEF abstractVars
  <2> QED BY <1>2, <2>1, <2>2, <2>3, <2>4, <2>5, <2>6 DEF Step
<1>3. CASE ChainAdvances
  <2>1. \E a \in Addresses : Atomic!Advance(a)
    BY <1>3 DEF ChainAdvances, Atomic!Advance
  <2> QED BY <2>1 DEF Atomic!Next
<1>4. CASE UNCHANGED vars
  BY <1>4 DEF vars, abstractVars
<1> QED BY <1>1, <1>2, <1>3, <1>4 DEF Next, Quiet

(* To its callers every operation acts in one step between its call and    *)
(* its return, as long as clear_all runs alone (nonce.py 36-40).           *)
THEOREM ImplementsAtomicCounter ==
  ASSUME ~ClearAnyTime
  PROVE  Spec => ActsAtomically
<1>1. CounterInv /\ CounterInv' /\ [Next]_vars => [Atomic!Next]_abstractVars
  BY StepRefines DEF CounterInv, LockInv
<1> QED BY <1>1, InitRefines, CounterKept, PTL DEF Spec, ActsAtomically, Atomic!Spec, abstractVars
=============================================================================
