-------------------------- MODULE ConnectionProofs --------------------------
(* Theorems about Connection, for any number of threads, chains and URLs. *)
EXTENDS Connection, TLAPS

LEMMA NothingIsNotAUrl == Nothing \notin Urls /\ Nothing \notin Chains
BY ConnectionAssumption

LEMMA TypeInit == Init => TypeOK
BY ConnectionAssumption DEF Init, TypeOK, NothingYet, Labels, Ops, Results

Parts == [url : Urls \cup {Nothing}, abi : Chains \cup {Nothing}, address : Chains \cup {Nothing}]

(* A part of the result, and where the call goes from there.               *)
LEMMA PartType ==
  ASSUME NEW g \in [Threads -> Parts], NEW t \in Threads, NEW u \in Urls \cup {Nothing},
         NEW c \in Chains \cup {Nothing}
  PROVE  /\ [g EXCEPT ![t]["url"] = u] \in [Threads -> Parts]
         /\ [g EXCEPT ![t]["abi"] = c] \in [Threads -> Parts]
         /\ [g EXCEPT ![t]["address"] = c] \in [Threads -> Parts]
<1>1. /\ [g[t] EXCEPT !["url"] = u] \in Parts
      /\ [g[t] EXCEPT !["abi"] = c] \in Parts
      /\ [g[t] EXCEPT !["address"] = c] \in Parts
  BY DEF Parts
<1> QED BY <1>1

Collected ==
  /\ got \in [Threads -> Parts]
  /\ pc \in [Threads -> Labels]
  /\ result \in [Threads -> Results]

LEMMA ObtainType ==
  ASSUME Collected, NEW t \in Threads, NEW part,
         \/ \E u \in Urls \cup {Nothing} : Obtain(t, "url", u, part)
         \/ \E c \in Chains \cup {Nothing} : Obtain(t, "abi", c, part)
         \/ \E c \in Chains \cup {Nothing} : Obtain(t, "address", c, part)
  PROVE  Collected'
<1>0. got \in [Threads -> Parts]
  BY DEF Collected
<1>1. got' \in [Threads -> Parts]
  <2>1. CASE \E u \in Urls \cup {Nothing} : Obtain(t, "url", u, part)
    <3>1. PICK u \in Urls \cup {Nothing} : got' = [got EXCEPT ![t]["url"] = u]
      BY <2>1 DEF Obtain
    <3> QED BY <1>0, <3>1, PartType
  <2>2. CASE \E c \in Chains \cup {Nothing} : Obtain(t, "abi", c, part)
    <3>1. PICK c \in Chains \cup {Nothing} : got' = [got EXCEPT ![t]["abi"] = c]
      BY <2>2 DEF Obtain
    <3> QED BY <1>0, <3>1, PartType
  <2>3. CASE \E c \in Chains \cup {Nothing} : Obtain(t, "address", c, part)
    <3>1. PICK c \in Chains \cup {Nothing} : got' = [got EXCEPT ![t]["address"] = c]
      BY <2>3 DEF Obtain
    <3> QED BY <1>0, <3>1, PartType
  <2> QED BY <2>1, <2>2, <2>3
<1>2. After(t, part) \in Labels
  BY DEF After, Labels
<1>3. \/ pc' = [pc EXCEPT ![t] = "idle"] /\ result' = [result EXCEPT ![t] = "ok"]
      \/ pc' = [pc EXCEPT ![t] = After(t, part)] /\ result' = result
  BY DEF Obtain, Return, Goto
<1>4. pc' \in [Threads -> Labels] /\ result' \in [Threads -> Results]
  BY <1>2, <1>3 DEF Collected, Labels, Results
<1> QED BY <1>1, <1>4 DEF Collected

LEMMA TypeStep == TypeOK /\ [Next]_vars => TypeOK'
<1> SUFFICES ASSUME TypeOK, [Next]_vars PROVE TypeOK'
  OBVIOUS
<1> DEFINE Rest ==
      /\ current \in Chains
      /\ rpc \in [Chains -> Urls]
      /\ abis \in [Chains -> Chains \cup {Nothing}]
      /\ instances \in [Chains -> Urls \cup {Nothing}]
      /\ dialed \subseteq Urls
      /\ op \in [Threads -> Ops]
      /\ target \in [Threads -> Chains]
      /\ url \in [Threads -> Urls]
      /\ key \in [Threads -> Chains]
      /\ calls \in 0 .. MaxCalls
      /\ raced \subseteq Chains
<1> DEFINE Skips(t) ==
      /\ got' = got
      /\ \E l \in Labels : pc' = [pc EXCEPT ![t] = l]
      /\ \/ result' = result
         \/ \E r \in Results : result' = [result EXCEPT ![t] = r]
<1>a. Rest /\ Collected
  BY DEF TypeOK, Collected, Parts
<1>b. Rest' /\ Collected' => TypeOK'
  BY DEF TypeOK, Collected, Parts
<1> USE NothingIsNotAUrl DEF Labels, Ops, Results, Goto, Return, At, NoteRaces
<1>1. ASSUME NEW c \in Chains, SetChain(c) PROVE TypeOK'
  BY <1>1, <1>a, <1>b, ConnectionAssumption DEF SetChain, locals, Collected
<1>2. ASSUME NEW t \in Threads, NEW o \in Ops \ {"none"}, NEW c \in Chains, NEW u \in Urls,
             Begin(t, o, c, u)
      PROVE  TypeOK'
  <2>1. FirstStep(o) \in Labels
    BY DEF FirstStep
  <2>2. Rest'
    BY <1>2, <1>a, ConnectionAssumption DEF Begin, shared
  <2>3. NothingYet \in Parts
    BY DEF NothingYet, Parts
  <2>4. Collected'
    BY <1>2, <1>a, <2>1, <2>3 DEF Begin, Collected
  <2> QED BY <1>b, <2>2, <2>4
<1>3. ASSUME NEW t \in Threads, TestInstance(t) PROVE TypeOK'
  BY <1>3, <1>a, <1>b DEF TestInstance, shared, Collected
<1>4. ASSUME NEW t \in Threads, TakeInstance(t) PROVE TypeOK'
  <2>1. Rest'
    BY <1>4, <1>a DEF TakeInstance, shared, Collected, Parts
  <2>2. \/ Skips(t)
        \/ \E u \in Urls \cup {Nothing} : Obtain(t, "url", u, "web3")
    BY <1>4, <1>a DEF TakeInstance, Collected, Parts
  <2>3. CASE Skips(t)
    BY <1>b, <1>a, <2>1, <2>3 DEF Collected
  <2>4. CASE \E u \in Urls \cup {Nothing} : Obtain(t, "url", u, "web3")
    BY <1>b, <1>a, <2>1, <2>4, ObtainType
  <2> QED BY <2>2, <2>3, <2>4
<1>5. ASSUME NEW t \in Threads, ReadUrl(t) PROVE TypeOK'
  BY <1>5, <1>a, <1>b DEF ReadUrl, shared, Collected
<1>6. ASSUME NEW t \in Threads, Probe(t) PROVE TypeOK'
  BY <1>6, <1>a, <1>b DEF Probe, shared, Collected
<1>7. ASSUME NEW t \in Threads, StoreInstance(t) PROVE TypeOK'
  <2>1. Rest'
    BY <1>7, <1>a DEF StoreInstance, shared, Collected, Parts
  <2>2. \/ Skips(t)
        \/ \E u \in Urls \cup {Nothing} : Obtain(t, "url", u, "web3")
    BY <1>7, <1>a DEF StoreInstance, Collected, Parts
  <2>3. CASE Skips(t)
    BY <1>b, <1>a, <2>1, <2>3 DEF Collected
  <2>4. CASE \E u \in Urls \cup {Nothing} : Obtain(t, "url", u, "web3")
    BY <1>b, <1>a, <2>1, <2>4, ObtainType
  <2> QED BY <2>2, <2>3, <2>4
<1>8. ASSUME NEW t \in Threads, FindAsync(t) PROVE TypeOK'
  <2>1. Rest'
    BY <1>8, <1>a DEF FindAsync, shared, Collected, Parts
  <2>2. \/ Skips(t)
        \/ \E u \in Urls \cup {Nothing} : Obtain(t, "url", u, "web3")
    BY <1>8, <1>a DEF FindAsync, Collected, Parts
  <2>3. CASE Skips(t)
    BY <1>b, <1>a, <2>1, <2>3 DEF Collected
  <2>4. CASE \E u \in Urls \cup {Nothing} : Obtain(t, "url", u, "web3")
    BY <1>b, <1>a, <2>1, <2>4, ObtainType
  <2> QED BY <2>2, <2>3, <2>4
<1>9. ASSUME NEW t \in Threads, Dial(t) PROVE TypeOK'
  <2>1. Rest'
    BY <1>9, <1>a DEF Dial, shared, Collected, Parts
  <2>2. \/ Skips(t)
        \/ \E u \in Urls \cup {Nothing} : Obtain(t, "url", u, "web3")
    BY <1>9, <1>a DEF Dial, Collected, Parts
  <2>3. CASE Skips(t)
    BY <1>b, <1>a, <2>1, <2>3 DEF Collected
  <2>4. CASE \E u \in Urls \cup {Nothing} : Obtain(t, "url", u, "web3")
    BY <1>b, <1>a, <2>1, <2>4, ObtainType
  <2> QED BY <2>2, <2>3, <2>4
<1>10. ASSUME NEW t \in Threads, FindAbi(t) PROVE TypeOK'
  <2>1. Rest'
    BY <1>10, <1>a DEF FindAbi, shared, Collected, Parts
  <2>2. \/ Skips(t)
        \/ \E c \in Chains \cup {Nothing} : Obtain(t, "abi", c, "abi")
    BY <1>10, <1>a DEF FindAbi, Collected, Parts
  <2>3. CASE Skips(t)
    BY <1>b, <1>a, <2>1, <2>3 DEF Collected
  <2>4. CASE \E c \in Chains \cup {Nothing} : Obtain(t, "abi", c, "abi")
    BY <1>b, <1>a, <2>1, <2>4, ObtainType
  <2> QED BY <2>2, <2>3, <2>4
<1>11. ASSUME NEW t \in Threads, ReadDirectory(t) PROVE TypeOK'
  <2>1. Rest'
    BY <1>11, <1>a DEF ReadDirectory, shared
  <2>2. got' = [got EXCEPT ![t]["abi"] = current]
    BY <1>11 DEF ReadDirectory
  <2>3. got' \in [Threads -> Parts]
    BY <1>a, <2>2, PartType DEF Collected
  <2>4. pc' \in [Threads -> Labels] /\ result' = result
    BY <1>11, <1>a DEF ReadDirectory, Collected
  <2> QED BY <1>a, <1>b, <2>1, <2>3, <2>4 DEF Collected
<1>12. ASSUME NEW t \in Threads, StoreAbi(t) PROVE TypeOK'
  <2>1. Rest'
    BY <1>12, <1>a DEF StoreAbi, shared, Collected, Parts
  <2>2. \/ Skips(t)
        \/ \E c \in Chains \cup {Nothing} : Obtain(t, "abi", c, "abi")
    BY <1>12, <1>a DEF StoreAbi, Collected, Parts
  <2>3. CASE Skips(t)
    BY <1>b, <1>a, <2>1, <2>3 DEF Collected
  <2>4. CASE \E c \in Chains \cup {Nothing} : Obtain(t, "abi", c, "abi")
    BY <1>b, <1>a, <2>1, <2>4, ObtainType
  <2> QED BY <2>2, <2>3, <2>4
<1>13. ASSUME NEW t \in Threads, GetAddress(t) PROVE TypeOK'
  <2>1. Rest'
    BY <1>13, <1>a DEF GetAddress, shared, Collected, Parts
  <2>2. \/ Skips(t)
        \/ \E c \in Chains \cup {Nothing} : Obtain(t, "address", c, "address")
    BY <1>13, <1>a DEF GetAddress, Collected, Parts
  <2>3. CASE Skips(t)
    BY <1>b, <1>a, <2>1, <2>3 DEF Collected
  <2>4. CASE \E c \in Chains \cup {Nothing} : Obtain(t, "address", c, "address")
    BY <1>b, <1>a, <2>1, <2>4, ObtainType
  <2> QED BY <2>2, <2>3, <2>4
<1>14. ASSUME NEW t \in Threads, Vet(t) PROVE TypeOK'
  BY <1>14, <1>a, <1>b DEF Vet, shared, Collected
<1>15. ASSUME NEW t \in Threads, WriteUrl(t) PROVE TypeOK'
  BY <1>15, <1>a, <1>b DEF WriteUrl, shared, Collected
<1>16. ASSUME NEW t \in Threads, TestCached(t) PROVE TypeOK'
  BY <1>16, <1>a, <1>b DEF TestCached, shared, Collected
<1>17. ASSUME NEW t \in Threads, DeleteInstance(t) PROVE TypeOK'
  BY <1>17, <1>a, <1>b DEF DeleteInstance, shared, Collected
<1>18. CASE UNCHANGED vars
  BY <1>18, <1>a, <1>b DEF vars, shared, locals, Collected
<1> QED
  BY <1>1, <1>2, <1>3, <1>4, <1>5, <1>6, <1>7, <1>8, <1>9, <1>10, <1>11, <1>12, <1>13, <1>14, <1>15, <1>16, <1>17, <1>18
     DEF Next, Terminated

(* Every reachable state has values of the right kinds.                    *)
THEOREM TypeCorrect == Spec => []TypeOK
BY TypeInit, TypeStep, PTL DEF Spec
Begins(t) == \E o \in Ops \ {"none"}, c \in Chains, u \in Urls : Begin(t, o, c, u)
-----------------------------------------------------------------------------
(* A URL that is about to be written or stored has passed its probe, or is *)
(* a default one.                                                          *)
VettedFirst ==
  \A t \in Threads :
    /\ pc[t] \in {"write", "store"} => url[t] \notin Dead
    /\ pc[t] = "vet" => op[t] = "set_rpc"

DeadInv == TypeOK /\ DeadUrlNeverUsed /\ VettedFirst


LEMMA DeadInvInit == Init => DeadInv
BY TypeInit, ConnectionAssumption DEF Init, DeadInv, DeadUrlNeverUsed, VettedFirst

LEMMA DeadInvStep == DeadInv /\ [Next]_vars => DeadInv'
<1> SUFFICES ASSUME DeadInv, [Next]_vars PROVE (DeadUrlNeverUsed /\ VettedFirst)'
  BY TypeStep DEF DeadInv
<1> TypeOK /\ DeadUrlNeverUsed /\ VettedFirst
  BY DEF DeadInv
<1> USE ConnectionAssumption DEF DeadUrlNeverUsed, VettedFirst, Goto, Return, Obtain, At
<1>1. ASSUME NEW c \in Chains, SetChain(c) PROVE (DeadUrlNeverUsed /\ VettedFirst)'
  BY <1>1 DEF SetChain, locals
<1>2. ASSUME NEW t \in Threads, Begins(t) PROVE (DeadUrlNeverUsed /\ VettedFirst)'
  BY <1>2 DEF Begins, Begin, shared, FirstStep, TypeOK, Ops
<1>3. ASSUME NEW t \in Threads, TestInstance(t) PROVE (DeadUrlNeverUsed /\ VettedFirst)'
  BY <1>3 DEF TestInstance, shared, After, TypeOK
<1>4. ASSUME NEW t \in Threads, TakeInstance(t) PROVE (DeadUrlNeverUsed /\ VettedFirst)'
  BY <1>4 DEF TakeInstance, shared, After, TypeOK
<1>5. ASSUME NEW t \in Threads, ReadUrl(t) PROVE (DeadUrlNeverUsed /\ VettedFirst)'
  BY <1>5 DEF ReadUrl, shared, After, TypeOK
<1>6. ASSUME NEW t \in Threads, Probe(t) PROVE (DeadUrlNeverUsed /\ VettedFirst)'
  BY <1>6 DEF Probe, shared, After, TypeOK
<1>7. ASSUME NEW t \in Threads, StoreInstance(t) PROVE (DeadUrlNeverUsed /\ VettedFirst)'
  BY <1>7 DEF StoreInstance, shared, After, TypeOK
<1>8. ASSUME NEW t \in Threads, FindAsync(t) PROVE (DeadUrlNeverUsed /\ VettedFirst)'
  BY <1>8 DEF FindAsync, shared, After, TypeOK
<1>9. ASSUME NEW t \in Threads, Dial(t) PROVE (DeadUrlNeverUsed /\ VettedFirst)'
  BY <1>9 DEF Dial, shared, After, TypeOK
<1>10. ASSUME NEW t \in Threads, FindAbi(t) PROVE (DeadUrlNeverUsed /\ VettedFirst)'
  BY <1>10 DEF FindAbi, shared, After, TypeOK
<1>11. ASSUME NEW t \in Threads, ReadDirectory(t) PROVE (DeadUrlNeverUsed /\ VettedFirst)'
  BY <1>11 DEF ReadDirectory, shared, After, TypeOK
<1>12. ASSUME NEW t \in Threads, StoreAbi(t) PROVE (DeadUrlNeverUsed /\ VettedFirst)'
  BY <1>12 DEF StoreAbi, shared, After, TypeOK
<1>13. ASSUME NEW t \in Threads, GetAddress(t) PROVE (DeadUrlNeverUsed /\ VettedFirst)'
  BY <1>13 DEF GetAddress, shared, After, TypeOK
<1>14. ASSUME NEW t \in Threads, Vet(t) PROVE (DeadUrlNeverUsed /\ VettedFirst)'
  BY <1>14 DEF Vet, shared, After, TypeOK
<1>15. ASSUME NEW t \in Threads, WriteUrl(t) PROVE (DeadUrlNeverUsed /\ VettedFirst)'
  BY <1>15 DEF WriteUrl, shared, After, TypeOK
<1>16. ASSUME NEW t \in Threads, TestCached(t) PROVE (DeadUrlNeverUsed /\ VettedFirst)'
  BY <1>16 DEF TestCached, shared, After, TypeOK
<1>17. ASSUME NEW t \in Threads, DeleteInstance(t) PROVE (DeadUrlNeverUsed /\ VettedFirst)'
  BY <1>17 DEF DeleteInstance, shared, After, TypeOK
<1>18. CASE UNCHANGED vars
  BY <1>18 DEF vars, shared, locals
<1> QED
  BY <1>1, <1>2, <1>3, <1>4, <1>5, <1>6, <1>7, <1>8, <1>9, <1>10,
     <1>11, <1>12, <1>13, <1>14, <1>15, <1>16, <1>17, <1>18 DEF Next, Terminated, Begins

(* No URL that nobody answers at is ever committed by set_rpc or pooled,   *)
(* whatever calls overlap.                                                 *)
THEOREM DeadUrlsStayOut == Spec => []DeadUrlNeverUsed
<1>1. DeadInv => DeadUrlNeverUsed
  BY DEF DeadInv
<1> QED BY <1>1, DeadInvInit, DeadInvStep, PTL DEF Spec
-----------------------------------------------------------------------------
(* Calls that overlap an update of their chain's URL are in raced; unless  *)
(* they are, what a call on c has seen of the pool and of the URL is still *)
(* so, and only the update itself may find an old instance.                *)
RacesNoted == \A c \in Chains : Overlap(c) => c \in raced

Settling(t, c) == pc[t] \in {"cached", "delete"} /\ target[t] = c

FreshFor(c) ==
  /\ (\A t \in Threads : ~Settling(t, c)) => instances[c] \in {Nothing, rpc[c]}
  /\ \A t \in Threads : target[t] = c =>
       /\ pc[t] \in {"probe", "store"} => url[t] = rpc[c]
       /\ pc[t] \in {"take", "delete"} => instances[c] # Nothing
       /\ result[t] # "KeyError"

PoolInv == TypeOK /\ RacesNoted /\ \A c \in Chains \ raced : FreshFor(c)


LEMMA PoolInvInit == Init => PoolInv
BY TypeInit, ConnectionAssumption
   DEF Init, PoolInv, RacesNoted, Overlap, Updating, Using, FreshFor, Settling

(* Every step of a call notes the races it finds itself in.                *)
LEMMA RacesStep ==
  ASSUME TypeOK, RacesNoted, [Next]_vars
  PROVE  RacesNoted' /\ raced \subseteq raced'
<1>1. CASE NoteRaces
  BY <1>1 DEF NoteRaces, RacesNoted
<1>2. CASE UNCHANGED <<pc, target, raced>>
  BY <1>2 DEF RacesNoted, Overlap, Updating, Using
<1>3. NoteRaces \/ UNCHANGED <<pc, target, raced>>
  BY DEF Next, SetChain, Begin, Terminated, vars, locals,
         TestInstance, TakeInstance, ReadUrl, Probe, StoreInstance,
         FindAsync, Dial, FindAbi, ReadDirectory, StoreAbi,
         GetAddress, Vet, WriteUrl, TestCached, DeleteInstance
<1> QED BY <1>1, <1>2, <1>3

(* Outside a race, nobody else is in a call on a chain being updated.      *)
LEMMA UpdatesAlone ==
  ASSUME RacesNoted, NEW c \in Chains \ raced, NEW t \in Threads, Updating(t, c),
         NEW u \in Threads, Using(u, c)
  PROVE  u = t
BY DEF RacesNoted, Overlap

LEMMA FreshStep ==
  ASSUME PoolInv, [Next]_vars, NEW c \in Chains \ raced, c \notin raced'
  PROVE  FreshFor(c)'
<1> TypeOK /\ RacesNoted /\ RacesNoted' /\ FreshFor(c)
  BY RacesStep DEF PoolInv
<1>0. ASSUME NEW t \in Threads, NEW u \in Threads, Updating(t, c)', Using(u, c)'
      PROVE  u = t
  BY <1>0 DEF RacesNoted, Overlap
<1>1. ASSUME NEW d \in Chains, SetChain(d) PROVE FreshFor(c)'
  BY <1>1 DEF SetChain, locals, FreshFor, Settling
<1> USE DEF FreshFor, Settling, Updating, Using, Goto, Return, Obtain, At, TypeOK
<1>2. ASSUME NEW t \in Threads, Begins(t) PROVE FreshFor(c)'
  BY <1>2 DEF Begins, Begin, shared, FirstStep, Ops
<1>3. ASSUME NEW t \in Threads, TestInstance(t) PROVE FreshFor(c)'
  BY <1>3, ConnectionAssumption DEF TestInstance, shared, After
<1>4. ASSUME NEW t \in Threads, TakeInstance(t) PROVE FreshFor(c)'
  BY <1>4, ConnectionAssumption DEF TakeInstance, shared, After
<1>5. ASSUME NEW t \in Threads, ReadUrl(t) PROVE FreshFor(c)'
  BY <1>5, ConnectionAssumption DEF ReadUrl, shared, After
<1>6. ASSUME NEW t \in Threads, Probe(t) PROVE FreshFor(c)'
  BY <1>6, ConnectionAssumption DEF Probe, shared, After
<1>7. ASSUME NEW t \in Threads, StoreInstance(t) PROVE FreshFor(c)'
  BY <1>7, ConnectionAssumption DEF StoreInstance, shared, After
<1>8. ASSUME NEW t \in Threads, FindAsync(t) PROVE FreshFor(c)'
  BY <1>8, ConnectionAssumption DEF FindAsync, shared, After
<1>9. ASSUME NEW t \in Threads, Dial(t) PROVE FreshFor(c)'
  BY <1>9, ConnectionAssumption DEF Dial, shared, After
<1>10. ASSUME NEW t \in Threads, FindAbi(t) PROVE FreshFor(c)'
  BY <1>10, ConnectionAssumption DEF FindAbi, shared, After
<1>11. ASSUME NEW t \in Threads, ReadDirectory(t) PROVE FreshFor(c)'
  BY <1>11, ConnectionAssumption DEF ReadDirectory, shared, After
<1>12. ASSUME NEW t \in Threads, StoreAbi(t) PROVE FreshFor(c)'
  BY <1>12, ConnectionAssumption DEF StoreAbi, shared, After
<1>13. ASSUME NEW t \in Threads, GetAddress(t) PROVE FreshFor(c)'
  BY <1>13, ConnectionAssumption DEF GetAddress, shared, After
<1>14. ASSUME NEW t \in Threads, Vet(t) PROVE FreshFor(c)'
  BY <1>14, ConnectionAssumption DEF Vet, shared, After
<1>15. ASSUME NEW t \in Threads, WriteUrl(t) PROVE FreshFor(c)'
  BY <1>15, UpdatesAlone, ConnectionAssumption DEF WriteUrl, shared, After
<1>16. ASSUME NEW t \in Threads, TestCached(t) PROVE FreshFor(c)'
  BY <1>16, UpdatesAlone, ConnectionAssumption DEF TestCached, shared, After
<1>17. ASSUME NEW t \in Threads, DeleteInstance(t) PROVE FreshFor(c)'
  BY <1>17, UpdatesAlone, ConnectionAssumption DEF DeleteInstance, shared, After
<1>18. CASE UNCHANGED vars
  BY <1>18 DEF vars, shared, locals
<1> QED
  BY <1>1, <1>2, <1>3, <1>4, <1>5, <1>6, <1>7, <1>8, <1>9, <1>10,
     <1>11, <1>12, <1>13, <1>14, <1>15, <1>16, <1>17, <1>18 DEF Next, Terminated, Begins

LEMMA PoolInvStep == PoolInv /\ [Next]_vars => PoolInv'
BY TypeStep, RacesStep, FreshStep DEF PoolInv

(* Unless a call overlapped an update of its chain's URL, no instance for  *)
(* an earlier URL stays in the pool.                                       *)
THEOREM PoolStaysFresh == Spec => []PoolIsFresh
<1>1. PoolInv => PoolIsFresh
  BY DEF PoolInv, PoolIsFresh, FreshFor, Settling, Updating
<1> QED BY <1>1, PoolInvInit, PoolInvStep, PTL DEF Spec

(* Test-then-take and test-then-delete raise KeyError only in such a race. *)
THEOREM KeyErrorNeedsRace == Spec => []KeyErrorOnlyRaced
<1>1. PoolInv => KeyErrorOnlyRaced
  BY DEF PoolInv, KeyErrorOnlyRaced, FreshFor, TypeOK
<1> QED BY <1>1, PoolInvInit, PoolInvStep, PTL DEF Spec
-----------------------------------------------------------------------------
(* While calls are under way the current chain stays; everything a call    *)
(* collects is the current chain's, and so is the cache's entry.           *)
Builds(t) == op[t] \in {"contract", "watch"}
HasAbi(t) == pc[t] = "parse" \/ (op[t] = "contract" /\ pc[t] = "address")
HasAddress(t) == op[t] = "watch" /\ pc[t] \in {"abi", "directory", "parse"}

OneChain(t) ==
  /\ pc[t] \in {"abi", "directory", "parse", "address"} => Builds(t)
  /\ pc[t] \in {"vet", "write", "cached", "delete"} => ~Builds(t)
  /\ Builds(t) /\ pc[t] # "idle" => target[t] = current
  /\ pc[t] \in {"directory", "parse"} => key[t] = current
  /\ HasAbi(t) => got[t].abi = current
  /\ HasAddress(t) => got[t].address = current

ChainInv ==
  /\ TypeOK
  /\ \A c \in Chains : abis[c] \in {Nothing, c}
  /\ \A t \in Threads : OneChain(t)
  /\ ContractsOfOneChain

LEMMA ChainInvInit == Init => ChainInv
BY TypeInit DEF Init, ChainInv, OneChain, Builds, HasAbi, HasAddress, ContractsOfOneChain

LEMMA ChainInvStep ==
  ASSUME SwapsAlone
  PROVE  ChainInv /\ [Next]_vars => ChainInv'
<1> DEFINE Inv ==
      /\ \A c \in Chains : abis[c] \in {Nothing, c}
      /\ \A t \in Threads : OneChain(t)
      /\ ContractsOfOneChain
<1> SUFFICES ASSUME ChainInv, [Next]_vars PROVE Inv'
  BY TypeStep DEF ChainInv
<1> TypeOK /\ Inv
  BY DEF ChainInv
<1> USE DEF OneChain, Builds, HasAbi, HasAddress, ContractsOfOneChain,
            Goto, Return, Obtain, After, At, TypeOK
<1>1. ASSUME NEW c \in Chains, SetChain(c) PROVE Inv'
  BY <1>1 DEF SetChain, locals
<1>2. ASSUME NEW t \in Threads, Begins(t) PROVE Inv'
  BY <1>2 DEF Begins, Begin, shared, FirstStep, Ops
<1>3. ASSUME NEW t \in Threads, TestInstance(t) PROVE Inv'
  BY <1>3 DEF TestInstance, shared
<1>4. ASSUME NEW t \in Threads, TakeInstance(t) PROVE Inv'
  BY <1>4 DEF TakeInstance, shared
<1>5. ASSUME NEW t \in Threads, ReadUrl(t) PROVE Inv'
  BY <1>5 DEF ReadUrl, shared
<1>6. ASSUME NEW t \in Threads, Probe(t) PROVE Inv'
  BY <1>6 DEF Probe, shared
<1>7. ASSUME NEW t \in Threads, StoreInstance(t) PROVE Inv'
  BY <1>7 DEF StoreInstance, shared
<1>8. ASSUME NEW t \in Threads, FindAsync(t) PROVE Inv'
  BY <1>8 DEF FindAsync, shared
<1>9. ASSUME NEW t \in Threads, Dial(t) PROVE Inv'
  BY <1>9 DEF Dial, shared
<1>10. ASSUME NEW t \in Threads, FindAbi(t) PROVE Inv'
  BY <1>10, NothingIsNotAUrl DEF FindAbi, shared
<1>11. ASSUME NEW t \in Threads, ReadDirectory(t) PROVE Inv'
  BY <1>11, NothingIsNotAUrl DEF ReadDirectory, shared
<1>12. ASSUME NEW t \in Threads, StoreAbi(t) PROVE Inv'
  BY <1>12, NothingIsNotAUrl DEF StoreAbi, shared
<1>13. ASSUME NEW t \in Threads, GetAddress(t) PROVE Inv'
  BY <1>13 DEF GetAddress, shared
<1>14. ASSUME NEW t \in Threads, Vet(t) PROVE Inv'
  BY <1>14 DEF Vet, shared
<1>15. ASSUME NEW t \in Threads, WriteUrl(t) PROVE Inv'
  BY <1>15 DEF WriteUrl, shared
<1>16. ASSUME NEW t \in Threads, TestCached(t) PROVE Inv'
  BY <1>16 DEF TestCached, shared
<1>17. ASSUME NEW t \in Threads, DeleteInstance(t) PROVE Inv'
  BY <1>17 DEF DeleteInstance, shared
<1>18. CASE UNCHANGED vars
  BY <1>18 DEF vars, shared, locals
<1> QED
  BY <1>1, <1>2, <1>3, <1>4, <1>5, <1>6, <1>7, <1>8, <1>9, <1>10,
     <1>11, <1>12, <1>13, <1>14, <1>15, <1>16, <1>17, <1>18 DEF Next, Terminated, Begins

(* A program that swaps chains only between calls never gets a contract    *)
(* put together from two chains, however its other calls overlap.          *)
THEOREM ContractsNeverMixChains ==
  ASSUME SwapsAlone
  PROVE  Spec => []ContractsOfOneChain
<1>1. ChainInv => ContractsOfOneChain
  BY DEF ChainInv
<1> QED BY <1>1, ChainInvInit, ChainInvStep, PTL DEF Spec
=============================================================================
