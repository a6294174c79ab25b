-------------------------- MODULE TxExecutorProofs --------------------------
(* Theorems about TxExecutor, for any number of executors and attempts, and *)
(* about NonceRepair, which runs the recovery tools beside them.            *)
EXTENDS NonceRepair, TLAPS

LEMMA MaxRetriesPositive == MaxRetries \in Nat \ {0}
BY ExecutorAssumption DEF MaxRetries

LEMMA ReservedNonceIsNat ==
  ASSUME NEW x \in Entry, NEW p \in Nat
  PROVE  ReservedNonce(x, p) \in Nat /\ AfterReserve(x, p) \in Nat
BY DEF Entry, ReservedNonce, AfterReserve, Higher

LEMMA AfterReleaseIsEntry ==
  ASSUME NEW x \in Entry, NEW n \in Nat
  PROVE  AfterRelease(x, n) \in Entry
BY DEF Entry, AfterRelease

LEMMA CountIsNat ==
  ASSUME NEW p \in 0 .. MaxNonce
  PROVE  p \in Nat
BY NodeAssumption

LEMMA MineType ==
  ASSUME NodeTypeOK, Mine
  PROVE  mined' \in 0 .. MaxNonce /\ slot' = slot
BY NodeAssumption DEF NodeTypeOK, Mine, Occupied, Slots

LEMMA RetryType ==
  ASSUME TypeOK, NEW e \in Executors, Retry(e)
  PROVE  /\ attempt' \in [Executors -> 0 .. MaxRetries - 1]
         /\ err' \in [Executors -> Errors]
         /\ pc' \in [Executors -> Labels]
         /\ outcome' \in [Executors -> Outcomes]
<1>1. attempt[e] + 1 \in 0 .. MaxRetries - 1
  BY MaxRetriesPositive DEF TypeOK, Retry, HasRetries
<1> QED BY <1>1 DEF TypeOK, Retry, Goto, Labels, Errors

LEMMA TypeInit == Init => TypeOK
BY MaxRetriesPositive, NodeAssumption, NoNonceAssumption
   DEF Init, TypeOK, NodeInit, NodeTypeOK, Entry, Slots, Labels, Errors, Outcomes

LEMMA TypeStep == TypeOK /\ [Next]_vars => TypeOK'
<1> SUFFICES ASSUME TypeOK, [Next]_vars PROVE TypeOK'
  OBVIOUS
<1> USE DEF TypeOK, NodeTypeOK, nodeVars, Goto, Finish, Labels, Errors, Outcomes
<1>0. abandoned' \subseteq Nat
  <2>1. ASSUME NEW lost \in SUBSET Nat, Remember(lost) PROVE abandoned' \subseteq Nat
    BY <2>1 DEF Remember
  <2>2. \A e \in Executors : {nonce[e]} \subseteq Nat
    OBVIOUS
  <2> QED BY <2>1, <2>2 DEF Next, ThreadStep, Disturbed, Abandoned, Environment, Terminated, vars
<1> USE <1>0
<1>1. ASSUME NEW e \in Executors, CheckBudget(e) PROVE TypeOK'
  BY <1>1 DEF CheckBudget
<1>2. ASSUME NEW e \in Executors, ReadPendingCount(e) PROVE TypeOK'
  <2> PICK p \in 0 .. MaxNonce : seen' = [seen EXCEPT ![e] = p]
    BY <1>2 DEF ReadPendingCount
  <2> p \in Nat
    BY CountIsNat
  <2>1. /\ lock' = e
        /\ pc' = [pc EXCEPT ![e] = "reading"]
        /\ UNCHANGED <<cache, attempt, nonce, broadcast, err, expired, outcome, slot, mined>>
    BY <1>2 DEF ReadPendingCount
  <2> QED BY <2>1
<1>3. ASSUME NEW e \in Executors, ReadFails(e) PROVE TypeOK'
  BY <1>3 DEF ReadFails
<1>4. ASSUME NEW e \in Executors, Reserve(e) PROVE TypeOK'
  BY <1>4, ReservedNonceIsNat DEF Reserve, Unlock, Entry
<1>5. ASSUME NEW e \in Executors, Build(e) PROVE TypeOK'
  BY <1>5 DEF Build
<1>6. ASSUME NEW e \in Executors, BuildFails(e) PROVE TypeOK'
  BY <1>6 DEF BuildFails, FailBeforeBroadcast
<1>7. ASSUME NEW e \in Executors, SendTooLate(e) PROVE TypeOK'
  BY <1>7 DEF SendTooLate, FailBeforeBroadcast
<1>8. ASSUME NEW e \in Executors, Send(e) PROVE TypeOK'
  BY <1>8, ExecutorAssumption DEF Send, Include
<1>9. ASSUME NEW e \in Executors, SendRefused(e) PROVE TypeOK'
  BY <1>9 DEF SendRefused, FailBeforeBroadcast
<1>10. ASSUME NEW e \in Executors, SendFails(e) PROVE TypeOK'
  BY <1>10 DEF SendFails, FailBeforeBroadcast
<1>11. ASSUME NEW e \in Executors, ReplyLost(e) PROVE TypeOK'
  <2> PICK k \in {"transient", "other", "interrupt"} : FailBeforeBroadcast(e, k)
    BY <1>11 DEF ReplyLost
  <2> QED BY <1>11, ExecutorAssumption DEF ReplyLost, FailBeforeBroadcast, Include
<1>12. ASSUME NEW e \in Executors, ReleaseNonce(e) PROVE TypeOK'
  BY <1>12, AfterReleaseIsEntry DEF ReleaseNonce
<1>13. ASSUME NEW e \in Executors, HandleTyped(e) PROVE TypeOK'
  BY <1>13 DEF HandleTyped, GiveUp
<1>14. ASSUME NEW e \in Executors, HandleCollision(e) PROVE TypeOK'
  BY <1>14, RetryType DEF HandleCollision, GiveUp, AfterReset, Entry
<1>15. ASSUME NEW e \in Executors, HandleTransport(e) PROVE TypeOK'
  BY <1>15, RetryType DEF HandleTransport, GiveUp
<1>16. ASSUME NEW e \in Executors, GetReceipt(e) PROVE TypeOK'
  BY <1>16 DEF GetReceipt
<1>17. ASSUME NEW e \in Executors, ReceiptTimesOut(e) PROVE TypeOK'
  BY <1>17 DEF ReceiptTimesOut
<1>18. ASSUME NEW e \in Executors, ReceiptFails(e) PROVE TypeOK'
  BY <1>18 DEF ReceiptFails
<1>19. ASSUME NEW e \in Executors, Interrupt(e) PROVE TypeOK'
  BY <1>19 DEF Interrupt, Unlock, FailBeforeBroadcast
<1>20. ASSUME NEW e \in Executors, Abandon(e) PROVE TypeOK'
  BY <1>20 DEF Abandon
<1>21. ASSUME NEW e \in Executors, DeadlinePasses(e) PROVE TypeOK'
  BY <1>21 DEF DeadlinePasses
<1>22. ASSUME Environment PROVE TypeOK'
  <2>1. CASE Mine
    BY <1>22, <2>1, MineType DEF Environment, execVars
  <2>2. CASE ForeignSend
    <3> PICK n \in Slots : slot' = [slot EXCEPT ![n] = Foreign] /\ UNCHANGED mined
      BY <2>2 DEF ForeignSend, Include
    <3> QED BY <1>22 DEF Environment, execVars
  <2> QED BY <1>22, <2>1, <2>2 DEF Environment
<1>23. CASE UNCHANGED vars
  BY <1>23 DEF vars, execVars
<1> QED
  BY <1>1, <1>2, <1>3, <1>4, <1>5, <1>6, <1>7, <1>8, <1>9, <1>10, <1>11, <1>12,
     <1>13, <1>14, <1>15, <1>16, <1>17, <1>18, <1>19, <1>20, <1>21, <1>22, <1>23
     DEF Next, ThreadStep, Disturbed, Abandoned, Step, SendBreaksOff, Terminated

(* The type invariant holds in every reachable state. *)
THEOREM TypeCorrect == Spec => []TypeOK
BY TypeInit, TypeStep, PTL DEF Spec
-----------------------------------------------------------------------------
(* NoLostNonce is inductive together with what reserve_nonce knows between *)
(* its read of the chain and its write of the cache.                       *)
CountStillValid ==
  \A e \in Executors :
    pc[e] = "reading" => \A n \in mined .. seen[e] - 1 : Occupied(n)

HeldInRange == \A e \in Executors : pc[e] \in {"build", "send"} => nonce[e] \in Slots

BeliefInv == TypeOK /\ CountStillValid /\ HeldInRange
NonceInv == BeliefInv /\ NoLostNonce

(* Every step remembers what is abandoned while the entry is above it.     *)
Recalls ==
  cache' # NoNonce => \A n \in abandoned : n < cache' => n \in abandoned'

LEMMA RememberRecalls ==
  ASSUME NEW lost, Remember(lost)
  PROVE  Recalls
BY DEF Remember, Recalls

(* What a step does that loses no nonce, lost ones or none before it.      *)
LosesNothing == (NoLostNonce => NoLostNonce') /\ (CountStillValid /\ HeldInRange)'

LEMMA OccupiedStays ==
  ASSUME NodeTypeOK, NEW s \in Senders \cup {Foreign}, NEW m \in Slots, Include(s, m),
         NEW n, Occupied(n)
  PROVE  Occupied(n)'
BY NodeAssumption DEF NodeTypeOK, Include, Occupied

LEMMA IncludeOccupies ==
  ASSUME NodeTypeOK, NEW s \in Senders \cup {Foreign}, NEW m \in Slots, Include(s, m)
  PROVE  Occupied(m)'
BY NodeAssumption DEF NodeTypeOK, Include, Occupied

(* A step that leaves the cache and the node alone, starts no read and     *)
(* hands back nothing keeps the invariant.                                 *)
QuietStep ==
  /\ UNCHANGED <<cache, slot, mined, nonce>>
  /\ \A f \in Executors :
       /\ pc[f] \in {"build", "send", "release"} => pc'[f] \in {"build", "send", "release"}
       /\ pc'[f] = "reading" => pc[f] = "reading" /\ seen'[f] = seen[f]
       /\ pc'[f] \in {"build", "send"} => pc[f] \in {"build", "send"}

LEMMA QuietStepKeeps ==
  ASSUME BeliefInv, QuietStep, Recalls
  PROVE  LosesNothing
<1>1. NoLostNonce => NoLostNonce'
  <2> SUFFICES ASSUME NoLostNonce, cache # NoNonce, NEW n \in mined .. cache - 1, Lost(n)'
               PROVE  n \in abandoned'
    BY DEF QuietStep, NoLostNonce
  <2>1. Lost(n)
    BY DEF QuietStep, Lost, Holds, Occupied
  <2>2. n < cache
    BY NodeAssumption DEF BeliefInv, TypeOK, NodeTypeOK, Entry
  <2> QED BY <2>1, <2>2 DEF QuietStep, NoLostNonce, Recalls
<1>2. CountStillValid'
  BY DEF BeliefInv, QuietStep, CountStillValid, Occupied
<1>3. HeldInRange'
  BY DEF BeliefInv, QuietStep, HeldInRange
<1> QED BY <1>1, <1>2, <1>3 DEF LosesNothing

LEMMA QuietActions ==
  ASSUME TypeOK, NEW e \in Executors,
         \/ CheckBudget(e) \/ ReadFails(e) \/ Build(e) \/ BuildFails(e)
         \/ SendTooLate(e) \/ SendRefused(e) \/ SendFails(e)
         \/ HandleTyped(e) \/ HandleTransport(e) \/ GetReceipt(e)
         \/ ReceiptTimesOut(e) \/ ReceiptFails(e)
         \/ Interrupt(e) \/ DeadlinePasses(e)
  PROVE  QuietStep
<1> USE DEF TypeOK, QuietStep, nodeVars, Goto, Finish
<1>1. CASE CheckBudget(e)  BY <1>1 DEF CheckBudget
<1>2. CASE ReadFails(e)  BY <1>2 DEF ReadFails
<1>3. CASE Build(e)  BY <1>3 DEF Build
<1>4. CASE BuildFails(e)  BY <1>4 DEF BuildFails, FailBeforeBroadcast
<1>5. CASE SendTooLate(e)  BY <1>5 DEF SendTooLate, FailBeforeBroadcast
<1>6. CASE SendRefused(e)  BY <1>6 DEF SendRefused, FailBeforeBroadcast
<1>7. CASE SendFails(e)  BY <1>7 DEF SendFails, FailBeforeBroadcast
<1>8. CASE HandleTyped(e)  BY <1>8 DEF HandleTyped, GiveUp
<1>9. CASE HandleTransport(e)  BY <1>9 DEF HandleTransport, GiveUp, Retry
<1>10. CASE GetReceipt(e)  BY <1>10 DEF GetReceipt
<1>11. CASE ReceiptTimesOut(e)  BY <1>11 DEF ReceiptTimesOut
<1>12. CASE ReceiptFails(e)  BY <1>12 DEF ReceiptFails
<1>13. CASE Interrupt(e)  BY <1>13 DEF Interrupt, Unlock, FailBeforeBroadcast
<1>14. CASE DeadlinePasses(e)  BY <1>14 DEF DeadlinePasses
<1> QED BY <1>1, <1>2, <1>3, <1>4, <1>5, <1>6, <1>7, <1>8, <1>9, <1>10, <1>11,
           <1>12, <1>13, <1>14

LEMMA ReadKeeps ==
  ASSUME BeliefInv, Recalls, NEW e \in Executors, ReadPendingCount(e)
  PROVE  LosesNothing
<1>1. PICK p \in 0 .. MaxNonce :
        /\ \A n \in mined .. p - 1 : Occupied(n)
        /\ seen' = [seen EXCEPT ![e] = p]
  BY DEF ReadPendingCount, IsStaleCount, IsPendingCount
<1>2. /\ UNCHANGED <<cache, slot, mined, nonce>>
      /\ pc[e] = "reserve"
      /\ pc' = [pc EXCEPT ![e] = "reading"]
  BY DEF ReadPendingCount, Goto, nodeVars
<1>3. NoLostNonce => NoLostNonce'
  <2> SUFFICES ASSUME NoLostNonce, cache # NoNonce, NEW n \in mined .. cache - 1, Lost(n)'
               PROVE  n \in abandoned'
    BY <1>2 DEF NoLostNonce
  <2>1. Lost(n)
    BY <1>2 DEF BeliefInv, TypeOK, Lost, Holds, Occupied
  <2>2. n < cache
    BY NodeAssumption DEF BeliefInv, TypeOK, NodeTypeOK, Entry
  <2> QED BY <1>2, <2>1, <2>2 DEF NoLostNonce, Recalls
<1>4. CountStillValid'
  BY <1>1, <1>2 DEF BeliefInv, TypeOK, CountStillValid, Occupied
<1>5. HeldInRange'
  BY <1>2 DEF BeliefInv, TypeOK, HeldInRange
<1> QED BY <1>3, <1>4, <1>5 DEF LosesNothing

LEMMA ReserveKeeps ==
  ASSUME BeliefInv, Recalls, NEW e \in Executors, Reserve(e)
  PROVE  LosesNothing
<1>0. PICK r \in Slots : r = ReservedNonce(cache, seen[e])
  BY DEF Reserve
<1>1. /\ UNCHANGED <<slot, mined>>
      /\ pc[e] = "reading"
      /\ pc' = [pc EXCEPT ![e] = "build"]
      /\ nonce' = [nonce EXCEPT ![e] = r]
      /\ seen' = [seen EXCEPT ![e] = 0]
      /\ cache' = r + 1
  BY <1>0 DEF Reserve, Goto, nodeVars, AfterReserve, BeliefInv, TypeOK
<1>2. mined \in Nat /\ r \in Nat /\ seen[e] \in Nat
  BY NodeAssumption DEF BeliefInv, TypeOK, NodeTypeOK, Slots
<1>3. ASSUME NoLostNonce, NEW n \in mined .. r - 1, Lost(n)
      PROVE  n \in abandoned
  <2>1. n >= seen[e]
    BY <1>1, <1>2, <1>3 DEF BeliefInv, CountStillValid, Lost
  <2>2. cache # NoNonce /\ cache \in Nat /\ r = cache
    BY <1>0, <1>2, <1>3, <2>1 DEF BeliefInv, TypeOK, Entry, ReservedNonce, Higher
  <2> QED BY <1>2, <1>3, <2>2 DEF NoLostNonce
<1>4. ASSUME NEW n, Lost(n)'
      PROVE  Lost(n)
  <2>1. pc[e] = "reading"
    BY DEF Reserve
  <2> QED BY <1>1, <1>4, <2>1 DEF BeliefInv, TypeOK, Lost, Holds, Occupied
<1>5. Holds(e, r)'
  BY <1>1 DEF BeliefInv, TypeOK, Holds
<1>6. NoLostNonce => NoLostNonce'
  <2> SUFFICES ASSUME NoLostNonce, NEW n \in mined .. r, Lost(n)'
               PROVE  n \in abandoned'
    BY <1>1, <1>2 DEF NoLostNonce
  <2>1. n # r
    BY <1>5 DEF Lost
  <2>2. n \in mined .. r - 1 /\ n < r + 1
    BY <1>2, <2>1
  <2>3. n \in abandoned
    BY <1>3, <1>4, <2>2
  <2>4. cache' # NoNonce
    BY <1>1, <1>2, NoNonceAssumption
  <2> QED BY <1>1, <2>2, <2>3, <2>4 DEF Recalls
<1>7. CountStillValid'
  BY <1>1 DEF BeliefInv, TypeOK, CountStillValid, Occupied
<1>8. HeldInRange'
  BY <1>1 DEF BeliefInv, TypeOK, HeldInRange
<1> QED BY <1>6, <1>7, <1>8 DEF LosesNothing

(* The node takes a transaction in: the nonce held becomes occupied.       *)
LEMMA IncludeKeeps ==
  ASSUME BeliefInv, Recalls,
         NEW s \in Senders \cup {Foreign}, NEW m \in Slots, Include(s, m),
         UNCHANGED <<cache, seen, nonce>>,
         \A f \in Executors :
           /\ pc[f] \in {"build", "send", "release"}
                => pc'[f] \in {"build", "send", "release"} \/ nonce[f] = m
           /\ pc'[f] = "reading" => pc[f] = "reading"
           /\ pc'[f] \in {"build", "send"} => pc[f] \in {"build", "send"}
  PROVE  LosesNothing
<1>1. mined' = mined /\ NodeTypeOK
  BY DEF Include, BeliefInv, TypeOK
<1>2. \A n : Occupied(n) => Occupied(n)'
  BY <1>1, OccupiedStays
<1>3. Occupied(m)'
  BY <1>1, IncludeOccupies
<1>4. \A n : Lost(n)' => Lost(n)
  BY <1>2, <1>3 DEF Lost, Holds
<1>5. NoLostNonce => NoLostNonce'
  <2> SUFFICES ASSUME NoLostNonce, cache # NoNonce, NEW n \in mined .. cache - 1, Lost(n)'
               PROVE  n \in abandoned'
    BY <1>1 DEF NoLostNonce
  <2>1. n < cache
    BY NodeAssumption DEF BeliefInv, TypeOK, NodeTypeOK, Entry
  <2> QED BY <1>4, <2>1 DEF NoLostNonce, Recalls
<1>6. CountStillValid'
  BY <1>1, <1>2 DEF BeliefInv, CountStillValid
<1>7. HeldInRange'
  BY DEF BeliefInv, HeldInRange
<1> QED BY <1>5, <1>6, <1>7 DEF LosesNothing

LEMMA SendKeeps ==
  ASSUME BeliefInv, Recalls, NEW e \in Executors, Send(e) \/ ReplyLost(e)
  PROVE  LosesNothing
<1>1. pc[e] = "send" /\ nonce[e] \in Slots /\ e \in Senders
  BY ExecutorAssumption DEF Send, ReplyLost, BeliefInv, HeldInRange
<1>2. Include(e, nonce[e]) /\ UNCHANGED <<cache, seen, nonce>>
  BY DEF Send, ReplyLost, FailBeforeBroadcast
<1>3. PICK l \in {"receipt", "release"} : pc' = [pc EXCEPT ![e] = l]
  BY DEF Send, ReplyLost, FailBeforeBroadcast, Goto
<1> QED BY <1>1, <1>2, <1>3, IncludeKeeps DEF BeliefInv, TypeOK

LEMMA ReleaseKeeps ==
  ASSUME BeliefInv, Recalls, NEW e \in Executors, ReleaseNonce(e)
  PROVE  LosesNothing
<1>1. /\ UNCHANGED <<slot, mined, seen, nonce>>
      /\ pc[e] = "release"
      /\ pc' = [pc EXCEPT ![e] = "handle"]
      /\ cache' = AfterRelease(cache, nonce[e])
  BY DEF ReleaseNonce, Goto, nodeVars
<1>2. mined \in Nat /\ nonce[e] \in Nat /\ cache \in Entry
  BY NodeAssumption DEF BeliefInv, TypeOK, NodeTypeOK
<1>3. NoLostNonce => NoLostNonce'
  <2> SUFFICES ASSUME NoLostNonce PROVE NoLostNonce'
    OBVIOUS
  <2>1. CASE cache # nonce[e] + 1
    BY <1>1, <2>1, NoNonceAssumption DEF AfterRelease, NoLostNonce
  <2>2. CASE cache = nonce[e] + 1
    <3>1. cache # NoNonce /\ cache' = nonce[e]
      BY <1>1, <1>2, <2>2, NoNonceAssumption DEF AfterRelease
    <3>2. ASSUME NEW n \in mined .. nonce[e] - 1, Lost(n)'
          PROVE  n \in abandoned'
      <4>1. n # nonce[e] /\ n < nonce[e] /\ n \in mined .. cache - 1
        BY <1>2, <2>2
      <4>2. Lost(n)
        BY <1>1, <3>2, <4>1 DEF BeliefInv, TypeOK, Lost, Holds, Occupied
      <4>3. cache' # NoNonce
        BY <1>2, <3>1, NoNonceAssumption
      <4> QED BY <3>1, <4>1, <4>2, <4>3 DEF NoLostNonce, Recalls
    <3> QED BY <1>1, <3>1, <3>2 DEF NoLostNonce
  <2> QED BY <2>1, <2>2
<1>4. CountStillValid'
  BY <1>1 DEF BeliefInv, TypeOK, CountStillValid, Occupied
<1>5. HeldInRange'
  BY <1>1 DEF BeliefInv, TypeOK, HeldInRange
<1> QED BY <1>3, <1>4, <1>5 DEF LosesNothing

LEMMA CollisionKeeps ==
  ASSUME BeliefInv, Recalls, NEW e \in Executors, HandleCollision(e)
  PROVE  LosesNothing
<1>1. /\ UNCHANGED <<slot, mined, seen, nonce>>
      /\ cache' = NoNonce
  BY DEF HandleCollision, nodeVars, AfterReset
<1>2. PICK l \in {"head", "done"} : pc' = [pc EXCEPT ![e] = l]
  BY DEF HandleCollision, Retry, GiveUp, Finish, Goto
<1>3. NoLostNonce => NoLostNonce'
  BY <1>1 DEF NoLostNonce
<1>4. CountStillValid'
  BY <1>1, <1>2 DEF BeliefInv, TypeOK, CountStillValid, Occupied
<1>5. HeldInRange'
  BY <1>1, <1>2 DEF BeliefInv, TypeOK, HeldInRange
<1> QED BY <1>3, <1>4, <1>5 DEF LosesNothing

LEMMA EnvironmentKeeps ==
  ASSUME BeliefInv, Environment
  PROVE  LosesNothing
<1>1. UNCHANGED <<cache, pc, seen, nonce, abandoned>>
  BY DEF Environment, execVars
<1>r. Recalls
  BY <1>1 DEF Recalls
<1>2. CASE Mine
  <2>1. slot' = slot /\ mined' = mined + 1 /\ mined \in Nat
    BY <1>2, NodeAssumption DEF Mine, BeliefInv, TypeOK, NodeTypeOK
  <2>2. \A k : \A n \in mined' .. k - 1 : n \in mined .. k - 1
    BY <2>1
  <2>3. NoLostNonce => NoLostNonce'
    BY <1>1, <2>1, <2>2 DEF BeliefInv, NoLostNonce, Lost, Holds, Occupied
  <2>4. CountStillValid'
    BY <1>1, <2>1, <2>2 DEF BeliefInv, CountStillValid, Occupied
  <2>5. HeldInRange'
    BY <1>1 DEF BeliefInv, HeldInRange
  <2> QED BY <2>3, <2>4, <2>5 DEF LosesNothing
<1>3. CASE ForeignSend
  <2>1. PICK n \in Slots : Include(Foreign, n)
    BY <1>3 DEF ForeignSend
  <2> QED BY <1>1, <1>r, <2>1, IncludeKeeps
<1> QED BY <1>2, <1>3 DEF Environment

(* A step of the thread itself, an interrupt of it or its deadline.        *)
LEMMA ExecutorKeeps ==
  ASSUME BeliefInv, NEW e \in Executors, ThreadStep(e) \/ Disturbed(e)
  PROVE  LosesNothing
<1>r. Recalls
  BY RememberRecalls DEF ThreadStep, Disturbed
<1>1. CASE Step(e)
  BY <1>1, <1>r, QuietActions, QuietStepKeeps, ReadKeeps, ReserveKeeps, SendKeeps, ReleaseKeeps,
     CollisionKeeps DEF Step, SendBreaksOff, BeliefInv
<1>2. CASE Interrupt(e) \/ DeadlinePasses(e)
  BY <1>2, <1>r, QuietActions, QuietStepKeeps DEF BeliefInv
<1> QED BY <1>1, <1>2 DEF ThreadStep, Disturbed

(* An interrupt that abandons a reservation: the history has it.           *)
LEMMA AbandonKeeps ==
  ASSUME BeliefInv, NEW e \in Executors, Abandoned(e)
  PROVE  LosesNothing
<1>1. /\ UNCHANGED <<cache, slot, mined, seen, nonce>>
      /\ pc' = [pc EXCEPT ![e] = "done"]
  BY DEF Abandoned, Abandon, Finish, Goto, nodeVars
<1>2. cache # NoNonce => \A n \in abandoned \cup {nonce[e]} : n < cache => n \in abandoned'
  BY <1>1 DEF Abandoned, Remember
<1>3. NoLostNonce => NoLostNonce'
  <2> SUFFICES ASSUME NoLostNonce, cache # NoNonce, NEW n \in mined .. cache - 1, Lost(n)'
               PROVE  n \in abandoned'
    BY <1>1 DEF NoLostNonce
  <2>1. n < cache
    BY NodeAssumption DEF BeliefInv, TypeOK, NodeTypeOK, Entry
  <2>2. Lost(n) \/ n = nonce[e]
    BY <1>1 DEF BeliefInv, TypeOK, Lost, Holds, Occupied
  <2> QED BY <1>2, <2>1, <2>2 DEF NoLostNonce
<1>4. CountStillValid' /\ HeldInRange'
  BY <1>1 DEF BeliefInv, TypeOK, CountStillValid, HeldInRange, Occupied
<1> QED BY <1>3, <1>4 DEF LosesNothing

LEMMA StutterKeeps ==
  ASSUME BeliefInv, UNCHANGED vars
  PROVE  LosesNothing
<1>1. QuietStep /\ Recalls
  BY DEF QuietStep, Recalls, vars, execVars, nodeVars
<1> QED BY <1>1, QuietStepKeeps

LEMMA NextKeeps ==
  ASSUME BeliefInv, [Next]_vars
  PROVE  LosesNothing
BY ExecutorKeeps, AbandonKeeps, EnvironmentKeeps, StutterKeeps DEF Next, Terminated

LEMMA NonceInvInit == Init => NonceInv
<1> SUFFICES ASSUME Init PROVE NonceInv
  OBVIOUS
<1> QED BY TypeInit DEF Init, NonceInv, BeliefInv, NoLostNonce, CountStillValid, HeldInRange

LEMMA NonceInvStep == NonceInv /\ [Next]_vars => NonceInv'
<1> SUFFICES ASSUME NonceInv, [Next]_vars PROVE NonceInv'
  OBVIOUS
<1>1. TypeOK'
  BY TypeStep DEF NonceInv, BeliefInv
<1>2. LosesNothing
  BY NextKeeps DEF NonceInv
<1> QED BY <1>1, <1>2 DEF NonceInv, BeliefInv, LosesNothing

(* No nonce below the cached one is lost, whatever goes wrong and however  *)
(* many executors there are, but for those an interrupt took away between  *)
(* the reservation and the try, or in release_nonce's wait for the lock.   *)
THEOREM NonceNeverLost == Spec => []NoLostNonce
<1>1. NonceInv => NoLostNonce
  BY DEF NonceInv
<1> QED BY <1>1, NonceInvInit, NonceInvStep, PTL DEF Spec
-----------------------------------------------------------------------------
(* AtMostOncePublished and OutcomeMatchesChain, provided that no reply of  *)
(* the node is lost.  The invariant follows each executor from unpublished *)
(* to published: the broadcast flag tells the truth, and a retry happens   *)
(* only while nothing is out.                                              *)
Unpublished(e) == \A n \in Slots : slot[n] # e
InBlock(e) == \E n \in Slots : slot[n] = e /\ n < mined
Once(e) == \A m, n \in Slots : slot[m] = e /\ slot[n] = e => m = n

Truthful(e) ==
  /\ outcome[e] \in {"Receipt", "TxRevertError"} => InBlock(e)
  /\ outcome[e] \in {"PublishTimeoutError", "NonceError", "GasError", "Reverted",
                     "raw_exception"}
       => Unpublished(e)

BeforeBroadcast == {"head", "reserve", "reading", "build", "send", "release"}

Honest(e) ==
  /\ Once(e)
  /\ pc[e] \in BeforeBroadcast => Unpublished(e) /\ broadcast[e] = FALSE
  /\ pc[e] = "receipt" => broadcast[e] = TRUE
  /\ pc[e] = "handle" => \/ broadcast[e] = TRUE /\ err[e] \in {"transient", "other"}
                         \/ broadcast[e] = FALSE /\ Unpublished(e)
  /\ pc[e] # "done" => outcome[e] = "none"
  /\ Truthful(e)

PublishInv == TypeOK /\ \A e \in Executors : Honest(e)

SameLocals(f) ==
  pc'[f] = pc[f] /\ broadcast'[f] = broadcast[f] /\ err'[f] = err[f] /\ outcome'[f] = outcome[f]

(* Most steps of an executor touch neither the node nor other executors.   *)
LocalStep(e) ==
  /\ UNCHANGED <<slot, mined>>
  /\ \A f \in Executors \ {e} : SameLocals(f)

LEMMA NodeUnchanged ==
  ASSUME UNCHANGED <<slot, mined>>, NEW f
  PROVE  /\ Unpublished(f)' <=> Unpublished(f)
         /\ InBlock(f)' <=> InBlock(f)
         /\ Once(f)' <=> Once(f)
BY DEF Unpublished, InBlock, Once

LEMMA LocalStepKeeps ==
  ASSUME PublishInv, NEW e \in Executors, LocalStep(e), Honest(e)'
  PROVE  \A f \in Executors : Honest(f)'
<1> SUFFICES ASSUME NEW f \in Executors, f # e PROVE Honest(f)'
  OBVIOUS
<1>1. Honest(f) /\ SameLocals(f) /\ UNCHANGED <<slot, mined>>
  BY DEF PublishInv, LocalStep
<1> QED BY <1>1, NodeUnchanged DEF SameLocals, Honest, Truthful

LEMMA LocalActions ==
  ASSUME PublishInv, NEW e \in Executors,
         \/ CheckBudget(e) \/ ReadPendingCount(e) \/ ReadFails(e) \/ Reserve(e)
         \/ Build(e) \/ BuildFails(e) \/ SendTooLate(e) \/ SendRefused(e) \/ SendFails(e)
         \/ ReleaseNonce(e) \/ HandleTyped(e) \/ HandleCollision(e) \/ HandleTransport(e)
         \/ GetReceipt(e) \/ ReceiptTimesOut(e) \/ ReceiptFails(e)
         \/ Interrupt(e) \/ Abandon(e) \/ DeadlinePasses(e)
  PROVE  LocalStep(e) /\ Honest(e)'
<1>0. TypeOK /\ Honest(e)
  BY DEF PublishInv
<1>a. ASSUME UNCHANGED <<slot, mined>>
      PROVE  /\ Unpublished(e)' <=> Unpublished(e)
             /\ InBlock(e)' <=> InBlock(e)
             /\ Once(e)' <=> Once(e)
  BY <1>a, NodeUnchanged
<1> USE <1>0, <1>a DEF TypeOK, LocalStep, SameLocals, Honest, Truthful, BeforeBroadcast,
                 nodeVars, Goto, Finish
<1>1. CASE CheckBudget(e)  BY <1>1 DEF CheckBudget
<1>2. CASE ReadPendingCount(e)  BY <1>2 DEF ReadPendingCount
<1>3. CASE ReadFails(e)  BY <1>3 DEF ReadFails
<1>4. CASE Reserve(e)  BY <1>4 DEF Reserve
<1>5. CASE Build(e)  BY <1>5 DEF Build
<1>6. CASE BuildFails(e)  BY <1>6 DEF BuildFails, FailBeforeBroadcast
<1>7. CASE SendTooLate(e)  BY <1>7 DEF SendTooLate, FailBeforeBroadcast
<1>8. CASE SendRefused(e)  BY <1>8 DEF SendRefused, FailBeforeBroadcast
<1>9. CASE SendFails(e)  BY <1>9 DEF SendFails, FailBeforeBroadcast
<1>10. CASE ReleaseNonce(e)  BY <1>10 DEF ReleaseNonce
<1>11. CASE HandleTyped(e)  BY <1>11 DEF HandleTyped, GiveUp
<1>12. CASE HandleCollision(e)  BY <1>12 DEF HandleCollision, GiveUp, Retry
<1>13. CASE HandleTransport(e)  BY <1>13 DEF HandleTransport, GiveUp, Retry, Retriable
<1>14. CASE GetReceipt(e)
  <2>1. InBlock(e)
    BY <1>14, NodeAssumption DEF GetReceipt, Mined, InBlock, NodeTypeOK, Slots
  <2> QED BY <1>14, <2>1 DEF GetReceipt
<1>15. CASE ReceiptTimesOut(e)  BY <1>15 DEF ReceiptTimesOut
<1>16. CASE ReceiptFails(e)  BY <1>16 DEF ReceiptFails
<1>17. CASE Interrupt(e)  BY <1>17 DEF Interrupt, FailBeforeBroadcast
<1>18. CASE Abandon(e)  BY <1>18 DEF Abandon
<1>19. CASE DeadlinePasses(e)  BY <1>19 DEF DeadlinePasses
<1> QED BY <1>1, <1>2, <1>3, <1>4, <1>5, <1>6, <1>7, <1>8, <1>9, <1>10, <1>11,
           <1>12, <1>13, <1>14, <1>15, <1>16, <1>17, <1>18, <1>19

(* A transaction enters the node at a nonce that was vacant, or in place   *)
(* of one that is not mined.                                               *)
LEMMA IncludeFrame ==
  ASSUME NodeTypeOK, NEW s \in Senders \cup {Foreign}, NEW m \in Slots, Include(s, m),
         m < mined => ~Occupied(m), NEW f \in Executors, f # s
  PROVE  /\ Unpublished(f) => Unpublished(f)'
         /\ InBlock(f) => InBlock(f)'
         /\ Once(f) => Once(f)'
<1> f # Vacant
  BY ExecutorAssumption, NodeAssumption
<1> QED BY DEF NodeTypeOK, Include, Occupied, Unpublished, InBlock, Once

LEMMA SendHonest ==
  ASSUME PublishInv, NEW e \in Executors, Send(e), NEW f \in Executors
  PROVE  Honest(f)'
<1>1. /\ pc[e] = "send" /\ pc' = [pc EXCEPT ![e] = "receipt"]
      /\ Include(e, nonce[e])
      /\ broadcast' = [broadcast EXCEPT ![e] = TRUE]
      /\ UNCHANGED <<err, outcome, mined>>
      /\ ~(nonce[e] < mined)
  BY DEF Send, Goto, Include, Verdicts, TakesIn
<1>2. TypeOK /\ Honest(e) /\ Honest(f)
  BY DEF PublishInv
<1>3. CASE f = e
  <2>1. Once(e)'
    BY <1>1, <1>2, <1>3 DEF Honest, BeforeBroadcast, Unpublished, Once, Include, TypeOK, NodeTypeOK
  <2> QED BY <1>1, <1>2, <1>3, <2>1 DEF Honest, TypeOK, BeforeBroadcast, Truthful
<1>4. CASE f # e
  <2>1. CASE nonce[e] \in Slots
    <3>1. /\ Unpublished(f) => Unpublished(f)'
          /\ InBlock(f) => InBlock(f)'
          /\ Once(f) => Once(f)'
      BY <1>1, <1>2, <1>4, <2>1, IncludeFrame, ExecutorAssumption DEF TypeOK
    <3> QED BY <1>1, <1>2, <1>4, <3>1 DEF Honest, TypeOK, Truthful
  <2>2. CASE nonce[e] \notin Slots
    <3>1. slot' = slot
      BY <1>1, <1>2, <2>2 DEF Include, TypeOK, NodeTypeOK
    <3> QED BY <1>1, <1>2, <1>4, <3>1, NodeUnchanged DEF Honest, TypeOK, Truthful
  <2> QED BY <2>1, <2>2
<1> QED BY <1>3, <1>4

LEMMA EnvironmentHonest ==
  ASSUME PublishInv, Environment, NEW f \in Executors
  PROVE  Honest(f)'
<1>1. UNCHANGED <<pc, broadcast, err, outcome>> /\ Honest(f) /\ TypeOK
  BY DEF Environment, execVars, PublishInv
<1>2. CASE Mine
  <2>1. slot' = slot /\ mined' = mined + 1 /\ mined \in Nat
    BY <1>1, <1>2, NodeAssumption DEF Mine, TypeOK, NodeTypeOK
  <2>2. InBlock(f) => InBlock(f)'
    <3> SUFFICES ASSUME NEW n \in Slots, slot[n] = f, n < mined PROVE InBlock(f)'
      BY DEF InBlock
    <3>1. n < mined'
      BY <2>1, NodeAssumption DEF Slots
    <3> QED BY <2>1, <3>1 DEF InBlock
  <2>3. (Unpublished(f)' <=> Unpublished(f)) /\ (Once(f)' <=> Once(f))
    BY <2>1 DEF Unpublished, Once
  <2> QED BY <1>1, <2>2, <2>3 DEF Honest, Truthful
<1>3. CASE ForeignSend
  <2>1. PICK n \in Slots : Include(Foreign, n) /\ ~Occupied(n)
    BY <1>3 DEF ForeignSend, IsPendingCount
  <2>2. f # Foreign
    BY ExecutorAssumption, NodeAssumption
  <2>3. /\ Unpublished(f) => Unpublished(f)'
        /\ InBlock(f) => InBlock(f)'
        /\ Once(f) => Once(f)'
    BY <1>1, <2>1, <2>2, IncludeFrame DEF TypeOK
  <2> QED BY <1>1, <2>3 DEF Honest, Truthful
<1> QED BY <1>2, <1>3 DEF Environment

LEMMA PublishInvInit == Init => PublishInv
<1> SUFFICES ASSUME Init PROVE PublishInv
  OBVIOUS
<1>1. \A e \in Executors : e # Vacant
  BY ExecutorAssumption, NodeAssumption
<1> QED BY <1>1, TypeInit DEF Init, NodeInit, PublishInv, Honest, Once, Unpublished, Truthful

LEMMA PublishInvStep ==
  ASSUME "reply_lost" \notin Faults
  PROVE  PublishInv /\ [Next]_vars => PublishInv'
<1> SUFFICES ASSUME PublishInv, [Next]_vars PROVE PublishInv'
  OBVIOUS
<1>1. TypeOK'
  BY TypeStep DEF PublishInv
<1>2. ASSUME NEW e \in Executors,
             ThreadStep(e) \/ Disturbed(e) \/ Abandoned(e)
      PROVE  \A f \in Executors : Honest(f)'
  <2>1. CASE Send(e)
    BY <2>1, SendHonest
  <2>2. CASE ~Send(e)
    BY <1>2, <2>2, LocalActions, LocalStepKeeps DEF ThreadStep, Disturbed, Abandoned, Step, SendBreaksOff, ReplyLost
  <2> QED BY <2>1, <2>2
<1>3. CASE UNCHANGED vars
  <2> SUFFICES ASSUME NEW f \in Executors PROVE Honest(f)'
    BY <1>1 DEF PublishInv
  <2> QED BY <1>3, NodeUnchanged DEF PublishInv, Honest, Truthful, vars, execVars, nodeVars
<1>4. \A f \in Executors : Honest(f)'
  BY <1>2, <1>3, EnvironmentHonest DEF Next, Terminated, PublishInv
<1> QED BY <1>1, <1>4 DEF PublishInv

(* If the node's answers arrive, a call publishes at most one transaction, *)
(* however often it retries and whatever the other executors do.           *)
THEOREM PublishedAtMostOnce ==
  ASSUME "reply_lost" \notin Faults
  PROVE  Spec => []AtMostOncePublished
<1>1. PublishInv => AtMostOncePublished
  BY DEF PublishInv, Honest, Once, AtMostOncePublished, Published
<1> QED BY <1>1, PublishInvInit, PublishInvStep, PTL DEF Spec

(* If the node's answers arrive, how a call ends agrees with the chain: an *)
(* error that promises that nothing was sent is only raised if that is so. *)
THEOREM OutcomeIsTruthful ==
  ASSUME "reply_lost" \notin Faults
  PROVE  Spec => []OutcomeMatchesChain
<1>1. PublishInv => OutcomeMatchesChain
  BY DEF PublishInv, Honest, Truthful, Unpublished, InBlock, OutcomeMatchesChain, Published
<1> QED BY <1>1, PublishInvInit, PublishInvStep, PTL DEF Spec
-----------------------------------------------------------------------------
(* TxExecutor implements PublishOnce, provided that no reply is lost and   *)
(* that no pending transaction is replaced: what a call has broadcast then *)
(* stays at its nonce.                                                     *)
Standing(e) ==
  /\ pc[e] \in {"build", "send"} => nonce[e] \in Slots
  /\ pc[e] = "receipt" => nonce[e] \in Slots /\ slot[nonce[e]] = e

StandingInv == \A e \in Executors : Standing(e)

LEMMA StandingKept ==
  ASSUME TypeOK, StandingInv, NEW e \in Executors,
         \A f \in Executors \ {e} : pc'[f] = pc[f] /\ nonce'[f] = nonce[f],
         \A f \in Executors \ {e}, n \in Slots : slot[n] = f => slot'[n] = f,
         Standing(e)'
  PROVE  StandingInv'
<1> SUFFICES ASSUME NEW f \in Executors, f # e PROVE Standing(f)'
  BY DEF StandingInv
<1>1. Standing(f) /\ pc'[f] = pc[f] /\ nonce'[f] = nonce[f]
  BY DEF StandingInv
<1> QED BY <1>1 DEF Standing, Slots

(* Nothing but Reserve leads to build, nothing but Send to receipt.        *)
LEMMA StandingLocal ==
  ASSUME TypeOK, StandingInv, NEW e \in Executors,
         \/ CheckBudget(e) \/ ReadPendingCount(e) \/ ReadFails(e) \/ Reserve(e)
         \/ Build(e) \/ BuildFails(e) \/ SendTooLate(e) \/ SendRefused(e) \/ SendFails(e)
         \/ ReleaseNonce(e) \/ HandleTyped(e) \/ HandleCollision(e) \/ HandleTransport(e)
         \/ GetReceipt(e) \/ ReceiptTimesOut(e) \/ ReceiptFails(e)
         \/ Interrupt(e) \/ Abandon(e) \/ DeadlinePasses(e)
  PROVE  StandingInv'
<1>1. /\ UNCHANGED slot
      /\ \A f \in Executors \ {e} : pc'[f] = pc[f] /\ nonce'[f] = nonce[f]
  BY DEF TypeOK, nodeVars, Goto, Finish, CheckBudget, ReadPendingCount, ReadFails, Reserve, Build,
         BuildFails, SendTooLate, SendRefused, SendFails, FailBeforeBroadcast, ReleaseNonce,
         HandleTyped, HandleCollision, HandleTransport, GiveUp, Retry, GetReceipt, ReceiptTimesOut,
         ReceiptFails, Interrupt, Abandon, DeadlinePasses
<1>2. Standing(e)'
  <2>0. Standing(e) /\ TypeOK
    BY DEF StandingInv
  <2> USE <2>0 DEF TypeOK, nodeVars, Goto, Finish, Standing
  <2>1. CASE Reserve(e)
    BY <2>1 DEF Reserve
  <2>2. CASE Build(e) \/ DeadlinePasses(e)
    BY <2>2 DEF Build, DeadlinePasses, Slots
  <2>3. CASE CheckBudget(e) \/ ReadPendingCount(e) \/ ReadFails(e) \/ ReleaseNonce(e)
    BY <2>3 DEF CheckBudget, ReadPendingCount, ReadFails, ReleaseNonce
  <2>4. CASE BuildFails(e) \/ SendTooLate(e) \/ SendRefused(e) \/ SendFails(e)
    BY <2>4 DEF BuildFails, SendTooLate, SendRefused, SendFails, FailBeforeBroadcast
  <2>5. CASE HandleTyped(e) \/ HandleCollision(e) \/ HandleTransport(e)
    BY <2>5 DEF HandleTyped, HandleCollision, HandleTransport, GiveUp, Retry
  <2>6. CASE GetReceipt(e) \/ ReceiptTimesOut(e) \/ ReceiptFails(e)
    BY <2>6 DEF GetReceipt, ReceiptTimesOut, ReceiptFails
  <2>7. CASE Interrupt(e) \/ Abandon(e)
    BY <2>7 DEF Interrupt, Abandon, FailBeforeBroadcast
  <2> QED BY <2>1, <2>2, <2>3, <2>4, <2>5, <2>6, <2>7
<1> QED BY <1>1, <1>2, StandingKept

(* Without a replacement a transaction enters at a vacant nonce.           *)
LEMMA SendAtVacant ==
  ASSUME TypeOK, StandingInv, "replacement" \notin Faults, NEW e \in Executors, Send(e)
  PROVE  /\ nonce[e] \in Slots /\ slot[nonce[e]] = Vacant
         /\ slot' = [slot EXCEPT ![nonce[e]] = e]
         /\ pc' = [pc EXCEPT ![e] = "receipt"]
         /\ UNCHANGED <<nonce, outcome>>
<1>1. nonce[e] \in Slots
  BY DEF Send, StandingInv, Standing
<1>2. "accepted" \in Verdicts(e, nonce[e])
  BY DEF Send, TakesIn
<1>3. ~Occupied(nonce[e])
  BY <1>2 DEF Verdicts
<1> QED BY <1>1, <1>3 DEF Send, Include, Occupied, Goto

LEMMA ForeignAtVacant ==
  ASSUME NodeTypeOK, ForeignSend
  PROVE  \A f \in Executors, n \in Slots : slot'[n] = f <=> slot[n] = f
<1>1. PICK n \in Slots : slot' = [slot EXCEPT ![n] = Foreign] /\ slot[n] = Vacant
  BY DEF ForeignSend, IsPendingCount, Include, Occupied
<1>2. Foreign \notin Executors /\ Vacant \notin Executors
  BY NodeAssumption, ExecutorAssumption
<1> QED BY <1>1, <1>2 DEF NodeTypeOK

LEMMA StandingStep ==
  ASSUME "reply_lost" \notin Faults, "replacement" \notin Faults
  PROVE  TypeOK /\ StandingInv /\ [Next]_vars => StandingInv'
<1> SUFFICES ASSUME TypeOK, StandingInv, [Next]_vars PROVE StandingInv'
  OBVIOUS
<1>1. ASSUME NEW e \in Executors, ThreadStep(e) \/ Disturbed(e) \/ Abandoned(e)
      PROVE  StandingInv'
  <2>1. CASE Send(e)
    <3>1. Standing(e)'
      BY <2>1, SendAtVacant DEF Standing, TypeOK, NodeTypeOK
    <3>2. /\ \A f \in Executors \ {e} : pc'[f] = pc[f] /\ nonce'[f] = nonce[f]
          /\ \A f \in Executors \ {e}, n \in Slots : slot[n] = f => slot'[n] = f
      BY <2>1, SendAtVacant, NodeAssumption, ExecutorAssumption DEF TypeOK, NodeTypeOK
    <3> QED BY <3>1, <3>2, StandingKept
  <2>2. CASE ~Send(e)
    BY <1>1, <2>2, StandingLocal DEF ThreadStep, Disturbed, Abandoned, Step, SendBreaksOff, ReplyLost
  <2> QED BY <2>1, <2>2
<1>2. CASE Environment
  <2>1. UNCHANGED <<pc, nonce>> /\ \A f \in Executors, n \in Slots : slot[n] = f => slot'[n] = f
    BY <1>2, ForeignAtVacant DEF Environment, execVars, Mine, TypeOK
  <2> QED BY <2>1 DEF StandingInv, Standing, Slots
<1>3. CASE UNCHANGED vars
  BY <1>3 DEF vars, execVars, nodeVars, StandingInv, Standing, Slots
<1> QED
  BY <1>1, <1>2, <1>3 DEF Next, Terminated

callerVars == <<[e \in Executors |-> Published(e)], outcome>>

(* A call ends once, and only a wait for a receipt times out.              *)
LEMMA EndsOnce ==
  ASSUME PublishInv, NEW e \in Executors,
         \/ CheckBudget(e) \/ ReadPendingCount(e) \/ ReadFails(e) \/ Reserve(e)
         \/ Build(e) \/ BuildFails(e) \/ SendTooLate(e) \/ SendRefused(e) \/ SendFails(e)
         \/ ReleaseNonce(e) \/ HandleTyped(e) \/ HandleCollision(e) \/ HandleTransport(e)
         \/ GetReceipt(e) \/ ReceiptTimesOut(e) \/ ReceiptFails(e)
         \/ Interrupt(e) \/ Abandon(e) \/ DeadlinePasses(e)
  PROVE  \/ UNCHANGED outcome
         \/ /\ outcome[e] = "none"
            /\ \E r \in Outcomes \ {"none"} :
                 /\ outcome' = [outcome EXCEPT ![e] = r]
                 /\ r = "TxReceiptTimeoutError" => pc[e] = "receipt"
<1>0. pc[e] # "done" => outcome[e] = "none"
  BY DEF PublishInv, Honest
<1> USE <1>0 DEF Finish, Outcomes
<1>1. CASE CheckBudget(e) \/ ReadFails(e) \/ GetReceipt(e) \/ ReceiptTimesOut(e)
  BY <1>1 DEF CheckBudget, ReadFails, GetReceipt, ReceiptTimesOut
<1>2. CASE Interrupt(e) \/ Abandon(e)
  BY <1>2 DEF Interrupt, Abandon, FailBeforeBroadcast
<1>3. CASE HandleTyped(e) \/ HandleCollision(e) \/ HandleTransport(e)
  BY <1>3 DEF HandleTyped, HandleCollision, HandleTransport, GiveUp, Retry
<1>4. CASE \/ ReadPendingCount(e) \/ Reserve(e) \/ Build(e) \/ BuildFails(e) \/ SendTooLate(e)
           \/ SendRefused(e) \/ SendFails(e) \/ ReleaseNonce(e) \/ ReceiptFails(e)
           \/ DeadlinePasses(e)
  BY <1>4 DEF ReadPendingCount, Reserve, Build, BuildFails, SendTooLate, SendRefused, SendFails,
              FailBeforeBroadcast, ReleaseNonce, ReceiptFails, DeadlinePasses
<1> QED BY <1>1, <1>2, <1>3, <1>4

LEMMA LocalStepReturns ==
  ASSUME PublishInv, StandingInv, NEW e \in Executors,
         \/ CheckBudget(e) \/ ReadPendingCount(e) \/ ReadFails(e) \/ Reserve(e)
         \/ Build(e) \/ BuildFails(e) \/ SendTooLate(e) \/ SendRefused(e) \/ SendFails(e)
         \/ ReleaseNonce(e) \/ HandleTyped(e) \/ HandleCollision(e) \/ HandleTransport(e)
         \/ GetReceipt(e) \/ ReceiptTimesOut(e) \/ ReceiptFails(e)
         \/ Interrupt(e) \/ Abandon(e) \/ DeadlinePasses(e)
  PROVE  [Promise!Next]_callerVars
<1>1. LocalStep(e) /\ Honest(e)'
  BY LocalActions
<1>2. [f \in Executors |-> Published(f)]' = [f \in Executors |-> Published(f)]
  BY <1>1 DEF LocalStep, Published
<1>3. CASE UNCHANGED outcome
  BY <1>2, <1>3 DEF callerVars
<1>4. ASSUME outcome[e] = "none", NEW r \in Outcomes \ {"none"},
             outcome' = [outcome EXCEPT ![e] = r],
             r = "TxReceiptTimeoutError" => pc[e] = "receipt"
      PROVE  Promise!Return(e)
  <2>1. outcome'[e] = r
    BY <1>4 DEF PublishInv, TypeOK
  <2>2. r \in {"Receipt", "TxRevertError", "TxReceiptTimeoutError"} => Published(e) # {}
    <3>1. r \in {"Receipt", "TxRevertError"} => \E n \in Slots : slot[n] = e
      BY <1>1, <2>1 DEF LocalStep, Honest, Truthful, InBlock
    <3>2. r = "TxReceiptTimeoutError" => \E n \in Slots : slot[n] = e
      BY <1>4 DEF StandingInv, Standing
    <3> QED BY <3>1, <3>2 DEF Published
  <2>3. r \in {"PublishTimeoutError", "Reverted", "NonceError", "GasError", "raw_exception"}
          => Published(e) = {}
    BY <1>1, <2>1 DEF LocalStep, Honest, Truthful, Unpublished, Published
  <2>4. r \in (IF Published(e) = {} THEN Promise!NotSent ELSE Promise!Sent) \cup Promise!Unknown
    BY <2>2, <2>3 DEF Outcomes, Promise!NotSent, Promise!Sent, Promise!Unknown
  <2> QED BY <1>2, <1>4, <2>4 DEF Promise!Return
<1> QED BY <1>3, <1>4, EndsOnce DEF Promise!Next

LEMMA SendPublishes ==
  ASSUME PublishInv, StandingInv, "replacement" \notin Faults, NEW e \in Executors, Send(e)
  PROVE  Promise!Publish(e)
<1>1. /\ nonce[e] \in Slots /\ slot[nonce[e]] = Vacant
      /\ slot' = [slot EXCEPT ![nonce[e]] = e]
      /\ UNCHANGED outcome
  BY SendAtVacant DEF PublishInv
<1>2. pc[e] = "send" /\ Unpublished(e) /\ outcome[e] = "none"
  BY DEF Send, PublishInv, Honest, BeforeBroadcast
<1>3. slot \in [Slots -> Senders \cup {Foreign, Vacant}] /\ Vacant \notin Executors
  BY NodeAssumption, ExecutorAssumption DEF PublishInv, TypeOK, NodeTypeOK
<1>4. Published(e) = {} /\ \A f \in Executors : nonce[e] \notin Published(f)
  BY <1>1, <1>2, <1>3 DEF Unpublished, Published
<1>5. \A f \in Executors : Published(f)' = IF f = e THEN {nonce[e]} ELSE Published(f)
  BY <1>1, <1>2, <1>3 DEF Unpublished, Published
<1>6. [f \in Executors |-> Published(f)]' =
        [[f \in Executors |-> Published(f)] EXCEPT ![e] = {nonce[e]}]
  BY <1>5
<1> QED BY <1>1, <1>2, <1>4, <1>6 DEF Promise!Publish

LEMMA StepKeepsPromise ==
  ASSUME "reply_lost" \notin Faults, "replacement" \notin Faults,
         PublishInv, StandingInv, [Next]_vars
  PROVE  [Promise!Next]_callerVars
<1>1. ASSUME NEW e \in Executors, ThreadStep(e) \/ Disturbed(e) \/ Abandoned(e)
      PROVE  [Promise!Next]_callerVars
  <2>1. CASE Send(e)
    BY <2>1, SendPublishes DEF Promise!Next
  <2>2. CASE ~Send(e)
    BY <1>1, <2>2, LocalStepReturns DEF ThreadStep, Disturbed, Abandoned, Step, SendBreaksOff, ReplyLost
  <2> QED BY <2>1, <2>2
<1>2. CASE Environment
  <2>1. UNCHANGED outcome /\ \A f \in Executors, n \in Slots : slot'[n] = f <=> slot[n] = f
    BY <1>2, ForeignAtVacant DEF Environment, execVars, Mine, PublishInv, TypeOK
  <2>2. \A f \in Executors : Published(f)' = Published(f)
    BY <2>1 DEF Published, Slots
  <2> QED BY <2>1, <2>2 DEF callerVars
<1>3. CASE UNCHANGED vars
  BY <1>3 DEF vars, execVars, nodeVars, callerVars, Published
<1> QED BY <1>1, <1>2, <1>3 DEF Next, Terminated

LEMMA InitKeepsPromise == Init => Promise!Init
<1> SUFFICES ASSUME Init PROVE Promise!Init
  OBVIOUS
<1>1. \A e \in Executors : Published(e) = {}
  BY NodeAssumption, ExecutorAssumption DEF Init, NodeInit, Published
<1> QED BY <1>1 DEF Init, Promise!Init

(* If the node's answers arrive and it replaces nothing, a caller sees a   *)
(* call that publishes at most once and then tells how it ended.           *)
THEOREM KeepsPromise ==
  ASSUME "reply_lost" \notin Faults, "replacement" \notin Faults
  PROVE  Spec => PublishesOnce
<1>1. Init => StandingInv
  BY DEF Init, StandingInv, Standing
<1>2. PublishInv /\ StandingInv /\ [Next]_vars => StandingInv'
  BY StandingStep DEF PublishInv
<1>3. PublishInv /\ StandingInv /\ [Next]_vars => [Promise!Next]_callerVars
  BY StepKeepsPromise
<1> QED BY <1>1, <1>2, <1>3, PublishInvInit, PublishInvStep, InitKeepsPromise, PTL
        DEF Spec, PublishesOnce, Promise!Spec, callerVars
-----------------------------------------------------------------------------
(* Distinct reservations.  As long as nothing fails before the broadcast,  *)
(* the cache stays above every nonce held or used, so no nonce held is     *)
(* ever refused by the node and no reset ever happens.                     *)
FaultsOnceSent == {"slow_receipt", "receipt_error", "status_zero"}

HeldBelowCache ==
  \A e \in Executors, n \in Slots :
    Holds(e, n) => cache # NoNonce /\ n < cache /\ ~Occupied(n)
OccupiedBelowCache == \A n \in Slots : Occupied(n) => cache # NoNonce /\ n < cache
MinedOccupied == \A n \in Slots : n < mined => Occupied(n)
NothingHandedBack ==
  \A e \in Executors :
    /\ pc[e] # "release"
    /\ pc[e] = "handle" => err[e] \in {"transient", "other"}
    /\ expired[e] = FALSE

DistinctInv ==
  /\ TypeOK
  /\ HeldInRange
  /\ ReservationsDistinct
  /\ HeldBelowCache
  /\ OccupiedBelowCache
  /\ MinedOccupied
  /\ NothingHandedBack

LEMMA DistinctInvInit == Init => DistinctInv
<1> SUFFICES ASSUME Init PROVE DistinctInv
  OBVIOUS
<1>1. \A n \in Slots : ~Occupied(n) /\ ~(n < mined)
  BY NodeAssumption DEF Init, NodeInit, Occupied, Slots
<1> QED BY <1>1, TypeInit DEF Init, DistinctInv, HeldInRange, ReservationsDistinct,
           HeldBelowCache, OccupiedBelowCache, MinedOccupied, NothingHandedBack, Holds

(* Steps that change neither the cache nor the node and acquire nothing.   *)
LEMMA DistinctQuiet ==
  ASSUME DistinctInv, TypeOK', UNCHANGED <<cache, slot, mined, nonce>>,
         \A f \in Executors : pc'[f] \in {"build", "send"} => pc[f] \in {"build", "send"},
         NothingHandedBack'
  PROVE  DistinctInv'
<1>1. \A f \in Executors, n \in Slots : Holds(f, n)' => Holds(f, n)
  BY DEF Holds, NothingHandedBack, DistinctInv
<1>2. \A n : Occupied(n)' <=> Occupied(n)
  BY DEF Occupied
<1>3. HeldInRange'
  BY DEF DistinctInv, HeldInRange
<1>4. ReservationsDistinct'
  BY <1>1 DEF DistinctInv, ReservationsDistinct
<1>5. HeldBelowCache' /\ OccupiedBelowCache' /\ MinedOccupied'
  BY <1>1, <1>2 DEF DistinctInv, HeldBelowCache, OccupiedBelowCache, MinedOccupied
<1> QED BY <1>3, <1>4, <1>5 DEF DistinctInv

LEMMA DistinctReserve ==
  ASSUME DistinctInv, TypeOK', NEW e \in Executors, Reserve(e)
  PROVE  DistinctInv'
<1>1. PICK r \in Slots : r = ReservedNonce(cache, seen[e])
  BY DEF Reserve
<1>2. /\ UNCHANGED <<slot, mined, err, expired>>
      /\ pc' = [pc EXCEPT ![e] = "build"]
      /\ nonce' = [nonce EXCEPT ![e] = r]
      /\ cache' = r + 1
  BY <1>1 DEF Reserve, Goto, nodeVars, AfterReserve
<1>3. /\ \A n \in Slots : n \in Nat
      /\ r \in Nat /\ seen[e] \in Nat
      /\ cache # NoNonce => cache \in Nat /\ r >= cache
      /\ cache' # NoNonce
  BY <1>1, <1>2, NoNonceAssumption DEF DistinctInv, TypeOK, Slots, Entry, ReservedNonce, Higher
<1>4. \A n \in Slots : Occupied(n) => n < r
  BY <1>3 DEF DistinctInv, OccupiedBelowCache
<1>5. ASSUME NEW f \in Executors, NEW n \in Slots, Holds(f, n)'
      PROVE  (f = e /\ n = r) \/ (f # e /\ Holds(f, n) /\ n < r)
  <2>1. CASE f = e
    BY <1>2, <1>5, <2>1 DEF Holds, DistinctInv, TypeOK
  <2>2. CASE f # e
    <3>1. Holds(f, n)
      BY <1>2, <1>5, <2>2 DEF Holds, DistinctInv, TypeOK
    <3> QED BY <1>3, <2>2, <3>1 DEF DistinctInv, HeldBelowCache
  <2> QED BY <2>1, <2>2
<1>6. HeldInRange'
  BY <1>1, <1>2 DEF DistinctInv, TypeOK, HeldInRange
<1>7. ReservationsDistinct'
  <2> SUFFICES ASSUME NEW f \in Executors, NEW g \in Executors, NEW n \in Slots,
                      Holds(f, n)', Holds(g, n)'
               PROVE  f = g
    BY DEF ReservationsDistinct
  <2> QED BY <1>3, <1>5 DEF DistinctInv, ReservationsDistinct
<1>8. HeldBelowCache'
  BY <1>2, <1>3, <1>4, <1>5 DEF DistinctInv, HeldBelowCache, Occupied
<1>9. OccupiedBelowCache' /\ MinedOccupied'
  BY <1>2, <1>3, <1>4 DEF DistinctInv, OccupiedBelowCache, MinedOccupied, Occupied
<1>10. NothingHandedBack'
  BY <1>2 DEF DistinctInv, TypeOK, NothingHandedBack
<1> QED BY <1>6, <1>7, <1>8, <1>9, <1>10 DEF DistinctInv

LEMMA DistinctSend ==
  ASSUME DistinctInv, TypeOK', NEW e \in Executors, Send(e)
  PROVE  DistinctInv'
<1>1. PICK m \in Slots : m = nonce[e]
  BY DEF Send, DistinctInv, HeldInRange
<1>2. /\ UNCHANGED <<cache, mined, nonce, err, expired>>
      /\ pc[e] = "send"
      /\ pc' = [pc EXCEPT ![e] = "receipt"]
      /\ slot' = [slot EXCEPT ![m] = e]
  BY <1>1 DEF Send, Goto, Include
<1>3. Holds(e, m) /\ e # Vacant
  BY <1>1, <1>2, ExecutorAssumption, NodeAssumption DEF Holds
<1>4. \A n \in Slots : Occupied(n)' <=> Occupied(n) \/ n = m
  BY <1>2, <1>3 DEF DistinctInv, TypeOK, NodeTypeOK, Occupied
<1>5. \A f \in Executors, n \in Slots : Holds(f, n)' => Holds(f, n) /\ f # e
  BY <1>2 DEF DistinctInv, TypeOK, Holds
<1>6. HeldInRange' /\ NothingHandedBack'
  BY <1>2 DEF DistinctInv, TypeOK, HeldInRange, NothingHandedBack
<1>7. ReservationsDistinct'
  BY <1>5 DEF DistinctInv, ReservationsDistinct
<1>8. HeldBelowCache'
  BY <1>2, <1>3, <1>4, <1>5 DEF DistinctInv, HeldBelowCache, ReservationsDistinct
<1>9. OccupiedBelowCache'
  BY <1>2, <1>3, <1>4 DEF DistinctInv, HeldBelowCache, OccupiedBelowCache
<1>10. MinedOccupied'
  BY <1>2, <1>4 DEF DistinctInv, MinedOccupied
<1> QED BY <1>6, <1>7, <1>8, <1>9, <1>10 DEF DistinctInv

LEMMA DistinctMine ==
  ASSUME DistinctInv, TypeOK', Mine, UNCHANGED execVars
  PROVE  DistinctInv'
<1>1. /\ UNCHANGED <<cache, pc, nonce, err, expired, slot>>
      /\ mined' = mined + 1 /\ mined \in Nat /\ Occupied(mined)
  BY NodeAssumption DEF Mine, execVars, DistinctInv, TypeOK, NodeTypeOK
<1>2. MinedOccupied'
  <2> SUFFICES ASSUME NEW n \in Slots, n < mined' PROVE Occupied(n)'
    BY DEF MinedOccupied
  <2>1. n < mined \/ n = mined
    BY <1>1, NodeAssumption DEF Slots
  <2> QED BY <1>1, <2>1 DEF DistinctInv, MinedOccupied, Occupied
<1> QED BY <1>1, <1>2 DEF DistinctInv, HeldInRange, ReservationsDistinct, HeldBelowCache,
           OccupiedBelowCache, NothingHandedBack, Holds, Occupied

LEMMA DistinctInvStep ==
  ASSUME Faults \subseteq FaultsOnceSent, Deadlined = {}
  PROVE  DistinctInv /\ [Next]_vars => DistinctInv'
<1> SUFFICES ASSUME DistinctInv, [Next]_vars PROVE DistinctInv'
  OBVIOUS
<1>1. TypeOK' /\ TypeOK
  BY TypeStep DEF DistinctInv
<1> USE <1>1 DEF FaultsOnceSent
<1>2. ASSUME NEW e \in Executors, Step(e) PROVE DistinctInv'
  <2>1. CASE Reserve(e)
    BY <2>1, DistinctReserve
  <2>2. CASE Send(e)
    BY <2>2, DistinctSend
  <2>3. CASE \/ CheckBudget(e) \/ ReadPendingCount(e) \/ Build(e) \/ HandleTyped(e)
             \/ HandleTransport(e) \/ GetReceipt(e) \/ ReceiptTimesOut(e) \/ ReceiptFails(e)
    <3>1. UNCHANGED <<cache, slot, mined, nonce, expired>>
      BY <2>3 DEF CheckBudget, ReadPendingCount, Build, HandleTyped, HandleTransport,
                  GetReceipt, ReceiptTimesOut, ReceiptFails, nodeVars
    <3>2. /\ \A f \in Executors : pc'[f] \in {"build", "send"} => pc[f] \in {"build", "send"}
          /\ NothingHandedBack'
      <4> USE DEF DistinctInv, TypeOK, NothingHandedBack, Goto, Finish
      <4>1. CASE CheckBudget(e)  BY <3>1, <4>1 DEF CheckBudget
      <4>2. CASE ReadPendingCount(e)  BY <3>1, <4>2 DEF ReadPendingCount
      <4>3. CASE Build(e)  BY <3>1, <4>3 DEF Build
      <4>4. CASE HandleTyped(e)  BY <3>1, <4>4 DEF HandleTyped, GiveUp
      <4>5. CASE HandleTransport(e)  BY <3>1, <4>5 DEF HandleTransport, GiveUp, Retry
      <4>6. CASE GetReceipt(e)  BY <3>1, <4>6 DEF GetReceipt
      <4>7. CASE ReceiptTimesOut(e)  BY <3>1, <4>7 DEF ReceiptTimesOut
      <4>8. CASE ReceiptFails(e)  BY <3>1, <4>8 DEF ReceiptFails
      <4> QED BY <2>3, <4>1, <4>2, <4>3, <4>4, <4>5, <4>6, <4>7, <4>8
    <3> QED BY <3>1, <3>2, DistinctQuiet
  <2>4. ~(ReadFails(e) \/ BuildFails(e) \/ SendFails(e) \/ ReplyLost(e))
    BY DEF ReadFails, BuildFails, SendFails, ReplyLost
  <2>5. ~(SendTooLate(e) \/ ReleaseNonce(e) \/ HandleCollision(e))
    BY DEF DistinctInv, NothingHandedBack, SendTooLate, ReleaseNonce, HandleCollision
  <2>6. ~SendRefused(e)
    <3> SUFFICES ASSUME pc[e] = "send" PROVE Verdicts(e, nonce[e]) = {"accepted"}
      BY DEF SendRefused, TakesIn
    <3>1. nonce[e] \in Slots /\ Holds(e, nonce[e])
      BY DEF DistinctInv, HeldInRange, Holds
    <3> QED BY <3>1 DEF DistinctInv, HeldBelowCache, MinedOccupied, Verdicts
  <2> QED BY <1>2, <2>1, <2>2, <2>3, <2>4, <2>5, <2>6 DEF Step, SendBreaksOff
<1>3. ASSUME NEW e \in Executors PROVE ~(Interrupt(e) \/ Abandon(e) \/ DeadlinePasses(e))
  BY DEF Interrupt, Abandon, DeadlinePasses
<1>4. CASE Environment
  BY <1>4, DistinctMine DEF Environment
<1>5. CASE UNCHANGED vars
  <2>1. UNCHANGED <<cache, slot, mined, nonce, pc, err, expired>>
    BY <1>5 DEF vars, execVars, nodeVars
  <2> QED BY <2>1, DistinctQuiet DEF DistinctInv, NothingHandedBack
<1> QED BY <1>2, <1>3, <1>4, <1>5
        DEF Next, ThreadStep, Disturbed, Abandoned, Terminated

(* While nothing fails before a broadcast, concurrent executors hold       *)
(* distinct nonces, however many there are.                                *)
THEOREM ReservationsAreDistinct ==
  ASSUME Faults \subseteq FaultsOnceSent, Deadlined = {}
  PROVE  Spec => []ReservationsDistinct
<1>1. DistinctInv => ReservationsDistinct
  BY DEF DistinctInv
<1> QED BY <1>1, DistinctInvInit, DistinctInvStep, PTL DEF Spec
-----------------------------------------------------------------------------
(* The recovery tools beside any executes.  Their steps are the executes'  *)
(* own, a transaction at some nonce, a forgotten cache, or none of these.  *)
ToolAlone == UNCHANGED vars

Replaces(s, n) == Include(s, n) /\ UNCHANGED <<execVars, abandoned>>

ForgetsCache ==
  /\ cache' = NoNonce /\ abandoned' = {}
  /\ lock' \in {lock, NoExecutor}
  /\ UNCHANGED <<nodeVars, pc, attempt, seen, nonce, broadcast, err, expired, outcome>>

LEMMA ToolActions ==
  ASSUME ToolStep
  PROVE  \/ ToolAlone
         \/ ForgetsCache
         \/ Cancel /\ Replaces(Canceller, current)
<1>1. CASE CallTool  BY <1>1 DEF CallTool, ToolAlone
<1>2. CASE ToolReadFails  BY <1>2 DEF ToolReadFails, ToolAlone
<1>3. CASE ReadLatest  BY <1>3 DEF ReadLatest, ToolAlone
<1>4. CASE ReadPending  BY <1>4 DEF ReadPending, ToolAlone
<1>5. CASE ReadCached  BY <1>5 DEF ReadCached, ToolAlone
<1>6. CASE Cancel  BY <1>6 DEF Cancel, Replaces
<1>7. CASE CancelFails  BY <1>7 DEF CancelFails, ToolAlone
<1>8. CASE LeaveLoop  BY <1>8 DEF LeaveLoop, ToolAlone
<1>9. CASE ResetCache  BY <1>9 DEF ResetCache, ForgetsCache, AfterReset
<1>10. CASE ClearAll  BY <1>10 DEF ClearAll, ForgetsCache
<1>11. CASE ReadFinal  BY <1>11 DEF ReadFinal, ToolAlone
<1> QED BY <1>1, <1>2, <1>3, <1>4, <1>5, <1>6, <1>7, <1>8, <1>9, <1>10, <1>11 DEF ToolStep

(* What the tool itself may rely on: what is mined was sent, and while it  *)
(* cancels, every nonce it has yet to cancel is in use.                    *)
RangeInUse == toolPc = "cancel" => \A n \in current .. high - 1 : Occupied(n)

RepairInv ==
  /\ RepairTypeOK
  /\ CountStillValid /\ HeldInRange
  /\ MinedOccupied /\ RangeInUse
  /\ low <= mined
  /\ NoLostNonce

LEMMA RepairSenders ==
  /\ Canceller \in Senders /\ Stuck \in Senders
  /\ Canceller \notin Executors /\ Canceller # Stuck /\ Canceller # Foreign /\ Canceller # Vacant
BY RepairAssumption, NodeAssumption

LEMMA ReturnTypes ==
  ASSUME NEW b \in BOOLEAN, Return(b)
  PROVE  /\ tool' = "none" /\ toolPc' = "done" /\ raised' \in BOOLEAN
         /\ low' \in 0 .. MaxNonce /\ high' \in 0 .. MaxNonce /\ current' \in 0 .. MaxNonce
<1>1. 0 \in 0 .. MaxNonce
  BY NodeAssumption
<1> QED BY <1>1, Zenon DEF Return

LEMMA ToolTypeStep ==
  ASSUME RepairTypeOK, ToolStep
  PROVE  /\ tool' \in Tools \cup {"none"} /\ toolPc' \in ToolLabels
         /\ low' \in 0 .. MaxNonce /\ high' \in 0 .. MaxNonce /\ current' \in 0 .. MaxNonce
         /\ kept' \in 0 .. MaxNonce /\ raised' \in BOOLEAN
<1> USE DEF RepairTypeOK, ToolLabels
<1>0. /\ \A b \in BOOLEAN : Return(b) =>
           /\ tool' = "none" /\ toolPc' = "done" /\ raised' \in BOOLEAN
           /\ low' \in 0 .. MaxNonce /\ high' \in 0 .. MaxNonce /\ current' \in 0 .. MaxNonce
      /\ TRUE \in BOOLEAN /\ FALSE \in BOOLEAN
  BY ReturnTypes, Zenon
<1>1. CASE CallTool
  <2>1. PICK t \in Tools :
          \/ tool' = t /\ toolPc' = FirstLabel(t) /\ UNCHANGED <<low, high, current, raised>>
          \/ Return(TRUE)
    BY <1>1 DEF CallTool
  <2>2. FirstLabel(t) \in ToolLabels
    BY RepairAssumption DEF FirstLabel, RecoveryTools
  <2>3. UNCHANGED kept
    BY <1>1 DEF CallTool
  <2>4. CASE Return(TRUE)
    <3>1. /\ tool' = "none" /\ toolPc' = "done" /\ raised' \in BOOLEAN
          /\ low' \in 0 .. MaxNonce /\ high' \in 0 .. MaxNonce /\ current' \in 0 .. MaxNonce
      BY <1>0, <2>4, Zenon
    <3> QED BY <2>3, <3>1
  <2> QED BY <2>1, <2>2, <2>3, <2>4
<1>2. CASE ToolReadFails \/ ReadCached \/ ReadFinal
  <2>1. \E b \in BOOLEAN : Return(b)
    BY <1>2, Zenon DEF ToolReadFails, ReadCached, ReadFinal
  <2>2. UNCHANGED kept
    BY <1>2 DEF ToolReadFails, ReadCached, ReadFinal
  <2> QED BY <1>0, <2>1, <2>2
<1>3. CASE ReadLatest  BY <1>3 DEF ReadLatest, TypeOK, NodeTypeOK
<1>4. CASE ReadPending  BY <1>4 DEF ReadPending, FirstToCancel
<1>5. CASE Cancel \/ CancelFails
  BY <1>5, NodeAssumption DEF Cancel, CancelFails, KeptFrom, MustCancel
<1>6. CASE LeaveLoop
  BY <1>6, NodeAssumption DEF LeaveLoop
<1>7. CASE ResetCache \/ ClearAll
  <2>1. \/ Return(FALSE)
        \/ toolPc' = "final" /\ UNCHANGED <<tool, low, high, current, raised>>
    BY <1>7 DEF ResetCache, ClearAll
  <2>2. kept' = kept
    BY <1>7 DEF ResetCache, ClearAll
  <2>4. CASE Return(FALSE)
    <3>1. /\ tool' = "none" /\ toolPc' = "done" /\ raised' \in BOOLEAN
          /\ low' \in 0 .. MaxNonce /\ high' \in 0 .. MaxNonce /\ current' \in 0 .. MaxNonce
      BY <1>0, <2>4, Zenon
    <3> QED BY <2>2, <3>1
  <2> QED BY <2>1, <2>2, <2>4
<1> QED BY <1>1, <1>2, <1>3, <1>4, <1>5, <1>6, <1>7 DEF ToolStep

(* A block may take the next transaction, and one may get stuck.           *)
LEMMA NodeActions ==
  ASSUME MineUnlessStuck \/ GetsStuck
  PROVE  /\ Environment \/ \E n \in Slots : Replaces(Stuck, n)
         /\ UNCHANGED <<execVars, abandoned, toolVars>>
BY DEF MineUnlessStuck, GetsStuck, Environment, Replaces

LEMMA ReplacesTypes ==
  ASSUME TypeOK, NEW s \in Senders, NEW n, Replaces(s, n)
  PROVE  TypeOK'
BY DEF TypeOK, NodeTypeOK, Replaces, Include, execVars

LEMMA RepairTypeStep == RepairTypeOK /\ [RepairNext]_repairVars => RepairTypeOK'
<1> SUFFICES ASSUME RepairTypeOK, [RepairNext]_repairVars PROVE RepairTypeOK'
  OBVIOUS
<1>t. TypeOK
  BY DEF RepairTypeOK
<1>1. CASE ExecuteStep
  <2>1. UNCHANGED toolVars
    BY <1>1 DEF ExecuteStep
  <2>2. [Next]_vars
    BY <1>1 DEF ExecuteStep, Next
  <2>3. TypeOK'
    BY <1>t, <2>2, TypeStep
  <2> QED BY <2>1, <2>3 DEF RepairTypeOK, toolVars
<1>2. CASE ToolStep
  <2>1. CASE ToolAlone
    <3>1. TypeOK'
      BY <1>t, <2>1, TypeStep DEF ToolAlone
    <3> QED BY <1>2, <3>1, ToolTypeStep DEF RepairTypeOK
  <2>2. CASE ForgetsCache
    <3>1. TypeOK'
      BY <1>t, <2>2 DEF TypeOK, NodeTypeOK, ForgetsCache, nodeVars, Entry
    <3> QED BY <1>2, <3>1, ToolTypeStep DEF RepairTypeOK
  <2>3. CASE Replaces(Canceller, current)
    <3>1. TypeOK'
      BY <1>t, <2>3, ReplacesTypes, RepairSenders
    <3> QED BY <1>2, <3>1, ToolTypeStep DEF RepairTypeOK
  <2> QED BY <1>2, <2>1, <2>2, <2>3, ToolActions
<1>3. CASE MineUnlessStuck \/ GetsStuck
  <2>1. UNCHANGED toolVars
    BY <1>3, NodeActions
  <2>2. TypeOK'
    <3>1. CASE Environment
      BY <1>t, <3>1, TypeStep DEF Next
    <3>2. CASE \E n \in Slots : Replaces(Stuck, n)
      BY <1>t, <3>2, ReplacesTypes, RepairSenders
    <3> QED BY <1>3, <3>1, <3>2, NodeActions
  <2> QED BY <2>1, <2>2 DEF RepairTypeOK, toolVars
<1>4. CASE UNCHANGED repairVars
  <2>1. TypeOK'
    BY <1>4, <1>t, TypeStep DEF repairVars
  <2> QED BY <1>4, <2>1 DEF RepairTypeOK, repairVars, toolVars
<1> QED BY <1>1, <1>2, <1>3, <1>4 DEF RepairNext, RepairEnded

LEMMA RepairInvInit == RepairInit => RepairInv
<1> SUFFICES ASSUME RepairInit PROVE RepairInv
  OBVIOUS
<1>1. NonceInv
  BY NonceInvInit DEF RepairInit
<1>2. RepairTypeOK
  <2>1. raised \in BOOLEAN
    BY Zenon DEF RepairInit
  <2> QED BY <1>1, <2>1, NodeAssumption
          DEF RepairInit, RepairTypeOK, ToolLabels, NonceInv, BeliefInv
<1>3. mined = 0 /\ low = 0 /\ toolPc = "idle"
  BY DEF RepairInit, Init, NodeInit
<1>4. MinedOccupied /\ RangeInUse
  BY <1>3 DEF MinedOccupied, RangeInUse, Slots
<1> QED BY <1>1, <1>2, <1>3, <1>4 DEF RepairInv, NonceInv, BeliefInv

(* How a nonce changes hands: an executor, another wallet or the stuck     *)
(* transaction takes it, or a cancellation does.                           *)
LEMMA SlotMoves ==
  ASSUME [Next]_vars
  PROVE  slot' = slot \/ \E s \in Executors \cup {Foreign} : \E n : Include(s, n)
<1>1. CASE \E e \in Executors : ThreadStep(e)
  <2> PICK e \in Executors : Step(e)
    BY <1>1 DEF ThreadStep
  <2>1. CASE Send(e) \/ ReplyLost(e)
    BY <2>1 DEF Send, ReplyLost
  <2>2. CASE ~(Send(e) \/ ReplyLost(e))
    BY <2>2 DEF Step, SendBreaksOff, CheckBudget, ReadPendingCount, ReadFails, Reserve, Build,
                BuildFails, SendTooLate, SendRefused, SendFails, ReleaseNonce, HandleTyped,
                HandleCollision, HandleTransport, GetReceipt, ReceiptTimesOut, ReceiptFails, nodeVars
  <2> QED BY <2>1, <2>2
<1>2. CASE \E e \in Executors : Disturbed(e) \/ Abandoned(e)
  BY <1>2 DEF Disturbed, Abandoned, Interrupt, Abandon, FailBeforeBroadcast, DeadlinePasses, nodeVars
<1>3. CASE Environment
  BY <1>3 DEF Environment, Mine, ForeignSend
<1>4. CASE UNCHANGED vars
  BY <1>4 DEF vars, nodeVars
<1> QED BY <1>1, <1>2, <1>3, <1>4 DEF Next, Terminated

LEMMA MinedMoves ==
  ASSUME [Next]_vars
  PROVE  mined' = mined \/ Mine
<1>1. CASE \E e \in Executors : ThreadStep(e)
  BY <1>1 DEF ThreadStep, Step, SendBreaksOff, CheckBudget, ReadPendingCount, ReadFails, Reserve, Build,
              BuildFails, SendTooLate, SendRefused, SendFails, ReleaseNonce, HandleTyped, Send,
              ReplyLost, Include,
              HandleCollision, HandleTransport, GetReceipt, ReceiptTimesOut, ReceiptFails, nodeVars
<1>2. CASE \E e \in Executors : Disturbed(e) \/ Abandoned(e)
  BY <1>2 DEF Disturbed, Abandoned, Interrupt, Abandon, FailBeforeBroadcast, DeadlinePasses, nodeVars
<1>3. CASE Environment
  BY <1>3 DEF Environment, ForeignSend, Include
<1>4. CASE UNCHANGED vars
  BY <1>4 DEF vars, nodeVars
<1> QED BY <1>1, <1>2, <1>3, <1>4 DEF Next, Terminated

(* A step of the repair is one of the executes' module, or the tool's.     *)
LEMMA RepairActions ==
  ASSUME [RepairNext]_repairVars
  PROVE  \/ [Next]_vars /\ (UNCHANGED toolVars \/ (ToolStep /\ ToolAlone))
         \/ ToolStep /\ ForgetsCache
         \/ Cancel /\ Replaces(Canceller, current)
         \/ (\E n \in Slots : Replaces(Stuck, n)) /\ UNCHANGED toolVars
<1>1. CASE ExecuteStep
  <2>1. Next
    BY <1>1 DEF ExecuteStep, Next
  <2> QED BY <1>1, <2>1 DEF ExecuteStep
<1>2. CASE ToolStep
  <2>1. CASE ToolAlone
    <3>1. [Next]_vars
      BY <2>1 DEF ToolAlone
    <3> QED BY <1>2, <2>1, <3>1
  <2> QED BY <1>2, <2>1, ToolActions
<1>3. CASE MineUnlessStuck \/ GetsStuck
  <2>1. CASE Environment
    <3>1. Next
      BY <2>1 DEF Next
    <3> QED BY <1>3, <3>1, NodeActions
  <2> QED BY <1>3, <2>1, NodeActions
<1>4. CASE UNCHANGED repairVars
  <2>1. UNCHANGED vars /\ UNCHANGED toolVars
    BY <1>4 DEF repairVars
  <2>2. [Next]_vars
    BY <2>1
  <2> QED BY <2>1, <2>2
<1> QED BY <1>1, <1>2, <1>3, <1>4 DEF RepairNext, RepairEnded

LEMMA OccupiedGrows ==
  ASSUME RepairTypeOK, [RepairNext]_repairVars, NEW n, Occupied(n)
  PROVE  Occupied(n)'
<1>1. CASE slot' = slot
  BY <1>1 DEF Occupied
<1>2. CASE \E s \in Senders \cup {Foreign} : \E m : Include(s, m)
  BY <1>2, NodeAssumption DEF RepairTypeOK, TypeOK, NodeTypeOK, Include, Occupied
<1>3. CASE [Next]_vars
  BY <1>1, <1>2, <1>3, SlotMoves, ExecutorAssumption
<1> QED BY <1>1, <1>2, <1>3, RepairActions, RepairSenders DEF ForgetsCache, Replaces, nodeVars

LEMMA MinedGrows ==
  ASSUME RepairTypeOK, [RepairNext]_repairVars
  PROVE  mined' = mined \/ Mine
BY RepairActions, MinedMoves DEF ForgetsCache, Replaces, Include, nodeVars

LEMMA MinedOccupiedStep ==
  ASSUME RepairInv, [RepairNext]_repairVars
  PROVE  MinedOccupied' /\ low <= mined' /\ mined <= mined'
<1>1. mined \in Nat /\ low \in Nat /\ low <= mined
  BY NodeAssumption DEF RepairInv, RepairTypeOK, TypeOK, NodeTypeOK
<1>2. \A n : Occupied(n) => Occupied(n)'
  BY OccupiedGrows DEF RepairInv
<1>3. CASE mined' = mined
  BY <1>1, <1>2, <1>3 DEF RepairInv, MinedOccupied
<1>4. CASE Mine
  <2>1. mined' = mined + 1 /\ Occupied(mined)
    BY <1>4 DEF Mine
  <2> QED BY <1>1, <1>2, <2>1 DEF RepairInv, MinedOccupied, Slots
<1> QED BY <1>3, <1>4, MinedGrows DEF RepairInv

(* The tool's own range: it starts at a count it has read and ends below a *)
(* later one, so that every nonce in it was mined or pending meanwhile.    *)
LEMMA RangeStep ==
  ASSUME RepairInv, [RepairNext]_repairVars
  PROVE  RangeInUse' /\ low' <= mined'
<1>1. /\ mined \in Nat /\ low \in Nat /\ high \in Nat /\ current \in Nat
      /\ low <= mined' /\ mined' \in Nat
  BY NodeAssumption, MinedOccupiedStep, RepairTypeStep
     DEF RepairInv, RepairTypeOK, TypeOK, NodeTypeOK
<1>2. \A n : Occupied(n) => Occupied(n)'
  BY OccupiedGrows DEF RepairInv
<1>3. CASE UNCHANGED toolVars
  BY <1>1, <1>2, <1>3 DEF RepairInv, RangeInUse, toolVars
<1>4. CASE ToolStep
  <2>1. CASE toolPc' = "cancel" /\ toolPc = "pending"
    <3>0. ReadPending
      BY <1>4, <2>1 DEF ToolStep, CallTool, FirstLabel, ToolReadFails, ReadLatest, ReadPending,
         ReadCached, Cancel, CancelFails, LeaveLoop, ResetCache, ClearAll, ReadFinal, Return
    <3>1. PICK p \in 0 .. MaxNonce : IsPendingCount(p) /\ high' = p /\ current' = low
      BY <3>0 DEF ReadPending, FirstToCancel
    <3>2. ASSUME NEW n \in low .. p - 1 PROVE Occupied(n)
      <4>1. p \in Nat /\ n \in Nat /\ p <= MaxNonce /\ n \in Slots
        BY <1>1, NodeAssumption DEF Slots
      <4>2. CASE n < mined
        BY <4>1, <4>2 DEF RepairInv, MinedOccupied
      <4>3. CASE n >= mined
        BY <1>1, <4>1, <4>3, <3>1 DEF IsPendingCount
      <4> QED BY <1>1, <4>1, <4>2, <4>3
    <3> QED
      <4>1. low' = low
        BY <3>0 DEF ReadPending
      <4> QED BY <1>1, <1>2, <3>1, <3>2, <4>1 DEF RangeInUse
  <2>2. CASE toolPc' = "cancel" /\ toolPc # "pending"
    <3>1. Cancel \/ CancelFails
      BY <1>4, <2>2, RepairAssumption
      DEF ToolStep, CallTool, FirstLabel, RecoveryTools, ToolReadFails, ReadLatest, ReadPending,
         ReadCached, Cancel, CancelFails, LeaveLoop, ResetCache, ClearAll, ReadFinal, Return
    <3>2. toolPc = "cancel" /\ current' = current + 1 /\ high' = high /\ low' = low
      BY <3>1 DEF Cancel, CancelFails
    <3> QED BY <1>1, <1>2, <3>2 DEF RepairInv, RangeInUse
  <2>3. CASE toolPc' # "cancel"
    <3>1. low' = low \/ low' = 0 \/ (ReadLatest /\ low' = mined)
      BY <1>4 DEF ToolStep, CallTool, ToolReadFails, ReadLatest, ReadPending,
         ReadCached, Cancel, CancelFails, LeaveLoop, ResetCache, ClearAll, ReadFinal, Return
    <3>2. mined <= mined'
      BY MinedOccupiedStep
    <3> QED BY <1>1, <2>3, <3>1, <3>2 DEF RangeInUse
  <2> QED BY <2>1, <2>2, <2>3
<1> QED BY <1>3, <1>4, RepairActions DEF ToolStep

LEMMA RepairNonceStep ==
  ASSUME RepairInv, [RepairNext]_repairVars
  PROVE  (CountStillValid /\ HeldInRange /\ NoLostNonce)'
<1>b. BeliefInv /\ NoLostNonce
  BY DEF RepairInv, RepairTypeOK, BeliefInv
<1>1. CASE [Next]_vars
  BY <1>1, <1>b, NextKeeps DEF LosesNothing
<1>2. CASE ForgetsCache
  <2>1. cache' = NoNonce /\ UNCHANGED <<slot, mined, pc, seen, nonce>>
    BY <1>2 DEF ForgetsCache, nodeVars
  <2> QED BY <1>b, <2>1 DEF BeliefInv, CountStillValid, HeldInRange, NoLostNonce, Occupied
<1>3. ASSUME NEW s \in Senders, NEW n \in Slots, Replaces(s, n)
      PROVE  (CountStillValid /\ HeldInRange /\ NoLostNonce)'
  <2>1. Include(s, n) /\ UNCHANGED <<cache, pc, seen, nonce, abandoned>>
    BY <1>3 DEF Replaces, execVars
  <2>2. LosesNothing
    BY <1>3, <1>b, <2>1, IncludeKeeps DEF Recalls
  <2> QED BY <1>b, <2>2 DEF LosesNothing
<1>4. CASE Cancel /\ Replaces(Canceller, current)
  <2>1. current \in Slots
    BY <1>4, NodeAssumption DEF Cancel, MustCancel, RepairInv, RepairTypeOK, Slots
  <2> QED BY <1>3, <1>4, <2>1, RepairSenders
<1> QED BY <1>1, <1>2, <1>3, <1>4, RepairActions, RepairSenders

LEMMA RepairInvStep == RepairInv /\ [RepairNext]_repairVars => RepairInv'
BY RepairTypeStep, MinedOccupiedStep, RangeStep, RepairNonceStep DEF RepairInv

LEMMA RepairInvAlways == RepairSpec => []RepairInv
BY RepairInvInit, RepairInvStep, PTL DEF RepairSpec

(* Every variable of the recovery tools and of the executes beside them    *)
(* keeps its type.                                                         *)
THEOREM RepairTypeCorrect == RepairSpec => []RepairTypeOK
<1>1. RepairInv => RepairTypeOK
  BY DEF RepairInv
<1> QED BY <1>1, RepairInvAlways, PTL

(* Whatever fails, and whatever executes have reserved when the cache is   *)
(* reset or cleared: the nonces interrupts had abandoned are found again   *)
(* by the reservations that follow the reset.                              *)
THEOREM LostNoncesAreFound == RepairSpec => []ResetFindsLostNonces
<1>1. RepairInv => ResetFindsLostNonces
  BY DEF RepairInv, NoLostNonce, ResetFindsLostNonces
<1> QED BY <1>1, RepairInvAlways, PTL

(* fix_nonce replaces transactions and never takes a vacant nonce, however *)
(* old the counts it has read are by then.                                 *)
THEOREM CancelsOnlyUsedNonces == RepairSpec => CancelsOnlyWhatIsThere
<1> DEFINE A == \A n \in Slots : slot'[n] = Canceller => Occupied(n)
<1>1. ASSUME RepairInv, [RepairNext]_repairVars PROVE A
  <2> SUFFICES ASSUME NEW n \in Slots, slot'[n] = Canceller PROVE Occupied(n)
    OBVIOUS
  <2>t. slot \in [Slots -> Senders \cup {Foreign, Vacant}]
    BY <1>1 DEF RepairInv, RepairTypeOK, TypeOK, NodeTypeOK
  <2>1. CASE slot'[n] = slot[n]
    BY <2>1, RepairSenders DEF Occupied
  <2>2. CASE \E s \in Executors \cup {Foreign, Stuck} : \E m : Include(s, m)
    <3>1. slot'[n] = slot[n]
      BY <2>t, <2>2, RepairSenders DEF Include
    <3> QED BY <2>1, <3>1
  <2>3. CASE Cancel /\ Replaces(Canceller, current)
    <3>1. CASE n = current
      <4>1. Occupied(current)
        <5>1. toolPc = "cancel" /\ current < high
          BY <2>3 DEF Cancel, MustCancel
        <5>2. current \in Nat /\ high \in Nat
          BY <1>1, NodeAssumption DEF RepairInv, RepairTypeOK
        <5> QED BY <1>1, <5>1, <5>2 DEF RepairInv, RangeInUse
      <4> QED BY <3>1, <4>1
    <3>2. CASE n # current
      BY <2>1, <2>3, <2>t, <3>2 DEF Replaces, Include
    <3> QED BY <3>1, <3>2
  <2>4. CASE slot' = slot
    BY <2>1, <2>4
  <2> QED BY <1>1, <2>2, <2>3, <2>4, RepairActions, SlotMoves DEF ForgetsCache, Replaces, nodeVars
<1>2. RepairInv /\ [RepairNext]_repairVars => [A]_repairVars
  BY <1>1
<1> QED BY <1>2, RepairInvAlways, PTL DEF RepairSpec, CancelsOnlyWhatIsThere
=============================================================================
