------------------------- MODULE PublishTaskProofs -------------------------
(* Theorems about PublishTask, for any budgets, expiry times and knobs. *)
EXTENDS PublishTask, WellFoundedInduction, TLAPS

-----------------------------------------------------------------------------
(* Induction over the naturals, stated of the set of numbers that have a   *)
(* property, from the well-foundedness of <.                               *)
Less == {pair \in Nat \X Nat : pair[1] < pair[2]}

LEMMA LeastNumber ==
  ASSUME NEW P \in SUBSET Nat, P # {}
  PROVE  \E m \in P : \A k \in P : m <= k
<1>1. OpToRel(<, Nat) = Less
  BY DEF OpToRel, Less
<1>2. IsWellFoundedOn(Less, Nat)
  BY NatLessThanWellFounded, <1>1, Zenon
<1>3. PICK m \in P : \A k \in P : ~ (<<k, m>> \in Less)
  BY <1>2, WFMin
<1>4. ASSUME NEW k \in P PROVE m <= k
  <2>1. m \in Nat /\ k \in Nat /\ <<k, m>> \in Nat \X Nat
    OBVIOUS
  <2>2. ~ (<<k, m>>[1] < <<k, m>>[2])
    BY <1>3, <2>1, Zenon DEF Less
  <2> QED BY <2>1, <2>2
<1> QED BY <1>4

LEMMA Induction ==
  ASSUME NEW P \in SUBSET Nat, 0 \in P, \A n \in P : n + 1 \in P
  PROVE  P = Nat
<1> SUFFICES ASSUME P # Nat PROVE FALSE
  OBVIOUS
<1>1. PICK m \in Nat \ P : \A k \in Nat \ P : m <= k
  <2>1. Nat \ P \in SUBSET Nat /\ Nat \ P # {}
    OBVIOUS
  <2> QED BY <2>1, LeastNumber
<1>2. m - 1 \in Nat /\ m - 1 \in P
  BY <1>1
<1> QED BY <1>1, <1>2
-----------------------------------------------------------------------------
(* The powers of two.                                                      *)
Doubles(f, n) == f = [i \in 0 .. n |-> IF i = 0 THEN 1 ELSE 2 * f[i - 1]]

LEMMA DoublesExists == ASSUME NEW n \in Nat PROVE \E f : Doubles(f, n)
<1> DEFINE P == {k \in Nat : \E f : Doubles(f, k)}
<1>1. 0 \in P
  <2>1. Doubles([i \in 0 .. 0 |-> 1], 0)
    BY DEF Doubles
  <2> QED BY <2>1
<1>2. ASSUME NEW k \in P PROVE k + 1 \in P
  <2>1. PICK f : Doubles(f, k)
    BY <1>2
  <2> DEFINE g == [i \in 0 .. k + 1 |-> IF i = k + 1 THEN 2 * f[k] ELSE f[i]]
  <2>2. \A i \in 0 .. k : f[i] = IF i = 0 THEN 1 ELSE 2 * f[i - 1]
    BY <2>1 DEF Doubles
  <2>3. g[k + 1] = 2 * f[k] /\ \A i \in 0 .. k : g[i] = f[i]
    OBVIOUS
  <2>4. g = [i \in 0 .. k + 1 |-> g[i]]
    OBVIOUS
  <2> HIDE DEF g
  <2>5. ASSUME NEW i \in 0 .. k + 1 PROVE g[i] = IF i = 0 THEN 1 ELSE 2 * g[i - 1]
    <3>1. CASE i = k + 1
      <4>1. i # 0 /\ i - 1 = k /\ g[k] = f[k]
        BY <2>3, <3>1
      <4> QED BY <2>3, <3>1, <4>1
    <3>2. CASE i # k + 1
      <4>1. i \in 0 .. k /\ (i # 0 => i - 1 \in 0 .. k)
        BY <3>2
      <4> QED BY <2>2, <2>3, <4>1
    <3> QED BY <3>1, <3>2
  <2>6. Doubles(g, k + 1)
    BY <2>4, <2>5 DEF Doubles
  <2> QED BY <2>6
<1> HIDE DEF P
<1>3. P = Nat
  <2>1. P \in SUBSET Nat
    BY DEF P
  <2> QED BY <1>1, <1>2, <2>1, Induction
<1> QED BY <1>3 DEF P

LEMMA DoublesAgree ==
  ASSUME NEW m \in Nat, NEW n \in Nat, NEW f, NEW g, Doubles(f, m), Doubles(g, n)
  PROVE  \A i \in Nat : i <= m /\ i <= n => f[i] = g[i] /\ f[i] \in Nat \ {0}
<1> DEFINE P == {i \in Nat : i <= m /\ i <= n => f[i] = g[i] /\ f[i] \in Nat \ {0}}
<1>1. /\ \A i \in 0 .. m : f[i] = IF i = 0 THEN 1 ELSE 2 * f[i - 1]
      /\ \A i \in 0 .. n : g[i] = IF i = 0 THEN 1 ELSE 2 * g[i - 1]
  BY DEF Doubles
<1>2. 0 \in P
  BY <1>1
<1>3. ASSUME NEW i \in P PROVE i + 1 \in P
  <2>1. ASSUME i + 1 <= m, i + 1 <= n PROVE f[i + 1] = g[i + 1] /\ f[i + 1] \in Nat \ {0}
    <3>1. i + 1 \in 0 .. m /\ i + 1 \in 0 .. n /\ i + 1 # 0 /\ (i + 1) - 1 = i
      BY <2>1
    <3>2. f[i + 1] = 2 * f[i] /\ g[i + 1] = 2 * g[i]
      BY <1>1, <3>1
    <3>3. f[i] = g[i] /\ f[i] \in Nat \ {0}
      BY <1>3, <2>1
    <3> QED BY <3>2, <3>3
  <2> QED BY <2>1
<1>4. P = Nat
  <2> HIDE DEF P
  <2>1. P \in SUBSET Nat
    BY DEF P
  <2> QED BY <1>2, <1>3, <2>1, Induction
<1> QED BY <1>4

LEMMA TwoToUnfolds ==
  /\ TwoTo[0] = 1
  /\ \A n \in Nat : TwoTo[n + 1] = 2 * TwoTo[n] /\ TwoTo[n] \in Nat \ {0}
<1> DEFINE D(n) == CHOOSE f : Doubles(f, n)
           F == [n \in Nat |-> D(n)[n]]
<1>1. \A n \in Nat : Doubles(D(n), n)
  BY DoublesExists
<1> HIDE DEF D
<1>2. F[0] = 1
  BY <1>1 DEF Doubles
<1>3. ASSUME NEW n \in Nat PROVE F[n + 1] = 2 * F[n] /\ F[n] \in Nat \ {0}
  <2>1. Doubles(D(n), n) /\ Doubles(D(n + 1), n + 1) /\ n + 1 \in Nat
    BY <1>1
  <2>2. n + 1 \in 0 .. n + 1 /\ n + 1 # 0 /\ (n + 1) - 1 = n
    OBVIOUS
  <2>3. D(n + 1)[n + 1] = 2 * D(n + 1)[n]
    BY <2>1, <2>2 DEF Doubles
  <2>4. D(n)[n] = D(n + 1)[n] /\ D(n)[n] \in Nat \ {0}
    BY <2>1, DoublesAgree
  <2> QED BY <2>3, <2>4
<1>4. F = [n \in Nat |-> IF n = 0 THEN 1 ELSE 2 * F[n - 1]]
  <2>1. ASSUME NEW n \in Nat PROVE F[n] = IF n = 0 THEN 1 ELSE 2 * F[n - 1]
    <3>1. CASE n = 0
      BY <1>2, <3>1
    <3>2. CASE n # 0
      <4>1. n - 1 \in Nat /\ (n - 1) + 1 = n
        BY <3>2
      <4>2. F[(n - 1) + 1] = 2 * F[n - 1]
        BY <1>3, <4>1
      <4> QED BY <3>2, <4>1, <4>2
    <3> QED BY <3>1, <3>2
  <2>2. F = [n \in Nat |-> F[n]]
    OBVIOUS
  <2> HIDE DEF F
  <2> QED BY <2>1, <2>2
<1> HIDE DEF F
<1>5. TwoTo = [n \in Nat |-> IF n = 0 THEN 1 ELSE 2 * TwoTo[n - 1]]
  BY <1>4 DEF TwoTo
<1>6. \A n \in Nat : TwoTo[n] = IF n = 0 THEN 1 ELSE 2 * TwoTo[n - 1]
  BY <1>5
<1> DEFINE P == {n \in Nat : TwoTo[n] \in Nat \ {0}}
<1>7. \A n \in Nat : TwoTo[n + 1] = 2 * TwoTo[n]
  <2>1. ASSUME NEW n \in Nat PROVE TwoTo[n + 1] = 2 * TwoTo[n]
    <3>1. n + 1 \in Nat /\ n + 1 # 0 /\ (n + 1) - 1 = n
      OBVIOUS
    <3> QED BY <1>6, <3>1
  <2> QED BY <2>1
<1>8. 0 \in P /\ \A n \in P : n + 1 \in P
  BY <1>6, <1>7
<1>9. P = Nat
  <2> HIDE DEF P
  <2>1. P \in SUBSET Nat
    BY DEF P
  <2> QED BY <1>8, <2>1, Induction
<1> QED BY <1>6, <1>7, <1>9
-----------------------------------------------------------------------------

LEMMA Knobs ==
  /\ PinAttempts \in Nat \ {0}
  /\ IpfsTimeout \in Nat /\ IpfsBackoff \in Nat /\ ReceiptTimeout \in Nat /\ ReceiptFloor \in Nat
  /\ UnderpricedBackoff \in Nat /\ TransientBackoff \in Nat /\ MaxRpc \in Nat
BY PublishAssumption DEF PinAttempts, Durations

(* What passes in one turn of the pin's loop, and where it leaves the      *)
(* clock when there is a budget.                                           *)
LEMMA UploadBounds ==
  ASSUME TypeOK, ~Past(deadline)
  PROVE  /\ UploadTime \in Nat
         /\ deadline # Never => now + UploadTime <= deadline
BY Knobs DEF TypeOK, Past, UploadTime, Smaller

LEMMA BackoffBounds ==
  ASSUME TypeOK, NEW n \in 1 .. PinAttempts, NEW t \in Nat
  PROVE  /\ WithinBudget(Backoff(n), t) \in Nat
         /\ deadline # Never /\ t <= deadline
              => t + WithinBudget(Backoff(n), t) <= deadline
<1>1. Backoff(n) \in Nat
  <2>1. n - 1 \in Nat
    OBVIOUS
  <2>2. TwoTo[n - 1] \in Nat
    BY <2>1, TwoToUnfolds
  <2> QED BY <2>2, Knobs DEF Backoff
<1> QED BY <1>1 DEF TypeOK, WithinBudget, Smaller, Larger

LEMMA ReceiptBounds ==
  ASSUME TypeOK
  PROVE  /\ ReceiptCap \in Nat
         /\ deadline # Never => now + ReceiptCap <= Larger(deadline, now + ReceiptFloor)
BY Knobs DEF TypeOK, ReceiptCap, Smaller, Larger

LEMMA RetryType ==
  ASSUME TypeOK, pc \in {"build", "send"}, NEW d \in 0 .. MaxRpc, NEW pause \in Nat,
         NEW e \in Results, RetryAfter(d, pause, e)
  PROVE  /\ now' \in Nat /\ pc' \in {"head", "done"} /\ result' \in Results
         /\ pc' = "head" => attempt' \in 0 .. MaxRetries - 1
         /\ attempt' \in Nat
         /\ now' <= now + d + pause
BY Knobs, PublishAssumption DEF TypeOK, RetryAfter, Finish, Labels, PinLabels, ExecuteLabels

LEMMA TypeInit == Init => TypeOK
BY Knobs, PublishAssumption DEF Init, TypeOK, Labels, PinLabels, ExecuteLabels, Results

LEMMA TypeStep == TypeOK /\ [Next]_vars => TypeOK'
<1> SUFFICES ASSUME TypeOK, [Next]_vars PROVE TypeOK'
  OBVIOUS
<1> USE Knobs, PublishAssumption DEF Finish, params, Labels, PinLabels, ExecuteLabels, Results
<1>1. CASE CheckAtStart
  BY <1>1 DEF TypeOK, CheckAtStart, CheckNotExpired
<1>2. CASE CheckAfterPin
  BY <1>2 DEF TypeOK, CheckAfterPin, CheckNotExpired
<1>3. CASE PinOutOfBudget
  BY <1>3 DEF TypeOK, PinOutOfBudget, PinGivesUp
<1>4. CASE PinSucceeds \/ PinRejected
  BY <1>4, UploadBounds DEF TypeOK, PinSucceeds, PinRejected
<1>5. CASE PinFails
  <2>1. PICK e \in {"IPFSGatewayError", "IPFSFetchError"}, d \in 0 .. UploadTime :
          /\ lastError' = e
          /\ \/ /\ attempt < PinAttempts
                /\ now' = now + d + WithinBudget(Backoff(attempt), now + d)
                /\ attempt' = attempt + 1
                /\ UNCHANGED <<pc, pinEnd, result>>
             \/ /\ attempt = PinAttempts
                /\ now' = now + d
                /\ pinEnd' = now'
                /\ PinGivesUp(e)
                /\ UNCHANGED attempt
    BY <1>5 DEF PinFails
  <2>2. pc = "pin" /\ UNCHANGED <<params, sentAt>>
    BY <1>5 DEF PinFails
  <2>3. d \in Nat /\ now + d \in Nat /\ attempt \in 1 .. PinAttempts
    BY <1>5, <2>2, UploadBounds DEF PinFails, TypeOK
  <2>4. WithinBudget(Backoff(attempt), now + d) \in Nat
    BY <2>3, BackoffBounds
  <2> QED BY <2>1, <2>2, <2>3, <2>4 DEF TypeOK, PinGivesUp
<1>6. CASE CheckBudget
  BY <1>6 DEF TypeOK, CheckBudget
<1>7. CASE Reserve \/ Build
  BY <1>7 DEF TypeOK, Reserve, Build, Rpc
<1>8. CASE BuildFails
  <2> PICK d \in 0 .. MaxRpc : RetryAfter(d, TransientBackoff, "TxRpcError")
    BY <1>8 DEF BuildFails
  <2> QED BY <1>8, RetryType DEF BuildFails, TypeOK
<1>9. CASE SendTooLate \/ Send
  BY <1>9 DEF TypeOK, SendTooLate, Send, Rpc
<1>10. CASE SendFails
  <2> PICK d \in 0 .. MaxRpc, pause \in Nat, e \in Results : RetryAfter(d, pause, e)
    BY <1>10 DEF SendFails
  <2> QED BY <1>10, RetryType DEF SendFails, TypeOK
<1>11. CASE GetReceipt \/ ReceiptTimesOut
  BY <1>11, ReceiptBounds DEF TypeOK, GetReceipt, ReceiptTimesOut
<1>12. CASE UNCHANGED vars
  BY <1>12 DEF TypeOK, vars
<1> QED
  BY <1>1, <1>2, <1>3, <1>4, <1>5, <1>6, <1>7, <1>8, <1>9, <1>10, <1>11, <1>12
     DEF Next, Terminated

(* The type invariant holds in every reachable state. *)
THEOREM TypeCorrect == Spec => []TypeOK
BY TypeInit, TypeStep, PTL DEF Spec
-----------------------------------------------------------------------------
(* The budget.  How far the clock may be ahead of it depends on how many   *)
(* calls have been made since it was last looked at.                       *)
Limit == Larger(deadline, 0)

AheadByAtMost(labels, d) == pc \in labels => now <= Limit + d

Ahead ==
  /\ AheadByAtMost(PinLabels \cup {"reserve"}, 0)
  /\ AheadByAtMost({"build", "receipt"}, MaxRpc)
  /\ AheadByAtMost({"send"}, 2 * MaxRpc)
  /\ AheadByAtMost({"head", "done"}, Overrun)

BudgetInv ==
  /\ TypeOK
  /\ deadline # Never =>
       /\ Ahead
       /\ sentAt # Never => sentAt < deadline
       /\ pinEnd # Never => pinEnd <= Limit

LEMMA OverrunCovers ==
  /\ Overrun \in Nat
  /\ 2 * MaxRpc + TransientBackoff <= Overrun
  /\ MaxRpc + UnderpricedBackoff <= Overrun
  /\ MaxRpc + ReceiptFloor <= Overrun
BY Knobs DEF Overrun, Larger

LEMMA BudgetInit == Init => BudgetInv
<1> SUFFICES ASSUME Init PROVE BudgetInv
  OBVIOUS
<1>1. TypeOK
  BY TypeInit
<1> QED BY <1>1, Knobs, PublishAssumption, OverrunCovers
       DEF Init, TypeOK, BudgetInv, Ahead, AheadByAtMost, Limit, Larger, PinLabels

(* A failed attempt whose calls began at most `ahead' past the budget.     *)
LEMMA RetryAhead ==
  ASSUME BudgetInv, TypeOK', deadline # Never, pc \in {"build", "send"},
         NEW d \in 0 .. MaxRpc, NEW pause \in Nat, NEW e \in Results,
         RetryAfter(d, pause, e), now + MaxRpc + pause <= Limit + Overrun,
         UNCHANGED <<params, pinEnd, sentAt>>
  PROVE  BudgetInv'
<1>1. now' \in Nat /\ pc' \in {"head", "done"} /\ now' <= now + d + pause
  BY RetryType DEF BudgetInv
<1>2. now \in Nat /\ Limit \in Nat /\ Limit' = Limit
  BY DEF BudgetInv, TypeOK, Limit, Larger, params
<1>3. now' <= Limit + Overrun
  BY <1>1, <1>2, Knobs, OverrunCovers
<1> QED BY <1>1, <1>2, <1>3 DEF BudgetInv, Ahead, AheadByAtMost, PinLabels, params, Overrun

LEMMA ParamsKept == [Next]_vars => UNCHANGED params
<1>1. CheckAtStart \/ CheckAfterPin \/ PinOutOfBudget \/ PinSucceeds \/ PinRejected \/ PinFails
        => UNCHANGED params
  BY DEF CheckAtStart, CheckAfterPin, PinOutOfBudget, PinSucceeds, PinRejected, PinFails
<1>2. CheckBudget \/ Reserve \/ Build \/ BuildFails \/ SendTooLate \/ Send \/ SendFails
        => UNCHANGED params
  BY DEF CheckBudget, Reserve, Build, BuildFails, SendTooLate, Send, SendFails
<1>3. GetReceipt \/ ReceiptTimesOut \/ UNCHANGED vars => UNCHANGED params
  BY DEF GetReceipt, ReceiptTimesOut, vars, params
<1> QED BY <1>1, <1>2, <1>3 DEF Next, Terminated

LEMMA BudgetStep == BudgetInv /\ [Next]_vars => BudgetInv'
<1> SUFFICES ASSUME BudgetInv, [Next]_vars, deadline # Never PROVE BudgetInv'
  BY ParamsKept, TypeStep DEF BudgetInv, params
<1>t. TypeOK /\ TypeOK'
  BY TypeStep DEF BudgetInv
<1>n. now \in Nat /\ deadline \in Int /\ Limit \in Nat /\ deadline <= Limit
  BY <1>t DEF TypeOK, Limit, Larger
<1>p. ~Past(deadline) => now < deadline
  BY <1>n DEF Past
<1> USE Knobs, OverrunCovers
    DEF BudgetInv, Ahead, AheadByAtMost, Limit, Finish, params, PinLabels
<1>1. CASE CheckAtStart \/ CheckAfterPin
  BY <1>1, <1>t, <1>n DEF CheckAtStart, CheckAfterPin, CheckNotExpired
<1>2. CASE PinOutOfBudget
  BY <1>2, <1>t, <1>n DEF PinOutOfBudget, PinGivesUp
<1>3. CASE PinSucceeds \/ PinRejected
  BY <1>3, <1>t, <1>n, UploadBounds DEF PinSucceeds, PinRejected
<1>4. CASE PinFails
  <2>1. PICK e \in {"IPFSGatewayError", "IPFSFetchError"}, d \in 0 .. UploadTime :
          \/ /\ attempt < PinAttempts
             /\ now' = now + d + WithinBudget(Backoff(attempt), now + d)
             /\ UNCHANGED <<pc, pinEnd, result>>
          \/ /\ now' = now + d
             /\ pinEnd' = now'
             /\ PinGivesUp(e)
    BY <1>4 DEF PinFails
  <2>2. pc = "pin" /\ UNCHANGED <<params, sentAt>>
    BY <1>4 DEF PinFails
  <2>3. d \in Nat /\ now + d \in Nat /\ now + d <= deadline /\ attempt \in 1 .. PinAttempts
    BY <1>4, <1>t, <1>n, <2>2, UploadBounds DEF PinFails, TypeOK
  <2>4. now + d + WithinBudget(Backoff(attempt), now + d) <= deadline
    BY <1>t, <2>3, BackoffBounds
  <2>5. now' \in Nat /\ now' <= deadline
    BY <1>t, <2>1, <2>3, <2>4 DEF TypeOK
  <2>6. now' <= Limit /\ Limit' = Limit
    BY <1>n, <2>2, <2>5
  <2>7. \/ pc' = "pin" /\ UNCHANGED pinEnd
        \/ pc' = "done" /\ pinEnd' = now'
    BY <2>1, <2>2 DEF PinGivesUp
  <2>8. CASE pc' = "pin" /\ UNCHANGED pinEnd
    BY <1>t, <1>n, <2>2, <2>5, <2>6, <2>8
  <2>9. CASE pc' = "done" /\ pinEnd' = now'
    BY <1>t, <1>n, <2>2, <2>5, <2>6, <2>9
  <2> QED BY <2>7, <2>8, <2>9
<1>5. CASE CheckBudget
  BY <1>5, <1>t, <1>n, <1>p DEF CheckBudget
<1>6. CASE Reserve \/ Build
  BY <1>6, <1>t, <1>n DEF Reserve, Build, Rpc
<1>7. CASE BuildFails
  <2>1. PICK d \in 0 .. MaxRpc : RetryAfter(d, TransientBackoff, "TxRpcError")
    BY <1>7 DEF BuildFails
  <2>2. "TxRpcError" \in Results
    BY DEF Results
  <2>3. pc = "build" /\ now + MaxRpc + TransientBackoff <= Limit + Overrun
    BY <1>7, <1>n DEF BuildFails
  <2> QED BY <1>7, <1>t, <2>1, <2>2, <2>3, RetryAhead DEF BuildFails
<1>8. CASE SendTooLate
  BY <1>8, <1>t, <1>n DEF SendTooLate
<1>9. CASE Send
  BY <1>9, <1>t, <1>n, <1>p DEF Send, Rpc
<1>10. CASE SendFails
  <2>1. PICK d \in 0 .. MaxRpc, pause \in {0, UnderpricedBackoff, TransientBackoff}, e \in Results :
          RetryAfter(d, pause, e)
    BY <1>10 DEF SendFails, Results
  <2>2. pause \in Nat /\ MaxRpc + pause <= Overrun
    OBVIOUS
  <2>3. pc = "send" /\ now < deadline
    BY <1>10, <1>p DEF SendFails
  <2>4. now + MaxRpc + pause <= Limit + Overrun
    BY <1>n, <2>2, <2>3
  <2> QED BY <1>10, <1>t, <2>1, <2>2, <2>3, <2>4, RetryAhead DEF SendFails
<1>11. CASE GetReceipt \/ ReceiptTimesOut
  <2>1. pc = "receipt" /\ pc' = "done" /\ UNCHANGED <<params, pinEnd, sentAt>>
    BY <1>11 DEF GetReceipt, ReceiptTimesOut
  <2>2. now' \in Nat /\ now' <= now + ReceiptCap
    BY <1>11, <1>t, ReceiptBounds DEF GetReceipt, ReceiptTimesOut, TypeOK
  <2>3. now + ReceiptCap <= Limit + MaxRpc + ReceiptFloor
    BY <1>t, <1>n, <2>1, ReceiptBounds DEF Larger
  <2> QED BY <1>t, <1>n, <2>1, <2>2, <2>3, ReceiptBounds
<1>12. CASE UNCHANGED vars
  BY <1>12, <1>t DEF vars, Overrun
<1> QED
  BY <1>1, <1>2, <1>3, <1>4, <1>5, <1>6, <1>7, <1>8, <1>9, <1>10, <1>11, <1>12
     DEF Next, Terminated

LEMMA BudgetKept == Spec => []BudgetInv
BY BudgetInit, BudgetStep, PTL DEF Spec

(* Nothing is broadcast once the budget is exhausted (_base.py 473-474).   *)
THEOREM NothingSentTooLate == Spec => []NeverSentPastBudget
<1>1. BudgetInv => NeverSentPastBudget
  BY DEF BudgetInv, NeverSentPastBudget
<1> QED BY <1>1, BudgetKept, PTL

(* publish_task overruns its budget at most by what was under way          *)
(* (_base.py 514-518, 581, 596).                                           *)
THEOREM OverrunIsBounded == Spec => []OverrunBounded
<1>1. BudgetInv => OverrunBounded
  BY DEF BudgetInv, Ahead, AheadByAtMost, Limit, OverrunBounded
<1> QED BY <1>1, BudgetKept, PTL

-----------------------------------------------------------------------------
(* The pin.  What k turns of its loop may take, the backoffs doubling.     *)
Turns(k) == k * IpfsTimeout + IpfsBackoff * (TwoTo[k] - 1)

LEMMA OneMoreTurn ==
  ASSUME NEW k \in Nat
  PROVE  /\ Turns(k) \in Int
         /\ Turns(k + 1) = Turns(k) + IpfsTimeout + IpfsBackoff * TwoTo[k]
         /\ Turns(k) <= Turns(k + 1)
<1>1. /\ TwoTo[k + 1] = 2 * TwoTo[k] /\ TwoTo[k] \in Nat
      /\ IpfsTimeout \in Nat /\ IpfsBackoff \in Nat
  BY TwoToUnfolds, Knobs
<1>2. (k + 1) * IpfsTimeout = k * IpfsTimeout + IpfsTimeout
  BY <1>1
<1>3. IpfsBackoff * (2 * TwoTo[k] - 1) = IpfsBackoff * (TwoTo[k] - 1) + IpfsBackoff * TwoTo[k]
  BY <1>1
<1>4. k * IpfsTimeout \in Int /\ IpfsBackoff * (TwoTo[k] - 1) \in Int /\ IpfsBackoff * TwoTo[k] \in Nat
  BY <1>1
<1> QED BY <1>1, <1>2, <1>3, <1>4 DEF Turns

LEMMA TurnsGrow ==
  ASSUME NEW k \in Nat, NEW n \in Nat, k <= n
  PROVE  Turns(k) <= Turns(n)
<1> DEFINE P == {d \in Nat : Turns(k) <= Turns(k + d)}
<1>1. 0 \in P
  BY OneMoreTurn
<1>2. ASSUME NEW d \in P PROVE d + 1 \in P
  <2>1. k + d \in Nat /\ k + (d + 1) = (k + d) + 1 /\ k + (d + 1) \in Nat
    OBVIOUS
  <2>2. Turns(k + d) <= Turns((k + d) + 1)
    BY <2>1, OneMoreTurn
  <2>3. Turns(k) \in Int /\ Turns(k + d) \in Int /\ Turns((k + d) + 1) \in Int
    BY <2>1, OneMoreTurn
  <2> QED BY <2>1, <2>2, <2>3
<1>3. P = Nat
  <2> HIDE DEF P
  <2>1. P \in SUBSET Nat
    BY DEF P
  <2> QED BY <1>1, <1>2, <2>1, Induction
<1>4. n - k \in Nat /\ k + (n - k) = n
  OBVIOUS
<1>5. n - k \in P
  BY <1>3, <1>4
<1> QED BY <1>4, <1>5

(* The clock at each turn, and at the end of the pin.                      *)
KnobInv ==
  /\ pc = "start" => now = 0 /\ attempt = 1
  /\ pc = "pin" => now <= Turns(attempt - 1)
  /\ pinEnd # Never => pinEnd <= PinKnobs

(* The turn under way is the last that the knobs must allow for.           *)
LEMMA TurnWithinKnobs ==
  ASSUME TypeOK, KnobInv, pc = "pin", NEW d \in Int, d <= IpfsTimeout
  PROVE  now + d <= PinKnobs
<1>1. attempt \in 1 .. PinAttempts /\ PinAttempts \in Nat \ {0} /\ IpfsTimeout \in Nat /\ now \in Nat
  BY Knobs DEF TypeOK, PinLabels
<1>2. attempt - 1 \in Nat /\ PinAttempts - 1 \in Nat /\ attempt - 1 <= PinAttempts - 1
  BY <1>1
<1>3. Turns(attempt - 1) <= Turns(PinAttempts - 1)
  BY <1>2, TurnsGrow
<1>4. Turns(attempt - 1) \in Int /\ Turns(PinAttempts - 1) \in Int
  BY <1>2, OneMoreTurn
<1>5. PinKnobs = Turns(PinAttempts - 1) + IpfsTimeout
  <2> DEFINE x == IpfsBackoff * (TwoTo[PinAttempts - 1] - 1)
  <2>1. x \in Int
    BY <1>2, TwoToUnfolds, Knobs
  <2>2. PinAttempts * IpfsTimeout = (PinAttempts - 1) * IpfsTimeout + IpfsTimeout
    BY <1>1
  <2>3. (PinAttempts - 1) * IpfsTimeout \in Int
    BY <1>1
  <2>4. PinKnobs = PinAttempts * IpfsTimeout + x /\ Turns(PinAttempts - 1) = (PinAttempts - 1) * IpfsTimeout + x
    BY DEF PinKnobs, Turns
  <2> HIDE DEF x
  <2> QED BY <1>1, <2>1, <2>2, <2>3, <2>4
<1> QED BY <1>1, <1>3, <1>4, <1>5 DEF KnobInv

LEMMA UploadWithinTimeout ==
  ASSUME TypeOK
  PROVE  \A d \in 0 .. UploadTime : d \in Int /\ d <= IpfsTimeout
  BY Knobs DEF TypeOK, UploadTime, Smaller

LEMMA KnobStep == TypeOK /\ KnobInv /\ [Next]_vars => KnobInv'
<1> SUFFICES ASSUME TypeOK, KnobInv, [Next]_vars PROVE KnobInv'
  OBVIOUS
<1> USE DEF Finish, params
<1>1. CASE CheckAtStart
  <2>1. now = 0 /\ attempt = 1 /\ pc' \in {"pin", "done"} /\ UNCHANGED <<now, attempt, pinEnd>>
    BY <1>1 DEF CheckAtStart, CheckNotExpired, KnobInv
  <2>2. Turns(0) = 0
    BY TwoToUnfolds, Knobs DEF Turns
  <2> QED BY <2>1, <2>2 DEF KnobInv
<1>2. CASE CheckAfterPin
  BY <1>2 DEF CheckAfterPin, CheckNotExpired, KnobInv
<1>3. CASE PinOutOfBudget
  <2>1. pinEnd' = now /\ pc' = "done" /\ pc = "pin"
    BY <1>3 DEF PinOutOfBudget, PinGivesUp
  <2>2. now + 0 <= PinKnobs /\ now \in Nat
    <3>1. 0 \in Int /\ 0 <= IpfsTimeout /\ now \in Nat
      BY Knobs DEF TypeOK
    <3> QED BY <2>1, <3>1, TurnWithinKnobs
  <2> QED BY <2>1, <2>2 DEF KnobInv
<1>4. CASE PinSucceeds \/ PinRejected
  <2>1. PICK d \in 0 .. UploadTime : now' = now + d
    BY <1>4 DEF PinSucceeds, PinRejected
  <2>2. pinEnd' = now' /\ pc' \in {"pinned", "done"} /\ pc = "pin"
    BY <1>4 DEF PinSucceeds, PinRejected
  <2>3. now + d <= PinKnobs
    BY <2>1, <2>2, UploadWithinTimeout, TurnWithinKnobs
  <2> QED BY <2>1, <2>2, <2>3 DEF KnobInv
<1>5. CASE PinFails
  <2>1. PICK e \in {"IPFSGatewayError", "IPFSFetchError"}, d \in 0 .. UploadTime :
          \/ /\ attempt < PinAttempts
             /\ now' = now + d + WithinBudget(Backoff(attempt), now + d)
             /\ attempt' = attempt + 1
             /\ UNCHANGED <<pc, pinEnd, result>>
          \/ /\ attempt = PinAttempts
             /\ now' = now + d
             /\ pinEnd' = now'
             /\ PinGivesUp(e)
    BY <1>5 DEF PinFails
  <2>2. pc = "pin" /\ d \in Int /\ d >= 0 /\ d <= IpfsTimeout /\ now + d <= PinKnobs
    BY <1>5, <2>1, UploadWithinTimeout, TurnWithinKnobs DEF PinFails
  <2>3. CASE /\ now' = now + d + WithinBudget(Backoff(attempt), now + d)
             /\ attempt' = attempt + 1
             /\ UNCHANGED <<pc, pinEnd, result>>
    <3>1. attempt \in 1 .. PinAttempts /\ now \in Nat /\ attempt - 1 \in Nat
      BY <2>2 DEF TypeOK, PinLabels
    <3>2. Backoff(attempt) \in Nat /\ IpfsTimeout \in Nat
      <4>1. TwoTo[attempt - 1] \in Nat
        BY <3>1, TwoToUnfolds
      <4> QED BY <4>1, Knobs DEF Backoff
    <3>3. now + d \in Int /\ deadline \in Int \cup {Never}
      BY <2>2, <3>1 DEF TypeOK
    <3>4. /\ WithinBudget(Backoff(attempt), now + d) \in Int
          /\ WithinBudget(Backoff(attempt), now + d) <= Backoff(attempt)
      BY <3>2, <3>3 DEF WithinBudget, Smaller, Larger
    <3>5. Turns(attempt) = Turns(attempt - 1) + IpfsTimeout + Backoff(attempt)
      <4>1. (attempt - 1) + 1 = attempt
        BY <3>1
      <4>2. Turns((attempt - 1) + 1) = Turns(attempt - 1) + IpfsTimeout + IpfsBackoff * TwoTo[attempt - 1]
        BY <3>1, OneMoreTurn
      <4> QED BY <4>1, <4>2 DEF Backoff
    <3>6. now <= Turns(attempt - 1) /\ Turns(attempt - 1) \in Int
      BY <2>2, <3>1, OneMoreTurn DEF KnobInv
    <3>7. now + d + WithinBudget(Backoff(attempt), now + d) <= Turns(attempt)
      BY <2>2, <3>1, <3>2, <3>4, <3>5, <3>6
    <3>8. now' <= Turns(attempt' - 1)
      <4>1. attempt' - 1 = attempt
        BY <2>3, <3>1
      <4> QED BY <2>3, <3>7, <4>1
    <3> QED BY <2>2, <2>3, <3>8 DEF KnobInv
  <2>4. CASE now' = now + d /\ pinEnd' = now' /\ PinGivesUp(e)
    BY <2>2, <2>4 DEF KnobInv, PinGivesUp
  <2> QED BY <2>1, <2>3, <2>4
<1>6. CASE \/ CheckBudget \/ Reserve \/ Build \/ BuildFails \/ SendTooLate \/ Send \/ SendFails
           \/ GetReceipt \/ ReceiptTimesOut
  <2>1. UNCHANGED pinEnd /\ pc' \notin {"start", "pin"}
    BY <1>6 DEF CheckBudget, Reserve, Build, BuildFails, SendTooLate, Send, SendFails, RetryAfter,
                GetReceipt, ReceiptTimesOut
  <2> QED BY <2>1 DEF KnobInv, PinKnobs
<1>7. CASE UNCHANGED vars
  BY <1>7 DEF vars, KnobInv
<1> QED
  BY <1>1, <1>2, <1>3, <1>4, <1>5, <1>6, <1>7 DEF Next, Terminated

(* The pin, its backoffs included, ends within the budget and within its   *)
(* own knobs, whatever they are (publish.py 68-70, 105-179).               *)
THEOREM PinStaysBounded == Spec => []PinIsBounded
<1>1. Init => KnobInv
  BY DEF Init, KnobInv
<1>2. BudgetInv /\ KnobInv => PinIsBounded
  BY DEF BudgetInv, Limit, KnobInv, PinIsBounded
<1> QED BY <1>1, <1>2, KnobStep, BudgetKept, TypeCorrect, PTL DEF Spec
-----------------------------------------------------------------------------
(* The expiry time.  Once the second check has been passed, the pin ended  *)
(* before it, and nothing is sent earlier.                                 *)
ExpiryInv ==
  /\ pc \in PinLabels => sentAt = Never
  /\ pc = "pinned" => pinEnd = now
  /\ expiry # Never /\ (pc \in ExecuteLabels \/ sentAt # Never) => pinEnd < expiry

LEMMA ExpiryStep == TypeOK /\ ExpiryInv /\ [Next]_vars => ExpiryInv'
<1> SUFFICES ASSUME TypeOK, ExpiryInv, [Next]_vars PROVE ExpiryInv'
  OBVIOUS
<1> USE DEF ExpiryInv, Finish, params, PinLabels, ExecuteLabels
<1>1. CASE CheckAtStart
  BY <1>1 DEF CheckAtStart, CheckNotExpired
<1>2. CASE CheckAfterPin
  BY <1>2, PublishAssumption DEF CheckAfterPin, CheckNotExpired, Past, TypeOK
<1>3. CASE PinOutOfBudget \/ PinSucceeds \/ PinRejected \/ PinFails
  BY <1>3 DEF PinOutOfBudget, PinSucceeds, PinRejected, PinFails, PinGivesUp
<1>4. CASE CheckBudget \/ Reserve \/ Build \/ SendTooLate \/ Send \/ GetReceipt \/ ReceiptTimesOut
  BY <1>4 DEF CheckBudget, Reserve, Build, SendTooLate, Send, GetReceipt, ReceiptTimesOut
<1>5. CASE BuildFails \/ SendFails
  BY <1>5 DEF BuildFails, SendFails, RetryAfter
<1>6. CASE UNCHANGED vars
  BY <1>6 DEF vars
<1> QED
  BY <1>1, <1>2, <1>3, <1>4, <1>5, <1>6 DEF Next, Terminated

(* A pin that stalls past the expiry time publishes nothing (client 50-57, *)
(* 274-276).                                                               *)
THEOREM StalledPinIsHarmless == Spec => []StalledPinPublishesNothing
<1>1. Init => ExpiryInv
  BY DEF Init, ExpiryInv, PinLabels, ExecuteLabels
<1>2. ExpiryInv => StalledPinPublishesNothing
  BY DEF ExpiryInv, StalledPinPublishesNothing
<1> QED BY <1>1, <1>2, ExpiryStep, TypeCorrect, PTL DEF Spec
=============================================================================
