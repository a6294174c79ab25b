------------------------- MODULE EventWatcherProofs -------------------------
(***************************************************************************)
(* Proofs about EventWatcher, for any watcher, any number of logs and of   *)
(* reorganisations: events come in order, and none is passed over.         *)
(***************************************************************************)
EXTENDS EventWatcher, SequenceTheorems, TLAPS

-----------------------------------------------------------------------------
(* Sequences, entry by entry.                                              *)
LEMMA Appended ==
  ASSUME NEW S, NEW s \in Seq(S), NEW e \in S
  PROVE  /\ Append(s, e) \in Seq(S)
         /\ \A i \in DOMAIN Append(s, e) :
              \/ i \in DOMAIN s /\ Append(s, e)[i] = s[i]
              \/ i = Len(s) + 1 /\ Append(s, e)[i] = e
         /\ ToSet(Append(s, e)) = ToSet(s) \cup {e}
<1> DEFINE t == Append(s, e)
<1>1. /\ t \in Seq(S) /\ Len(t) = Len(s) + 1 /\ t[Len(s) + 1] = e
      /\ \A i \in 1 .. Len(s) : t[i] = s[i]
  BY AppendProperties
<1>2. /\ Len(s) \in Nat /\ DOMAIN s = 1 .. Len(s) /\ DOMAIN t = 1 .. Len(s) + 1
  BY <1>1, LenProperties
<1> HIDE DEF t
<1>3. \A i \in DOMAIN t : (i \in DOMAIN s /\ t[i] = s[i]) \/ (i = Len(s) + 1 /\ t[i] = e)
  BY <1>1, <1>2
<1>4. ToSet(t) \subseteq ToSet(s) \cup {e}
  BY <1>3 DEF ToSet
<1>5. ToSet(s) \subseteq ToSet(t)
  BY <1>1, <1>2 DEF ToSet
<1>6. Len(s) + 1 \in DOMAIN t
  BY <1>2
<1>7. e \in ToSet(t)
  BY <1>1, <1>6 DEF ToSet
<1> QED BY <1>1, <1>3, <1>4, <1>5, <1>7 DEF t

LEMMA Shortened ==
  ASSUME NEW S, NEW s \in Seq(S), s # <<>>
  PROVE  /\ Tail(s) \in Seq(S)
         /\ 1 \in DOMAIN s /\ Head(s) = s[1] /\ Head(s) \in S
         /\ \A i \in DOMAIN Tail(s) : i \in Nat /\ i + 1 \in DOMAIN s /\ i + 1 > 1 /\ Tail(s)[i] = s[i + 1]
         /\ ToSet(s) = {Head(s)} \cup ToSet(Tail(s))
<1> DEFINE t == Tail(s)
<1>1. /\ t \in Seq(S) /\ Len(t) = Len(s) - 1 /\ \A i \in 1 .. Len(t) : t[i] = s[i + 1]
      /\ Head(s) \in S
  BY HeadTailProperties
<1>2. /\ Len(s) \in Nat /\ DOMAIN s = 1 .. Len(s) /\ DOMAIN t = 1 .. Len(t) /\ Len(s) # 0
  BY <1>1, LenProperties, EmptySeq
<1>3. 1 \in DOMAIN s /\ Head(s) = s[1]
  BY <1>2
<1> HIDE DEF t
<1>4. \A i \in DOMAIN t : i \in Nat /\ i + 1 \in DOMAIN s /\ i + 1 > 1 /\ t[i] = s[i + 1]
  BY <1>1, <1>2
<1>5. ToSet(t) \subseteq ToSet(s)
  BY <1>4 DEF ToSet
<1>6. Head(s) \in ToSet(s)
  BY <1>3 DEF ToSet
<1>7. \A k \in DOMAIN s : k = 1 \/ (k - 1 \in DOMAIN t /\ t[k - 1] = s[k])
  BY <1>1, <1>2
<1>8. ToSet(s) \subseteq {Head(s)} \cup ToSet(t)
  BY <1>3, <1>7 DEF ToSet
<1> QED BY <1>1, <1>3, <1>4, <1>5, <1>6, <1>8 DEF t

LEMMA NothingIn == ToSet(<<>>) = {} /\ DOMAIN <<>> = {}
  BY DEF ToSet

(* What a new filter may return at first: the chain from a block on.       *)
LEMMA Suffix ==
  ASSUME NEW S, NEW s \in Seq(S), NEW m \in Nat, m >= 1
  PROVE  LET t == SubSeq(s, m, Len(s)) IN
         /\ t \in Seq(S)
         /\ \A i \in DOMAIN t : i \in Nat /\ m + i - 1 \in DOMAIN s /\ t[i] = s[m + i - 1]
         /\ \A k \in m .. Len(s) : s[k] \in ToSet(t)
<1> DEFINE t == SubSeq(s, m, Len(s))
<1>1. Len(s) \in Nat /\ DOMAIN s = 1 .. Len(s)
  BY LenProperties
<1>2. \A i \in m .. Len(s) : s[i] \in S
  BY <1>1, ElementOfSeq
<1>3. /\ t \in Seq(S) /\ Len(t) = IF m <= Len(s) THEN Len(s) - m + 1 ELSE 0
      /\ \A i \in 1 .. Len(s) - m + 1 : t[i] = s[m + i - 1]
  BY <1>1, <1>2, SubSeqProperties
<1>4. DOMAIN t = 1 .. Len(t)
  BY <1>3, LenProperties
<1> HIDE DEF t
<1>5. \A i \in DOMAIN t : i \in Nat /\ m + i - 1 \in DOMAIN s /\ t[i] = s[m + i - 1]
  BY <1>1, <1>3, <1>4
<1>6. \A k \in m .. Len(s) : k - m + 1 \in DOMAIN t /\ t[k - m + 1] = s[k]
  BY <1>1, <1>3, <1>4
<1>7. \A k \in m .. Len(s) : s[k] \in ToSet(t)
  BY <1>6 DEF ToSet
<1> QED BY <1>3, <1>5, <1>7 DEF t

(* The chain without its last block.                                       *)
LEMMA WithoutLast ==
  ASSUME NEW S, NEW s \in Seq(S), s # <<>>
  PROVE  /\ Front(s) \in Seq(S)
         /\ Len(Front(s)) = Len(s) - 1 /\ Len(s) \in DOMAIN s /\ Last(s) = s[Len(s)] /\ Last(s) \in S
         /\ \A i \in DOMAIN Front(s) : i \in DOMAIN s /\ i < Len(s) /\ Front(s)[i] = s[i]
<1>1. /\ Len(s) \in Nat /\ DOMAIN s = 1 .. Len(s) /\ Len(s) # 0
  BY LenProperties, EmptySeq
<1>2. \A i \in 1 .. Len(s) - 1 : s[i] \in S
  BY <1>1, ElementOfSeq
<1>3. Front(s) = SubSeq(s, 1, Len(s) - 1)
  BY DEF Front
<1>4. /\ Front(s) \in Seq(S) /\ Len(Front(s)) = Len(s) - 1
      /\ \A i \in 1 .. Len(s) - 1 : Front(s)[i] = s[i]
  BY <1>1, <1>2, <1>3, SubSeqProperties
<1>5. DOMAIN Front(s) = 1 .. Len(s) - 1
  BY <1>4, LenProperties
<1>6. Last(s) = s[Len(s)] /\ Len(s) \in DOMAIN s
  BY <1>1 DEF Last
<1> QED BY <1>1, <1>4, <1>5, <1>6, ElementOfSeq
-----------------------------------------------------------------------------
(* Types.  The first block of a filter is at most one past the last log.   *)
Bounded ==
  /\ start \in 0 .. MaxLogs + 1
  /\ fromBlock \in {Latest} \cup 1 .. MaxLogs
  /\ Len(chain) <= Len(emitted)
  /\ chain \in Seq(1 .. Len(emitted))

TypeInv == TypeOK /\ Bounded

LEMMA TypeInit == WatcherAssumption /\ Init => TypeInv
<1> SUFFICES ASSUME WatcherAssumption, Init PROVE TypeInv
  OBVIOUS
<1>1. MaxLogs \in Nat
  BY DEF WatcherAssumption
<1>2. /\ emitted \in Seq(Kinds) /\ Len(emitted) = 0 /\ Len(chain) = 0 /\ chain \in Seq(Logs)
      /\ chain \in Seq(1 .. Len(emitted))
      /\ queue \in Seq(Logs) /\ batch \in Seq(Logs) /\ yielded \in Seq(Logs)
  BY DEF Init
<1>3. fromBlock \in {Latest} \cup 1 .. MaxLogs /\ fromBlock \in Nat \cup {Latest}
  BY <1>1 DEF Init
<1> QED BY <1>1, <1>2, <1>3 DEF Init, TypeInv, TypeOK, Bounded, Labels, Logs

(* Sequences of numbers of logs stay so when there are more logs.          *)
LEMMA TypeStep == WatcherAssumption /\ TypeInv /\ [Next]_vars => TypeInv'
<1> SUFFICES ASSUME WatcherAssumption, TypeInv, [Next]_vars PROVE TypeInv'
  OBVIOUS
<1> USE DEF Labels, Logs
<1>0. MaxLogs \in Nat /\ Len(emitted) \in Nat /\ Len(chain) \in Nat /\ Len(emitted) <= MaxLogs
  BY DEF WatcherAssumption, TypeInv, TypeOK
<1>1. ASSUME NEW kind \in Kinds, Emit(kind) PROVE TypeInv'
  <2>1. /\ emitted' \in Seq(Kinds) /\ Len(emitted') = Len(emitted) + 1 /\ Len(emitted') \in Logs
    BY <1>0, <1>1, AppendProperties DEF Emit, TypeInv, TypeOK
  <2>2. chain \in Seq(1 .. Len(emitted')) /\ Len(emitted') \in 1 .. Len(emitted')
    BY <1>0, <2>1, SeqMonotonic, 1 .. Len(emitted) \subseteq 1 .. Len(emitted') DEF TypeInv, Bounded
  <2>3. chain' \in Seq(1 .. Len(emitted')) /\ Len(chain') = Len(chain) + 1
    BY <1>1, <2>2, AppendProperties DEF Emit
  <2>4. chain' \in Seq(Logs)
    BY <2>1, <2>3, <1>0, SeqMonotonic, 1 .. Len(emitted') \subseteq Logs
  <2>5. queue' \in Seq(Logs)
    BY <1>1, <2>1, AppendProperties DEF Emit, Enqueue, TypeInv, TypeOK
  <2> QED BY <1>0, <1>1, <2>1, <2>3, <2>4, <2>5 DEF Emit, TypeInv, TypeOK, Bounded, watcher
<1>2. CASE Reorg
  <2>1. chain \in Seq(1 .. Len(emitted)) /\ chain \in Seq(Logs) /\ chain # <<>> /\ queue \in Seq(Logs)
    BY <1>2 DEF Reorg, TypeInv, TypeOK, Bounded
  <2>2. chain' \in Seq(1 .. Len(emitted)) /\ chain' \in Seq(Logs) /\ Len(chain') = Len(chain) - 1
    BY <1>2, <2>1, WithoutLast DEF Reorg
  <2>3. Last(chain) \in Logs
    BY <2>1, WithoutLast
  <2>4. queue' \in Seq(Logs)
    BY <1>2, <2>1, <2>3, AppendProperties DEF Reorg, Enqueue
  <2>5. retracted' \subseteq Logs
    BY <1>2, <2>3 DEF Reorg, TypeInv, TypeOK
  <2>6. UNCHANGED <<emitted, replays, filter, watcher>>
    BY <1>2 DEF Reorg
  <2>7. Len(chain') <= Len(emitted)
    <3>1. Len(chain) <= Len(emitted)
      BY DEF TypeInv, Bounded
    <3>2. Len(chain') = Len(chain) - 1
      BY <2>2
    <3> QED BY <1>0, <3>1, <3>2
  <2>8. Bounded'
    BY <2>2, <2>6, <2>7 DEF TypeInv, Bounded, watcher
  <2>9. TypeOK'
    BY <2>2, <2>4, <2>5, <2>6 DEF TypeInv, TypeOK, watcher
  <2> QED BY <2>8, <2>9 DEF TypeInv
<1>3. CASE DropFilter
  BY <1>0, <1>3 DEF DropFilter, TypeInv, TypeOK, Bounded, watcher
<1>4. CASE Raise \/ Connect \/ ReadHead
  <2>1. start' \in 0 .. MaxLogs + 1
    <3>1. fromBlock # Latest => fromBlock \in 0 .. MaxLogs + 1
      BY <1>0 DEF TypeInv, Bounded
    <3>2. Len(chain) \in 0 .. MaxLogs + 1 /\ Len(chain) + 1 \in 0 .. MaxLogs + 1
      BY <1>0 DEF TypeInv, Bounded
    <3> QED BY <1>4, <3>1, <3>2 DEF Raise, Connect, ReadHead, TypeInv, Bounded
  <2>2. pc' \in Labels /\ batch = <<>>
    BY <1>4 DEF Raise, Connect, ReadHead, TypeInv, TypeOK
  <2>3. start' \in Nat
    BY <1>0, <2>1
  <2> QED BY <1>4, <2>1, <2>2, <2>3 DEF Raise, Connect, ReadHead, TypeInv, TypeOK, Bounded, node
<1>5. CASE CreateFilter
  <2>1. Larger(start, 1) \in Nat /\ Larger(start, 1) >= 1
    BY <1>0 DEF Larger, TypeInv, Bounded
  <2>2. queue' \in Seq(Logs)
    <3>1. chain \in Seq(Logs)
      BY DEF TypeInv, TypeOK
    <3>2. SubSeq(chain, Larger(start, 1), Len(chain)) \in Seq(Logs)
      BY <2>1, <3>1, Suffix
    <3>3. <<>> \in Seq(Logs)
      BY EmptySeq
    <3> QED BY <1>5, <3>2, <3>3 DEF CreateFilter
  <2>3. firstOwed' \in 1 .. MaxLogs + 1
    BY <1>0, <1>5 DEF CreateFilter, Larger, TypeInv, TypeOK, Bounded
  <2>4. batch = <<>>
    BY <1>5 DEF CreateFilter, TypeInv, TypeOK
  <2> QED BY <1>0, <1>5, <2>2, <2>3, <2>4 DEF CreateFilter, TypeInv, TypeOK, Bounded
<1>6. CASE Poll \/ PollFails \/ PollReplyLost
  <2>1. ToSet(queue) \subseteq Logs
    BY ElementOfSeq, LenProperties DEF ToSet, TypeInv, TypeOK
  <2>2. batch = <<>>
    BY <1>6 DEF Poll, PollFails, PollReplyLost, TypeInv, TypeOK
  <2> QED BY <1>0, <1>6, <2>1, <2>2 DEF Poll, PollFails, PollReplyLost, TypeInv, TypeOK, Bounded, node
<1>7. CASE SkipForeign \/ Yield
  <2>1. Tail(batch) \in Seq(Logs) /\ Head(batch) \in Logs
    BY <1>7, HeadTailProperties DEF SkipForeign, Yield, TypeInv, TypeOK
  <2>2. Append(yielded, Head(batch)) \in Seq(Logs)
    BY <2>1, AppendProperties DEF TypeInv, TypeOK
  <2> QED BY <1>0, <1>7, <2>1, <2>2 DEF SkipForeign, Yield, TypeInv, TypeOK, Bounded, node
<1>8. CASE BuilderRaises \/ Resume \/ Close \/ EndOfBatch \/ Wake
  <2>1. pc = "sleep" => batch = <<>>
    BY DEF TypeInv, TypeOK
  <2> QED BY <1>0, <1>8, <2>1
     DEF BuilderRaises, Resume, Close, EndOfBatch, Wake, TypeInv, TypeOK, Bounded, node
<1>9. CASE UNCHANGED vars
  BY <1>9 DEF vars, TypeInv, TypeOK, Bounded
<1> QED BY <1>1, <1>2, <1>3, <1>4, <1>5, <1>6, <1>7, <1>8, <1>9 DEF Next, Node, Loop

(* Every variable of a watcher and its node keeps its type.                *)
THEOREM TypeCorrect == Spec => []TypeOK
<1>1. WatcherAssumption
  BY WatcherAssumption
<1>2. TypeInv => TypeOK
  BY DEF TypeInv
<1> QED BY <1>1, <1>2, TypeInit, TypeStep, PTL DEF Spec
-----------------------------------------------------------------------------
(* Order.  An entry e may follow those of s: it is above them or it is a   *)
(* log in r, the retracted ones.                                           *)
Follows(e, s, r) == e \in r \/ \A i \in DOMAIN s : s[i] < e
InOrder(s, r) == \A i, j \in DOMAIN s : i < j => s[i] < s[j] \/ s[j] \in r
Before(s, t, r) == \A j \in DOMAIN t : Follows(t[j], s, r)

LEMMA OrderGrows ==
  ASSUME NEW r, NEW q, r \subseteq q, NEW s, NEW t
  PROVE  (InOrder(s, r) => InOrder(s, q)) /\ (Before(s, t, r) => Before(s, t, q))
  BY DEF InOrder, Before, Follows

LEMMA OrderOfNothing ==
  ASSUME NEW r, NEW s
  PROVE  InOrder(<<>>, r) /\ Before(s, <<>>, r) /\ Before(<<>>, s, r)
  BY NothingIn DEF InOrder, Before, Follows

LEMMA OrderAppend ==
  ASSUME NEW S, NEW s \in Seq(S), NEW e \in S, NEW r, InOrder(s, r), Follows(e, s, r)
  PROVE  InOrder(Append(s, e), r)
<1> DEFINE t == Append(s, e)
<1>1. \A i \in DOMAIN t : (i \in DOMAIN s /\ t[i] = s[i]) \/ (i = Len(s) + 1 /\ t[i] = e)
  BY Appended
<1>2. Len(s) \in Nat /\ DOMAIN s = 1 .. Len(s)
  BY LenProperties
<1> HIDE DEF t
<1>3. ASSUME NEW i \in DOMAIN t, NEW j \in DOMAIN t, i < j PROVE t[i] < t[j] \/ t[j] \in r
  <2>1. CASE j \in DOMAIN s /\ t[j] = s[j]
    <3>1. i # Len(s) + 1
      BY <1>2, <1>3, <2>1
    <3>2. i \in DOMAIN s /\ t[i] = s[i]
      BY <1>1, <3>1
    <3> QED BY <1>3, <2>1, <3>2 DEF InOrder
  <2>2. CASE j = Len(s) + 1 /\ t[j] = e
    <3>1. i # Len(s) + 1
      BY <1>2, <1>3, <2>2
    <3>2. i \in DOMAIN s /\ t[i] = s[i]
      BY <1>1, <3>1
    <3> QED BY <2>2, <3>2 DEF Follows
  <2> QED BY <1>1, <2>1, <2>2
<1>4. InOrder(t, r)
  BY <1>3 DEF InOrder
<1> QED BY <1>4 DEF t

LEMMA BeforeAppend ==
  ASSUME NEW S, NEW t \in Seq(S), NEW e \in S, NEW s, NEW r,
         Before(s, t, r), Follows(e, s, r)
  PROVE  Before(s, Append(t, e), r)
<1>1. \A i \in DOMAIN Append(t, e) :
         (i \in DOMAIN t /\ Append(t, e)[i] = t[i]) \/ (i = Len(t) + 1 /\ Append(t, e)[i] = e)
  BY Appended
<1> QED BY <1>1 DEF Before

(* The head of t, entry of a stream s, t, u, moves to the end of s.        *)
LEMMA OrderShift ==
  ASSUME NEW S, NEW s \in Seq(S), NEW t \in Seq(S), NEW u, NEW r, t # <<>>,
         InOrder(s, r), InOrder(t, r), Before(s, t, r), Before(s, u, r), Before(t, u, r)
  PROVE  /\ InOrder(Append(s, Head(t)), r) /\ InOrder(Tail(t), r)
         /\ Before(s, Tail(t), r) /\ Before(Append(s, Head(t)), Tail(t), r)
         /\ Before(Append(s, Head(t)), u, r) /\ Before(Tail(t), u, r)
<1> DEFINE e == Head(t)  a == Append(s, e)  z == Tail(t)
<1>1. /\ 1 \in DOMAIN t /\ e = t[1] /\ e \in S
      /\ \A i \in DOMAIN z : i \in Nat /\ i + 1 \in DOMAIN t /\ i + 1 > 1 /\ z[i] = t[i + 1]
  BY Shortened
<1>2. \A i \in DOMAIN a : (i \in DOMAIN s /\ a[i] = s[i]) \/ (i = Len(s) + 1 /\ a[i] = e)
  BY <1>1, Appended
<1>3. Follows(e, s, r)
  BY <1>1 DEF Before
<1>4. InOrder(a, r)
  BY <1>1, <1>3, OrderAppend
<1> HIDE DEF e, a, z
<1>5. InOrder(z, r)
  BY <1>1 DEF InOrder
<1>6. Before(s, z, r)
  BY <1>1 DEF Before
<1>7. \A j \in DOMAIN z : e < z[j] \/ z[j] \in r
  BY <1>1 DEF InOrder
<1>8. Before(a, z, r)
  BY <1>2, <1>6, <1>7 DEF Before, Follows
<1>9. \A j \in DOMAIN u : e < u[j] \/ u[j] \in r
  BY <1>1 DEF Before, Follows
<1>10. Before(a, u, r)
  BY <1>2, <1>9 DEF Before, Follows
<1>11. Before(z, u, r)
  BY <1>1 DEF Before, Follows
<1> QED BY <1>4, <1>5, <1>6, <1>8, <1>10, <1>11 DEF e, a, z

(* Yielded, the batch and the queue are one stream in order, of logs that  *)
(* were emitted; the chain's blocks hold ever later logs.                  *)
Past(s) == \A i \in DOMAIN s : s[i] <= Len(emitted)

OrderInv ==
  /\ InOrder(chain, {})
  /\ InOrder(yielded, retracted) /\ InOrder(batch, retracted) /\ InOrder(queue, retracted)
  /\ Before(yielded, batch, retracted) /\ Before(yielded, queue, retracted)
  /\ Before(batch, queue, retracted)
  /\ Past(chain) /\ Past(yielded) /\ Past(batch) /\ Past(queue)
  /\ pc \in {"connect", "head", "create"} => yielded = <<>>

LEMMA OrderInit == Init => OrderInv
<1> SUFFICES ASSUME Init PROVE OrderInv
  OBVIOUS
<1>1. chain = <<>> /\ queue = <<>> /\ batch = <<>> /\ yielded = <<>>
  BY DEF Init
<1>2. Past(chain) /\ Past(yielded) /\ Past(batch) /\ Past(queue)
  BY <1>1, NothingIn DEF Past
<1> QED BY <1>1, <1>2, OrderOfNothing DEF OrderInv

(* A log that is new, or that the node takes back, may follow every entry. *)
LEMMA OrderEnqueue ==
  ASSUME TypeInv, OrderInv, NEW e \in Logs, NEW r, retracted \subseteq r,
         e \in r \/ e = Len(emitted) + 1, NEW block, Enqueue(e, block)
  PROVE  /\ InOrder(queue', r) /\ Before(yielded, queue', r) /\ Before(batch, queue', r)
         /\ \A i \in DOMAIN queue' : queue'[i] <= Len(emitted) \/ queue'[i] = e
<1>1. /\ InOrder(queue, r) /\ Before(yielded, queue, r) /\ Before(batch, queue, r)
  BY OrderGrows DEF OrderInv
<1>2. queue \in Seq(Logs) /\ Len(emitted) \in Nat
  BY DEF TypeInv, TypeOK
<1>3. ASSUME NEW s \in Seq(Logs), Past(s) PROVE Follows(e, s, r)
  <2>1. \A i \in DOMAIN s : s[i] \in Logs
    BY <1>3, ElementOfSeq, LenProperties
  <2>2. \A i \in DOMAIN s : s[i] \in Nat
    BY <2>1 DEF Logs
  <2> QED BY <1>2, <1>3, <2>2 DEF Follows, Past
<1>4. Follows(e, queue, r) /\ Follows(e, yielded, r) /\ Follows(e, batch, r)
  BY <1>3 DEF OrderInv, TypeInv, TypeOK
<1>5. CASE queue' = queue
  BY <1>1, <1>5 DEF OrderInv, Past
<1>6. CASE queue' = Append(queue, e)
  <2>1. InOrder(queue', r) /\ Before(yielded, queue', r) /\ Before(batch, queue', r)
    BY <1>1, <1>2, <1>4, <1>6, OrderAppend, BeforeAppend
  <2>2. \A i \in DOMAIN queue' :
           (i \in DOMAIN queue /\ queue'[i] = queue[i]) \/ queue'[i] = e
    BY <1>2, <1>6, Appended
  <2> QED BY <2>1, <2>2 DEF OrderInv, Past
<1> QED BY <1>5, <1>6 DEF Enqueue

LEMMA OrderStep == WatcherAssumption /\ TypeInv /\ TypeInv' /\ OrderInv /\ [Next]_vars => OrderInv'
<1> SUFFICES ASSUME WatcherAssumption, TypeInv, TypeInv', OrderInv, [Next]_vars PROVE OrderInv'
  OBVIOUS
<1>0. /\ MaxLogs \in Nat /\ Len(emitted) \in Nat
      /\ chain \in Seq(Logs) /\ queue \in Seq(Logs) /\ batch \in Seq(Logs) /\ yielded \in Seq(Logs)
  BY DEF WatcherAssumption, TypeInv, TypeOK
<1>1. ASSUME NEW kind \in Kinds, Emit(kind) PROVE OrderInv'
  <2> DEFINE e == Len(emitted) + 1
  <2>1. /\ Len(emitted') = e /\ chain' = Append(chain, e) /\ e \in Logs
        /\ UNCHANGED <<yielded, batch, retracted, pc>> /\ Enqueue(e, Len(chain'))
    BY <1>0, <1>1, AppendProperties DEF Emit, watcher, Logs, TypeInv, TypeOK
  <2> HIDE DEF e
  <2>2. /\ InOrder(queue', retracted) /\ Before(yielded, queue', retracted)
        /\ Before(batch, queue', retracted)
        /\ \A i \in DOMAIN queue' : queue'[i] <= Len(emitted) \/ queue'[i] = e
    BY <2>1, OrderEnqueue DEF e
  <2>3. \A s \in Seq(Logs) : \A i \in DOMAIN s : s[i] \in Nat
    BY ElementOfSeq, LenProperties DEF Logs
  <2>4. Past(queue)' /\ Past(yielded)' /\ Past(batch)'
    <3>1. queue' \in Seq(Logs)
      BY DEF TypeInv, TypeOK
    <3>2. \A i \in DOMAIN queue' : queue'[i] <= e
      BY <1>0, <2>2, <2>3, <3>1 DEF e
    <3>3. \A i \in DOMAIN yielded : yielded[i] <= e
      BY <1>0, <2>3 DEF e, OrderInv, Past
    <3>4. \A i \in DOMAIN batch : batch[i] <= e
      BY <1>0, <2>3 DEF e, OrderInv, Past
    <3> QED BY <2>1, <3>2, <3>3, <3>4 DEF Past
  <2>5. Follows(e, chain, {})
    BY <1>0, <2>3 DEF Follows, Past, OrderInv, e
  <2>6. InOrder(chain', {})
    BY <1>0, <2>1, <2>5, OrderAppend DEF OrderInv
  <2>7. Past(chain)'
    <3>1. \A i \in DOMAIN chain' : (i \in DOMAIN chain /\ chain'[i] = chain[i]) \/ chain'[i] = e
      BY <1>0, <2>1, Appended
    <3> QED BY <1>0, <2>1, <2>3, <3>1 DEF Past, OrderInv, e
  <2> QED BY <2>1, <2>2, <2>4, <2>6, <2>7 DEF OrderInv
<1>2. CASE Reorg
  <2> DEFINE e == Last(chain)
  <2>1. /\ e \in Logs /\ \A i \in DOMAIN Front(chain) : i \in DOMAIN chain /\ Front(chain)[i] = chain[i]
        /\ Len(chain) \in DOMAIN chain /\ e = chain[Len(chain)]
    BY <1>0, <1>2, WithoutLast DEF Reorg
  <2>2. /\ retracted' = retracted \cup {e} /\ chain' = Front(chain) /\ Enqueue(e, Len(chain))
        /\ UNCHANGED <<yielded, batch, emitted, pc>>
    BY <1>2 DEF Reorg, watcher
  <2>3. e <= Len(emitted)
    BY <2>1 DEF OrderInv, Past
  <2> HIDE DEF e
  <2>4. /\ InOrder(queue', retracted') /\ Before(yielded, queue', retracted')
        /\ Before(batch, queue', retracted')
        /\ \A i \in DOMAIN queue' : queue'[i] <= Len(emitted) \/ queue'[i] = e
    BY <2>1, <2>2, OrderEnqueue
  <2>5. /\ InOrder(yielded, retracted') /\ InOrder(batch, retracted')
        /\ Before(yielded, batch, retracted')
    BY <2>2, OrderGrows DEF OrderInv
  <2>6. InOrder(chain', {}) /\ Past(chain)' /\ Past(yielded)' /\ Past(batch)'
    BY <2>1, <2>2 DEF OrderInv, InOrder, Past
  <2>7. Past(queue)'
    BY <2>2, <2>3, <2>4 DEF Past
  <2> QED BY <2>2, <2>4, <2>5, <2>6, <2>7 DEF OrderInv
<1>3. CASE DropFilter
  <2>1. queue' = <<>> /\ UNCHANGED <<chain, yielded, batch, emitted, retracted, pc>>
    BY <1>3 DEF DropFilter, watcher
  <2>2. Past(queue)' /\ Past(chain)' /\ Past(yielded)' /\ Past(batch)'
    BY <2>1, NothingIn DEF Past, OrderInv
  <2> QED BY <2>1, <2>2, OrderOfNothing DEF OrderInv
<1>4. CASE CreateFilter
  <2>1. /\ UNCHANGED <<chain, yielded, batch, emitted, retracted>> /\ pc' = "poll"
        /\ yielded = <<>> /\ batch = <<>>
        /\ queue' = IF replays THEN SubSeq(chain, Larger(start, 1), Len(chain)) ELSE <<>>
    BY <1>4 DEF CreateFilter, OrderInv, TypeInv, TypeOK
  <2>2. Larger(start, 1) \in Nat /\ Larger(start, 1) >= 1
    BY DEF Larger, TypeInv, TypeOK
  <2>3. InOrder(queue', retracted) /\ Past(queue')
    <3>1. CASE queue' = <<>>
      BY <3>1, NothingIn, OrderOfNothing DEF Past
    <3>2. CASE queue' = SubSeq(chain, Larger(start, 1), Len(chain))
      <4> DEFINE m == Larger(start, 1)
      <4>1. \A i \in DOMAIN queue' :
               i \in Nat /\ m + i - 1 \in DOMAIN chain /\ queue'[i] = chain[m + i - 1]
        BY <1>0, <2>2, <3>2, Suffix
      <4>2. m \in Nat
        BY <2>2
      <4> HIDE DEF m
      <4>3. \A i, j \in DOMAIN queue' : i < j => m + i - 1 < m + j - 1
        BY <4>1, <4>2
      <4>4. \A i, j \in DOMAIN queue' : i < j => queue'[i] < queue'[j]
        BY <4>1, <4>3 DEF OrderInv, InOrder
      <4>5. Past(queue')
        BY <4>1 DEF OrderInv, Past
      <4> QED BY <4>4, <4>5 DEF InOrder
    <3> QED BY <2>1, <3>1, <3>2
  <2>4. Past(queue)' /\ Past(chain)' /\ Past(yielded)' /\ Past(batch)'
    BY <2>1, <2>3 DEF Past, OrderInv
  <2> QED BY <2>1, <2>3, <2>4, OrderOfNothing DEF OrderInv
<1>5. CASE Poll
  <2>1. /\ batch' = queue /\ queue' = <<>> /\ UNCHANGED <<chain, yielded, emitted, retracted>>
        /\ pc' = "deliver"
    BY <1>5 DEF Poll
  <2>2. Past(queue)' /\ Past(chain)' /\ Past(yielded)' /\ Past(batch)'
    BY <2>1, NothingIn DEF Past, OrderInv
  <2> QED BY <2>1, <2>2, OrderOfNothing DEF OrderInv
<1>6. CASE PollReplyLost
  <2>1. queue' = <<>> /\ UNCHANGED <<chain, yielded, batch, emitted, retracted>> /\ pc' = "sleep"
    BY <1>6 DEF PollReplyLost
  <2>2. Past(queue)' /\ Past(chain)' /\ Past(yielded)' /\ Past(batch)'
    BY <2>1, NothingIn DEF Past, OrderInv
  <2> QED BY <2>1, <2>2, OrderOfNothing DEF OrderInv
<1>7. CASE SkipForeign \/ Yield
  <2> DEFINE a == Append(yielded, Head(batch))  z == Tail(batch)
  <2>0. batch # <<>>
    BY <1>7 DEF SkipForeign, Yield
  <2>1. /\ InOrder(a, retracted) /\ InOrder(z, retracted)
        /\ Before(yielded, z, retracted) /\ Before(a, z, retracted)
        /\ Before(a, queue, retracted) /\ Before(z, queue, retracted)
    BY <1>0, <2>0, OrderShift DEF OrderInv
  <2>2. /\ \A i \in DOMAIN z : i + 1 \in DOMAIN batch /\ z[i] = batch[i + 1]
        /\ 1 \in DOMAIN batch /\ Head(batch) = batch[1] /\ Head(batch) \in Logs
    BY <1>0, <2>0, Shortened
  <2>3. \A i \in DOMAIN a : (i \in DOMAIN yielded /\ a[i] = yielded[i]) \/ a[i] = Head(batch)
    BY <1>0, <2>2, Appended
  <2>4. batch' = z /\ yielded' \in {yielded, a} /\ UNCHANGED <<chain, queue, emitted, retracted>>
        /\ pc' \in {"deliver", "yielded"}
    BY <1>7 DEF SkipForeign, Yield, node
  <2> HIDE DEF a, z
  <2>5. Past(queue)' /\ Past(chain)' /\ Past(yielded)' /\ Past(batch)'
    BY <2>2, <2>3, <2>4 DEF Past, OrderInv
  <2> QED BY <2>1, <2>4, <2>5 DEF OrderInv
<1>8. CASE \/ Raise \/ Connect \/ ReadHead \/ PollFails \/ BuilderRaises \/ Resume
           \/ Close \/ EndOfBatch \/ Wake \/ UNCHANGED vars
  <2>1. /\ UNCHANGED <<chain, queue, batch, yielded, emitted, retracted>>
        /\ pc' \in {"connect", "head", "create"} => pc \in {"connect", "head", "create"}
    BY <1>8 DEF Raise, Connect, ReadHead, PollFails, BuilderRaises, Resume, Close, EndOfBatch,
                Wake, vars, node
  <2> QED BY <2>1 DEF OrderInv, Past
<1> QED BY <1>1, <1>2, <1>3, <1>4, <1>5, <1>6, <1>7, <1>8 DEF Next, Node, Loop

(* Whatever is retracted, lost or dropped, events come in the order of the *)
(* chain, each once, but for logs the node has taken back.                 *)
THEOREM YieldedInOrder == Spec => []YieldsInOrder
<1>1. WatcherAssumption
  BY WatcherAssumption
<1>2. OrderInv => YieldsInOrder
  BY DEF OrderInv, InOrder, YieldsInOrder
<1> QED BY <1>1, <1>2, TypeInit, TypeStep, OrderInit, OrderStep, PTL DEF Spec
-----------------------------------------------------------------------------
(* Completeness.  While nothing is retracted, log and block have the same  *)
(* number, so a live filter, which starts at or before the first log it    *)
(* owes, queues whatever is emitted from there on.                         *)
OwedInv ==
  /\ pc \in {"connect", "head", "create"} => filter = "none"
  /\ filter = "live" => start <= firstOwed
  /\ retracted = {} => Len(chain) = Len(emitted) /\ \A i \in DOMAIN chain : chain[i] = i
  /\ NothingPassedOver

LEMMA OwedInit == Init => OwedInv
  BY DEF Init, OwedInv, NothingPassedOver

(* A step that loses no log keeps every log accounted for.                 *)
LEMMA StillAccounted ==
  ASSUME OwedInv, Accounted \subseteq Accounted',
         UNCHANGED <<emitted, chain, retracted, filter, start, firstOwed>>,
         pc' \in {"connect", "head", "create"} => pc \in {"connect", "head", "create"}
  PROVE  OwedInv'
  BY DEF OwedInv, NothingPassedOver

LEMMA OwedStep == WatcherAssumption /\ TypeInv /\ OwedInv /\ [Next]_vars => OwedInv'
<1> SUFFICES ASSUME WatcherAssumption, TypeInv, OwedInv, [Next]_vars PROVE OwedInv'
  OBVIOUS
<1>0. /\ MaxLogs \in Nat /\ Len(emitted) \in Nat /\ emitted \in Seq(Kinds)
      /\ chain \in Seq(Logs) /\ queue \in Seq(Logs) /\ batch \in Seq(Logs) /\ yielded \in Seq(Logs)
      /\ start \in Nat /\ firstOwed \in Nat /\ firstOwed >= 1
  BY DEF WatcherAssumption, TypeInv, TypeOK
<1>1. ASSUME NEW kind \in Kinds, Emit(kind) PROVE OwedInv'
  <2> DEFINE e == Len(emitted) + 1
  <2>1. /\ emitted' = Append(emitted, kind) /\ chain' = Append(chain, e) /\ e \in Logs
        /\ UNCHANGED <<yielded, batch, retracted, pc, filter, start, firstOwed, missed>>
        /\ Len(emitted') = e /\ \A i \in 1 .. Len(emitted) : emitted'[i] = emitted[i]
        /\ Len(chain') = Len(chain) + 1 /\ Enqueue(e, Len(chain'))
    BY <1>0, <1>1, AppendProperties DEF Emit, watcher, Logs
  <2>2. \A i \in DOMAIN chain' :
           (i \in DOMAIN chain /\ chain'[i] = chain[i]) \/ (i = Len(chain) + 1 /\ chain'[i] = e)
    BY <1>0, <2>1, Appended
  <2>3. retracted = {} => Len(chain') = e /\ \A i \in DOMAIN chain' : chain'[i] = i
    BY <2>1, <2>2 DEF OwedInv
  <2>4. ASSUME filter = "live", retracted = {}, NEW log \in firstOwed .. e, emitted'[log] # "other"
        PROVE  log \in Accounted'
    <3>1. ToSet(queue) \subseteq ToSet(queue') /\ (start <= e => e \in ToSet(queue'))
      <4>1. queue' = IF e >= start THEN Append(queue, e) ELSE queue
        BY <2>1, <2>3, <2>4 DEF Enqueue
      <4>2. ToSet(Append(queue, e)) = ToSet(queue) \cup {e}
        BY <1>0, <2>1, Appended
      <4>3. e >= start <=> start <= e
        BY <1>0
      <4> QED BY <4>1, <4>2, <4>3
    <3>2. CASE log = e
      <4>1. start <= e
        BY <1>0, <2>4, <3>2 DEF OwedInv
      <4> QED BY <3>1, <3>2, <4>1 DEF Accounted
    <3>3. CASE log # e
      <4>1. log \in firstOwed .. Len(emitted) /\ log \in 1 .. Len(emitted)
        BY <1>0, <3>3
      <4>2. log \in Accounted
        BY <2>1, <2>4, <4>1 DEF OwedInv, NothingPassedOver
      <4> QED BY <2>1, <3>1, <4>2 DEF Accounted
    <3> QED BY <3>2, <3>3
  <2> HIDE DEF e
  <2> QED BY <2>1, <2>3, <2>4 DEF OwedInv, NothingPassedOver
<1>2. CASE Reorg
  <2>1. retracted' # {} /\ UNCHANGED <<pc, filter, start, firstOwed>>
    BY <1>2 DEF Reorg, watcher
  <2> QED BY <2>1 DEF OwedInv, NothingPassedOver
<1>3. CASE DropFilter
  <2>1. filter = "live" /\ filter' = "dropped" /\ UNCHANGED <<emitted, chain, retracted, pc>>
    BY <1>3 DEF DropFilter, watcher
  <2> QED BY <2>1 DEF OwedInv, NothingPassedOver
<1>4. CASE CreateFilter
  <2>1. /\ UNCHANGED <<emitted, chain, retracted, start>> /\ pc' = "poll" /\ filter' = "live"
        /\ queue' = IF replays THEN SubSeq(chain, Larger(start, 1), Len(chain)) ELSE <<>>
        /\ firstOwed' = Larger(start, IF replays THEN 1 ELSE Len(chain) + 1)
    BY <1>4 DEF CreateFilter
  <2>2. start <= firstOwed'
    BY <1>0, <2>1 DEF Larger
  <2>3. ASSUME retracted = {}, NEW log \in firstOwed' .. Len(emitted)
        PROVE  log \in ToSet(queue')
    <3>1. Len(chain) = Len(emitted) /\ DOMAIN chain = 1 .. Len(chain)
      BY <1>0, <2>3, LenProperties DEF OwedInv
    <3>2. CASE replays
      <4> DEFINE m == Larger(start, 1)
      <4>1. m \in Nat /\ m >= 1 /\ firstOwed' = m
        BY <1>0, <2>1, <3>2 DEF Larger
      <4>2. log \in m .. Len(chain) /\ log \in DOMAIN chain
        BY <1>0, <3>1, <4>1
      <4>3. chain[log] \in ToSet(queue')
        BY <1>0, <2>1, <3>2, <4>1, <4>2, Suffix
      <4>4. chain[log] = log
        BY <2>3, <4>2 DEF OwedInv
      <4> QED BY <4>3, <4>4
    <3>3. CASE ~replays
      BY <1>0, <2>1, <3>1, <3>3 DEF Larger
    <3> QED BY <3>2, <3>3
  <2> QED BY <2>1, <2>2, <2>3 DEF OwedInv, NothingPassedOver, Accounted
<1>5. CASE Poll
  <2>1. batch = <<>>
    BY <1>5 DEF Poll, TypeInv, TypeOK
  <2>2. Accounted \subseteq Accounted'
    BY <1>5, <2>1, NothingIn DEF Poll, Accounted
  <2> QED BY <1>5, <2>2, StillAccounted DEF Poll
<1>6. CASE PollReplyLost
  <2>1. Accounted \subseteq Accounted'
    BY <1>6 DEF PollReplyLost, Accounted
  <2> QED BY <1>6, <2>1, StillAccounted DEF PollReplyLost
<1>7. CASE Yield
  <2>1. ToSet(batch) = {Head(batch)} \cup ToSet(Tail(batch)) /\ Head(batch) \in Logs
    BY <1>0, <1>7, Shortened DEF Yield
  <2>2. ToSet(Append(yielded, Head(batch))) = ToSet(yielded) \cup {Head(batch)}
    BY <1>0, <2>1, Appended
  <2>3. Accounted \subseteq Accounted'
    BY <1>7, <2>1, <2>2 DEF Yield, Accounted, node
  <2> QED BY <1>7, <2>3, StillAccounted DEF Yield, node
<1>8. CASE SkipForeign
  <2>1. ToSet(batch) = {Head(batch)} \cup ToSet(Tail(batch))
    BY <1>0, <1>8, Shortened DEF SkipForeign
  <2>2. Accounted \subseteq Accounted' \cup {Head(batch)} /\ emitted[Head(batch)] = "other"
    BY <1>8, <2>1 DEF SkipForeign, Accounted, node, InScope
  <2>3. UNCHANGED <<emitted, chain, retracted, pc, filter, start, firstOwed>>
    BY <1>8 DEF SkipForeign, node
  <2> QED BY <2>2, <2>3 DEF OwedInv, NothingPassedOver
<1>9. CASE Connect \/ ReadHead
  <2>1. /\ UNCHANGED <<emitted, chain, retracted, queue, batch, yielded, missed, filter, firstOwed>>
        /\ filter = "none" /\ pc \in {"connect", "head", "create"}
    BY <1>9 DEF Connect, ReadHead, node, OwedInv
  <2> QED BY <2>1 DEF OwedInv, NothingPassedOver
<1>10. CASE \/ Raise \/ PollFails \/ BuilderRaises \/ Resume \/ Close \/ EndOfBatch \/ Wake
            \/ UNCHANGED vars
  <2>1. /\ UNCHANGED <<emitted, chain, retracted, queue, batch, yielded, missed, filter, start,
                       firstOwed>>
        /\ pc' \in {"connect", "head", "create"} => pc \in {"connect", "head", "create"}
    BY <1>10 DEF Raise, PollFails, BuilderRaises, Resume, Close, EndOfBatch, Wake, vars, node
  <2>2. Accounted \subseteq Accounted'
    BY <2>1 DEF Accounted
  <2> QED BY <2>1, <2>2, StillAccounted
<1> QED BY <1>1, <1>2, <1>3, <1>4, <1>5, <1>6, <1>7, <1>8, <1>9, <1>10 DEF Next, Node, Loop

(* No event a live filter owed the watcher is passed over: it was yielded, *)
(* is in the batch or the queue, is out of scope or was in a lost reply.   *)
THEOREM NoneIsPassedOver == Spec => []NothingPassedOver
<1>1. WatcherAssumption
  BY WatcherAssumption
<1>2. OwedInv => NothingPassedOver
  BY DEF OwedInv
<1> QED BY <1>1, <1>2, TypeInit, TypeStep, OwedInit, OwedStep, PTL DEF Spec
=============================================================================
