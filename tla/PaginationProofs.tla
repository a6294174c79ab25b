-------------------------- MODULE PaginationProofs --------------------------
(***************************************************************************)
(* Proofs about Pagination, for any bounds, chunk sizes and array: what    *)
(* stood during a read is returned, once and in order, an array at rest as *)
(* the reference has it, and a read to the count stays within the array.   *)
(***************************************************************************)
EXTENDS Pagination, SequenceTheorems, WellFoundedInduction, TLAPS

-----------------------------------------------------------------------------
(* Induction over the naturals, stated of the set of numbers that have a   *)
(* property, from the well-foundedness of <.                               *)
Less == {pair \in Nat \X Nat : pair[1] < pair[2]}

LEMMA LeastNumber ==
  ASSUME NEW P \in SUBSET Nat, P # {}
  PROVE  \E m \in P : \A k \in P : m <= k
<1>1. OpToRel(<, Nat) = Less
  BY DEF OpToRel, Less
<1>2. IsWellFoundedOn(Less, Nat)
  BY NatLessThanWellFounded, <1>1, Zenon
<1>3. PICK m \in P : \A k \in P : ~ (<<k, m>> \in Less)
  BY <1>2, WFMin
<1>4. ASSUME NEW k \in P PROVE m <= k
  <2>1. m \in Nat /\ k \in Nat /\ <<k, m>> \in Nat \X Nat
    OBVIOUS
  <2>2. ~ (<<k, m>>[1] < <<k, m>>[2])
    BY <1>3, <2>1, Zenon DEF Less
  <2> QED BY <2>1, <2>2
<1> QED BY <1>4

LEMMA Induction ==
  ASSUME NEW P \in SUBSET Nat, 0 \in P, \A n \in P : n + 1 \in P
  PROVE  P = Nat
<1> SUFFICES ASSUME P # Nat PROVE FALSE
  OBVIOUS
<1>1. PICK m \in Nat \ P : \A k \in Nat \ P : m <= k
  <2>1. Nat \ P \in SUBSET Nat /\ Nat \ P # {}
    OBVIOUS
  <2> QED BY <2>1, LeastNumber
<1>2. m - 1 \in Nat /\ m - 1 \in P
  BY <1>1
<1> QED BY <1>1, <1>2
-----------------------------------------------------------------------------
(* Without, the list comprehension that drops the zero addresses.          *)
Ascends(s) == \A i, j \in DOMAIN s : i < j => s[i] < s[j]

Keeps(f, n, s, out) ==
  f = [i \in 0 .. n |-> IF i = 0 THEN <<>>
                        ELSE IF s[i] \in out THEN f[i - 1] ELSE Append(f[i - 1], s[i])]

LEMMA KeepsExists ==
  ASSUME NEW s, NEW out, NEW n \in Nat
  PROVE  \E f : Keeps(f, n, s, out)
<1> DEFINE P == {k \in Nat : \E f : Keeps(f, k, s, out)}
<1>1. 0 \in P
  <2>1. Keeps([i \in 0 .. 0 |-> <<>>], 0, s, out)
    BY DEF Keeps
  <2> QED BY <2>1
<1>2. ASSUME NEW k \in P PROVE k + 1 \in P
  <2>1. PICK f : Keeps(f, k, s, out)
    BY <1>2
  <2> DEFINE last == IF s[k + 1] \in out THEN f[k] ELSE Append(f[k], s[k + 1])
             g == [i \in 0 .. k + 1 |-> IF i = k + 1 THEN last ELSE f[i]]
  <2>2. \A i \in 0 .. k : f[i] = IF i = 0 THEN <<>>
                                 ELSE IF s[i] \in out THEN f[i - 1] ELSE Append(f[i - 1], s[i])
    BY <2>1 DEF Keeps
  <2>3. g[k + 1] = last /\ \A i \in 0 .. k : g[i] = f[i]
    OBVIOUS
  <2>4. g = [i \in 0 .. k + 1 |-> g[i]]
    OBVIOUS
  <2> HIDE DEF g
  <2>5. ASSUME NEW i \in 0 .. k + 1
        PROVE  g[i] = IF i = 0 THEN <<>>
                      ELSE IF s[i] \in out THEN g[i - 1] ELSE Append(g[i - 1], s[i])
    <3>1. CASE i = k + 1
      <4>1. i # 0 /\ i - 1 = k /\ g[k] = f[k]
        BY <2>3, <3>1
      <4> QED BY <2>3, <3>1, <4>1
    <3>2. CASE i # k + 1
      <4>1. i \in 0 .. k /\ (i # 0 => i - 1 \in 0 .. k)
        BY <3>2
      <4> QED BY <2>2, <2>3, <4>1
    <3> QED BY <3>1, <3>2
  <2>6. Keeps(g, k + 1, s, out)
    BY <2>4, <2>5 DEF Keeps
  <2> QED BY <2>6
<1> HIDE DEF P
<1>3. P = Nat
  <2>1. P \in SUBSET Nat
    BY DEF P
  <2> QED BY <1>1, <1>2, <2>1, Induction
<1> QED BY <1>3 DEF P

(* After n entries: those of the first n that are not in out, in order.    *)
LEMMA KeepsEntries ==
  ASSUME NEW S, NEW s \in Seq(S), NEW out, NEW f, Keeps(f, Len(s), s, out)
  PROVE  \A n \in 0 .. Len(s) :
           /\ f[n] \in Seq(S)
           /\ ToSet(f[n]) = {s[k] : k \in 1 .. n} \ out
           /\ Ascends(s) => Ascends(f[n])
<1> DEFINE G(n) == /\ f[n] \in Seq(S)
                   /\ ToSet(f[n]) = {s[k] : k \in 1 .. n} \ out
                   /\ Ascends(s) => Ascends(f[n])
           P == {n \in Nat : n <= Len(s) => G(n)}
<1>0. Len(s) \in Nat /\ DOMAIN s = 1 .. Len(s)
  BY LenProperties
<1>1. \A i \in 0 .. Len(s) : f[i] = IF i = 0 THEN <<>>
                                    ELSE IF s[i] \in out THEN f[i - 1] ELSE Append(f[i - 1], s[i])
  BY DEF Keeps
<1>2. G(0)
  <2>1. f[0] = <<>>
    BY <1>0, <1>1
  <2>2. ToSet(<<>>) = {} /\ Ascends(<<>>) /\ <<>> \in Seq(S)
    BY DEF ToSet, Ascends
  <2> QED BY <2>1, <2>2
<1>3. ASSUME NEW n \in Nat, n + 1 <= Len(s), G(n) PROVE G(n + 1)
  <2>1. n + 1 \in 1 .. Len(s) /\ n + 1 # 0 /\ (n + 1) - 1 = n /\ s[n + 1] \in S
    BY <1>0, <1>3, ElementOfSeq
  <2>2. f[n + 1] = IF s[n + 1] \in out THEN f[n] ELSE Append(f[n], s[n + 1])
    BY <1>1, <2>1
  <2>3. {s[k] : k \in 1 .. n + 1} = {s[k] : k \in 1 .. n} \cup {s[n + 1]}
    BY <2>1
  <2>4. CASE s[n + 1] \in out
    BY <1>3, <2>2, <2>3, <2>4
  <2>5. CASE s[n + 1] \notin out
    <3> DEFINE t == Append(f[n], s[n + 1])
    <3>1. /\ t \in Seq(S) /\ Len(t) = Len(f[n]) + 1 /\ t[Len(f[n]) + 1] = s[n + 1]
          /\ \A i \in 1 .. Len(f[n]) : t[i] = f[n][i]
      BY <1>3, <2>1, AppendProperties
    <3>2. Len(f[n]) \in Nat /\ DOMAIN f[n] = 1 .. Len(f[n]) /\ DOMAIN t = 1 .. Len(f[n]) + 1
      BY <1>3, <3>1, LenProperties
    <3> HIDE DEF t
    <3>3. ToSet(t) = ToSet(f[n]) \cup {s[n + 1]}
      <4>1. Len(f[n]) + 1 \in DOMAIN t /\ DOMAIN f[n] \subseteq DOMAIN t
        BY <3>2
      <4>2. \A i \in DOMAIN t : i \in DOMAIN f[n] \/ i = Len(f[n]) + 1
        BY <3>2
      <4> QED BY <3>1, <3>2, <4>1, <4>2 DEF ToSet
    <3>4. ASSUME Ascends(s) PROVE Ascends(t)
      <4>1. \A i \in DOMAIN f[n] : f[n][i] < s[n + 1]
        <5>1. ASSUME NEW i \in DOMAIN f[n] PROVE f[n][i] < s[n + 1]
          <6>1. f[n][i] \in ToSet(f[n])
            BY DEF ToSet
          <6>2. PICK k \in 1 .. n : f[n][i] = s[k]
            BY <1>3, <6>1
          <6>3. k \in DOMAIN s /\ n + 1 \in DOMAIN s /\ k < n + 1
            BY <1>0, <2>1
          <6> QED BY <3>4, <6>2, <6>3 DEF Ascends
        <5> QED BY <5>1
      <4>2. Ascends(f[n])
        BY <1>3, <3>4
      <4>3. ASSUME NEW i \in DOMAIN t, NEW j \in DOMAIN t, i < j PROVE t[i] < t[j]
        <5>1. i \in DOMAIN f[n] /\ t[i] = f[n][i] /\ i \in 1 .. Len(f[n])
          BY <3>1, <3>2, <4>3
        <5>2. CASE j = Len(f[n]) + 1
          BY <3>1, <4>1, <5>1, <5>2
        <5>3. CASE j # Len(f[n]) + 1
          <6>1. j \in DOMAIN f[n] /\ t[j] = f[n][j]
            BY <3>1, <3>2, <5>3
          <6> QED BY <4>2, <4>3, <5>1, <6>1 DEF Ascends
        <5> QED BY <5>2, <5>3
      <4> QED BY <4>3 DEF Ascends
    <3>5. f[n + 1] = t
      BY <2>2, <2>5 DEF t
    <3> QED BY <1>3, <2>3, <2>5, <3>1, <3>3, <3>4, <3>5
  <2> QED BY <2>4, <2>5
<1> HIDE DEF G
<1>4. 0 \in P /\ \A n \in P : n + 1 \in P
  BY <1>0, <1>2, <1>3
<1>5. P = Nat
  <2> HIDE DEF P
  <2>1. P \in SUBSET Nat
    BY DEF P
  <2> QED BY <1>4, <2>1, Induction
<1>6. \A n \in 0 .. Len(s) : G(n)
  BY <1>0, <1>5
<1> QED BY <1>6 DEF G

LEMMA WithoutKeeps ==
  ASSUME NEW S, NEW s \in Seq(S), NEW out
  PROVE  /\ Without(s, out) \in Seq(S)
         /\ ToSet(Without(s, out)) = ToSet(s) \ out
         /\ Ascends(s) => Ascends(Without(s, out))
<1> DEFINE f == CHOOSE g : Keeps(g, Len(s), s, out)
<1>1. Without(s, out) = f[Len(s)]
  BY DEF Without, Keeps
<1>2. Len(s) \in Nat /\ DOMAIN s = 1 .. Len(s)
  BY LenProperties
<1>3. Keeps(f, Len(s), s, out)
  BY <1>2, KeepsExists
<1> HIDE DEF f
<1>4. Len(s) \in 0 .. Len(s)
  BY <1>2
<1>5. /\ f[Len(s)] \in Seq(S) /\ ToSet(f[Len(s)]) = {s[k] : k \in 1 .. Len(s)} \ out
      /\ Ascends(s) => Ascends(f[Len(s)])
  <2>1. \A n \in 0 .. Len(s) :
           /\ f[n] \in Seq(S)
           /\ ToSet(f[n]) = {s[k] : k \in 1 .. n} \ out
           /\ Ascends(s) => Ascends(f[n])
    BY <1>3, KeepsEntries
  <2> QED BY <1>4, <2>1, Zenon
<1>6. {s[k] : k \in 1 .. Len(s)} = ToSet(s)
  BY <1>2 DEF ToSet
<1> QED BY <1>1, <1>5, <1>6

(* Two ascending sequences with the same entries are the same.             *)
LEMMA AgreeUpTo ==
  ASSUME NEW s \in Seq(Nat), NEW t \in Seq(Nat), Ascends(s), Ascends(t),
         ToSet(s) = ToSet(t), NEW n \in Nat, n <= Len(s),
         \A k \in 1 .. n : k < n => k \in DOMAIN t /\ s[k] = t[k], n >= 1
  PROVE  n \in DOMAIN t /\ s[n] = t[n]
<1>1. /\ Len(s) \in Nat /\ Len(t) \in Nat /\ DOMAIN s = 1 .. Len(s) /\ DOMAIN t = 1 .. Len(t)
  BY LenProperties
<1>2. n \in DOMAIN s
  BY <1>1
<1>3. PICK j \in DOMAIN t : t[j] = s[n]
  <2>1. s[n] \in ToSet(s)
    BY <1>2 DEF ToSet
  <2> QED BY <2>1 DEF ToSet
<1>4. s[n] \in Nat /\ j \in Nat /\ j >= 1
  BY <1>1, <1>2, ElementOfSeq
<1>5. j >= n
  <2> SUFFICES ASSUME j < n PROVE FALSE
    BY <1>4
  <2>1. s[j] = t[j] /\ j \in DOMAIN s
    BY <1>1, <1>3, <1>4
  <2>2. s[j] < s[n]
    BY <1>2, <2>1 DEF Ascends
  <2> QED BY <1>3, <1>4, <2>1, <2>2
<1>6. n \in DOMAIN t
  BY <1>1, <1>3, <1>5
<1>7. CASE j = n
  BY <1>3, <1>6, <1>7
<1>8. CASE j > n
  <2>1. t[n] < t[j] /\ t[n] \in Nat
    BY <1>1, <1>6, <1>8, ElementOfSeq DEF Ascends
  <2>2. PICK i \in DOMAIN s : s[i] = t[n]
    <3>1. t[n] \in ToSet(t)
      BY <1>6 DEF ToSet
    <3> QED BY <3>1 DEF ToSet
  <2>3. i < n
    <3> SUFFICES ASSUME ~(i < n) PROVE FALSE
      OBVIOUS
    <3>0. i \in Nat /\ (i = n \/ n < i)
      BY <1>1
    <3>1. i = n \/ s[n] < s[i]
      BY <1>2, <3>0 DEF Ascends
    <3>2. s[i] < s[n] /\ s[i] \in Nat
      BY <1>3, <2>1, <2>2
    <3> QED BY <1>4, <3>1, <3>2
  <2>4. s[i] = t[i] /\ i \in DOMAIN t
    BY <1>1, <2>3
  <2>5. t[i] < t[n]
    BY <1>6, <2>3, <2>4 DEF Ascends
  <2> QED BY <2>1, <2>2, <2>4, <2>5
<1> QED BY <1>1, <1>4, <1>5, <1>7, <1>8

LEMMA AgreeOnAll ==
  ASSUME NEW s \in Seq(Nat), NEW t \in Seq(Nat), Ascends(s), Ascends(t), ToSet(s) = ToSet(t)
  PROVE  \A k \in DOMAIN s : k \in DOMAIN t /\ s[k] = t[k]
<1> DEFINE P == {n \in Nat : \A k \in 1 .. n : k <= Len(s) => k \in DOMAIN t /\ s[k] = t[k]}
<1>1. 0 \in P
  OBVIOUS
<1>2. ASSUME NEW n \in P PROVE n + 1 \in P
  <2>1. ASSUME NEW k \in 1 .. n + 1, k <= Len(s) PROVE k \in DOMAIN t /\ s[k] = t[k]
    <3>0. Len(s) \in Nat /\ n \in Nat
      BY LenProperties
    <3>1. \A i \in 1 .. n : i <= Len(s) => i \in DOMAIN t /\ s[i] = t[i]
      BY <1>2
    <3>2. CASE k <= n
      BY <2>1, <3>0, <3>1, <3>2
    <3>3. CASE k = n + 1
      <4>1. k \in Nat /\ k >= 1 /\ k <= Len(s)
        BY <2>1
      <4>2. \A i \in 1 .. k : i < k => i \in DOMAIN t /\ s[i] = t[i]
        BY <2>1, <3>0, <3>1, <3>3
      <4> QED BY <4>1, <4>2, AgreeUpTo
    <3> QED BY <2>1, <3>0, <3>2, <3>3
  <2> QED BY <2>1
<1>3. P = Nat
  <2> HIDE DEF P
  <2>1. P \in SUBSET Nat
    BY DEF P
  <2> QED BY <1>1, <1>2, <2>1, Induction
<1>4. Len(s) \in P /\ DOMAIN s = 1 .. Len(s) /\ Len(s) \in Nat
  BY <1>3, LenProperties
<1> QED BY <1>4

LEMMA SameSequence ==
  ASSUME NEW s \in Seq(Nat), NEW t \in Seq(Nat), Ascends(s), Ascends(t), ToSet(s) = ToSet(t)
  PROVE  s = t
<1>1. \A k \in DOMAIN s : k \in DOMAIN t /\ s[k] = t[k]
  BY AgreeOnAll
<1>2. \A k \in DOMAIN t : k \in DOMAIN s
  BY AgreeOnAll
<1>3. DOMAIN s = 1 .. Len(s) /\ DOMAIN t = 1 .. Len(t) /\ Len(s) \in Nat /\ Len(t) \in Nat
  BY LenProperties
<1>4. Len(s) = Len(t)
  <2>1. Len(s) <= Len(t)
    <3>1. Len(s) = 0 \/ Len(s) \in DOMAIN s
      BY <1>3
    <3> QED BY <1>1, <1>3, <3>1
  <2>2. Len(t) <= Len(s)
    <3>1. Len(t) = 0 \/ Len(t) \in DOMAIN t
      BY <1>3
    <3> QED BY <1>2, <1>3, <3>1
  <2>3. Len(s) \in Nat /\ Len(t) \in Nat
    BY <1>3
  <2> QED BY <2>1, <2>2, <2>3
<1>5. \A k \in 1 .. Len(s) : s[k] = t[k]
  BY <1>1, <1>3
<1> QED BY <1>4, <1>5, SeqEqual

(* An ascending page goes on where an ascending list has ended.            *)
LEMMA AscendingConcat ==
  ASSUME NEW S, NEW s \in Seq(S), NEW t \in Seq(S), Ascends(s), Ascends(t),
         \A x \in ToSet(s), y \in ToSet(t) : x < y
  PROVE  /\ s \o t \in Seq(S) /\ ToSet(s \o t) = ToSet(s) \cup ToSet(t)
         /\ Ascends(s \o t)
<1> DEFINE u == s \o t
<1>1. /\ u \in Seq(S) /\ Len(u) = Len(s) + Len(t)
      /\ \A i \in 1 .. Len(s) + Len(t) : u[i] = IF i <= Len(s) THEN s[i] ELSE t[i - Len(s)]
  BY ConcatProperties
<1>2. /\ Len(s) \in Nat /\ Len(t) \in Nat /\ DOMAIN s = 1 .. Len(s) /\ DOMAIN t = 1 .. Len(t)
      /\ DOMAIN u = 1 .. Len(s) + Len(t)
  BY <1>1, LenProperties
<1> HIDE DEF u
<1>3. \A i \in DOMAIN u : \/ i \in DOMAIN s /\ u[i] = s[i]
                          \/ i - Len(s) \in DOMAIN t /\ u[i] = t[i - Len(s)] /\ i > Len(s)
  BY <1>1, <1>2
<1>4. \A i \in DOMAIN s : i \in DOMAIN u /\ u[i] = s[i]
  BY <1>1, <1>2
<1>5. \A i \in DOMAIN t : i + Len(s) \in DOMAIN u /\ u[i + Len(s)] = t[i]
  BY <1>1, <1>2
<1>6. ToSet(u) = ToSet(s) \cup ToSet(t)
  <2>1. ToSet(u) \subseteq ToSet(s) \cup ToSet(t)
    BY <1>3 DEF ToSet
  <2>2. ToSet(s) \subseteq ToSet(u) /\ ToSet(t) \subseteq ToSet(u)
    BY <1>4, <1>5 DEF ToSet
  <2> QED BY <2>1, <2>2
<1>7. ASSUME NEW i \in DOMAIN u, NEW j \in DOMAIN u, i < j PROVE u[i] < u[j]
  <2>1. CASE j \in DOMAIN s /\ u[j] = s[j]
    <3>1. i \in DOMAIN s /\ u[i] = s[i]
      BY <1>2, <1>3, <1>7, <2>1
    <3> QED BY <1>7, <2>1, <3>1 DEF Ascends
  <2>2. CASE j - Len(s) \in DOMAIN t /\ u[j] = t[j - Len(s)]
    <3>1. CASE i \in DOMAIN s /\ u[i] = s[i]
      <4>1. u[i] \in ToSet(s) /\ u[j] \in ToSet(t)
        BY <2>2, <3>1 DEF ToSet
      <4> QED BY <4>1
    <3>2. CASE i - Len(s) \in DOMAIN t /\ u[i] = t[i - Len(s)]
      <4>1. i - Len(s) < j - Len(s)
        BY <1>2, <1>7
      <4> QED BY <2>2, <3>2, <4>1 DEF Ascends
    <3> QED BY <1>3, <3>1, <3>2
  <2> QED BY <1>3, <2>1, <2>2
<1>8. Ascends(u)
  BY <1>7 DEF Ascends
<1> QED BY <1>1, <1>6, <1>8 DEF u

(* What one call of the getter adds: the slots from first to end - 1 that  *)
(* hold an entry.                                                          *)
LEMMA PageOfSlots ==
  ASSUME NEW first \in Nat, NEW end \in Nat, NEW out
  PROVE  LET page == Without(Entries(first, LastBefore(end)), out) IN
         /\ page \in Seq(first .. end - 1) /\ Ascends(page)
         /\ ToSet(page) = (first .. end - 1) \ out
<1> DEFINE e == Entries(first, LastBefore(end))
           n == IF first < end THEN end - first ELSE 0
<1>1. n \in Nat /\ e = [i \in 1 .. n |-> first + i - 1]
  <2>1. 1 .. (end - 1) + 1 - first = 1 .. n
    OBVIOUS
  <2> QED BY <2>1 DEF Entries, LastBefore
<1> HIDE DEF e
<1>2. \A i \in 1 .. n : e[i] = first + i - 1 /\ e[i] \in first .. end - 1
  BY <1>1
<1>3. e \in Seq(first .. end - 1) /\ DOMAIN e = 1 .. n
  <2>1. e \in [1 .. n -> first .. end - 1]
    BY <1>1, <1>2
  <2> QED BY <1>1, <2>1
<1>4. Ascends(e)
  BY <1>1, <1>2, <1>3 DEF Ascends
<1>5. ToSet(e) = first .. end - 1
  <2>1. ToSet(e) \subseteq first .. end - 1
    BY <1>2, <1>3 DEF ToSet
  <2>2. ASSUME NEW x \in first .. end - 1 PROVE x \in ToSet(e)
    <3>1. x - first + 1 \in DOMAIN e /\ e[x - first + 1] = x
      BY <1>1, <1>2, <1>3
    <3> QED BY <3>1 DEF ToSet
  <2> QED BY <2>1, <2>2
<1> QED BY <1>3, <1>4, <1>5, WithoutKeeps DEF e
-----------------------------------------------------------------------------
(* The read.                                                               *)
ReadInv ==
  /\ TypeOK
  /\ holes \subseteq 0 .. slots - 1
  /\ pc \in {"count", "fetch"} /\ (fromZero \/ pc = "count") => results = <<>> /\ current = lower
  /\ lower <= current
  /\ Ascends(results)
  /\ \A slot \in lower .. current - 1 : slot \notin holes => slot \in ToSet(results)
  /\ ToSet(results) \subseteq {slot \in lower .. current - 1 : slot \notin holes \/ slot \in left}
  /\ pc = "done" => bound <= current
  /\ current <= lower \/ (current <= bound /\ current <= slots)
  /\ upper = ToCount /\ pc = "fetch" => bound <= slots

LEMMA ReadInit == PaginationAssumption /\ Init => ReadInv
<1> SUFFICES ASSUME PaginationAssumption, Init PROVE ReadInv
  OBVIOUS
<1>1. MaxSlots \in Nat /\ lower \in Nat /\ slots \in Nat
  BY DEF PaginationAssumption, Init
<1>2. ToSet(results) = {} /\ Ascends(results) /\ results \in Seq(Slots)
  BY DEF Init, ToSet, Ascends
<1>3. holes \subseteq 0 .. slots - 1 /\ holes \subseteq Slots
  BY <1>1 DEF Init, Slots
<1> QED BY <1>1, <1>2, <1>3 DEF Init, ReadInv, TypeOK

LEMMA ReadFetch ==
  ASSUME PaginationAssumption, ReadInv, pc = "fetch", NEW first \in Nat, NEW end \in Nat,
         first = current, current < end, end <= bound, Readable(LastBefore(end)),
         results' = results \o NoHoles(Entries(first, LastBefore(end))),
         current' = end, pc' = (IF end < bound THEN "fetch" ELSE "done"),
         fromZero => end = bound,
         UNCHANGED <<array, callParams, bound>>
  PROVE  ReadInv'
<1> DEFINE page == NoHoles(Entries(first, LastBefore(end)))
<1>1. page \in Seq(first .. end - 1) /\ Ascends(page) /\ ToSet(page) = (first .. end - 1) \ holes
  BY PageOfSlots DEF NoHoles
<1>2. /\ MaxSlots \in Nat /\ lower \in Nat /\ slots \in 0 .. MaxSlots /\ bound \in Nat
      /\ current \in Nat /\ lower <= current /\ results \in Seq(Slots)
  BY DEF PaginationAssumption, ReadInv, TypeOK
<1>3. end <= slots
  BY <1>2 DEF Readable, LastBefore
<1>4. page \in Seq(Slots)
  <2>1. first .. end - 1 \subseteq Slots
    BY <1>2, <1>3 DEF Slots
  <2> QED BY <1>1, <2>1, SeqMonotonic
<1> HIDE DEF page
<1>5. \A x \in ToSet(results), y \in ToSet(page) : x < y
  BY <1>1, <1>2 DEF ReadInv
<1>6. /\ results' \in Seq(Slots) /\ ToSet(results') = ToSet(results) \cup ToSet(page)
      /\ Ascends(results')
  <2>1. results' = results \o page
    BY DEF page
  <2> QED BY <1>1, <1>2, <1>4, <1>5, <2>1, AscendingConcat DEF ReadInv
<1>7. /\ UNCHANGED <<slots, holes, arrived, left, lower, upper, chunkSize, fromZero>>
  BY DEF array, callParams
<1>8. TypeOK'
  BY <1>2, <1>6, <1>7 DEF ReadInv, TypeOK
<1>9. lower .. end - 1 = (lower .. current - 1) \cup (first .. end - 1)
  BY <1>2
<1>10. /\ \A slot \in lower .. end - 1 : slot \notin holes => slot \in ToSet(results')
       /\ ToSet(results') \subseteq {slot \in lower .. end - 1 : slot \notin holes \/ slot \in left}
  BY <1>1, <1>6, <1>9 DEF ReadInv
<1> QED BY <1>2, <1>3, <1>6, <1>7, <1>8, <1>10 DEF ReadInv

LEMMA ReadStep == PaginationAssumption /\ ReadInv /\ [Next]_vars => ReadInv'
<1> SUFFICES ASSUME PaginationAssumption, ReadInv, [Next]_vars PROVE ReadInv'
  OBVIOUS
<1>0. /\ MaxSlots \in Nat /\ lower \in Nat /\ slots \in 0 .. MaxSlots /\ bound \in Nat
      /\ current \in Nat /\ ToCount \notin Nat /\ chunkSize \in Nat \ {0} /\ Bounds \subseteq Nat
  BY DEF PaginationAssumption, ReadInv, TypeOK
<1>1. CASE Grow
  <2>1. /\ UNCHANGED <<holes, left, lower, upper, chunkSize, fromZero, bound, pc, current, results>>
        /\ slots' = slots + 1 /\ slots < MaxSlots /\ arrived' = arrived \cup {slots}
    BY <1>1 DEF Grow, callParams
  <2>2. TypeOK'
    BY <1>0, <2>1 DEF ReadInv, TypeOK, Slots
  <2> QED BY <1>0, <2>1, <2>2 DEF ReadInv
<1>2. ASSUME NEW slot \in Slots, Vacate(slot) PROVE ReadInv'
  <2>1. /\ UNCHANGED <<slots, arrived, lower, upper, chunkSize, fromZero, bound, pc, current, results>>
        /\ holes' = holes \cup {slot} /\ left' = left \cup {slot} /\ slot \in 0 .. slots - 1
    BY <1>2 DEF Vacate, callParams
  <2>2. TypeOK'
    BY <1>2, <2>1 DEF ReadInv, TypeOK
  <2> QED BY <1>0, <2>1, <2>2 DEF ReadInv
<1>3. CASE Raise
  <2>1. UNCHANGED <<array, callParams, bound, current, results>> /\ pc' = "raised"
    BY <1>3 DEF Raise
  <2> QED BY <2>1 DEF ReadInv, TypeOK, array, callParams
<1>4. CASE Count
  <2>1. /\ UNCHANGED <<array, callParams, current, results>> /\ pc = "count"
        /\ bound' = IF upper = ToCount THEN slots ELSE upper
        /\ pc' = IF bound' <= lower THEN "done" ELSE "fetch"
    BY <1>4 DEF Count
  <2>2. bound' \in Nat /\ current = lower /\ results = <<>>
    BY <1>0, <2>1 DEF ReadInv, TypeOK
  <2>3. TypeOK'
    BY <1>0, <2>1, <2>2 DEF ReadInv, TypeOK, array, callParams
  <2> QED BY <1>0, <2>1, <2>2, <2>3 DEF ReadInv, array, callParams
<1>5. CASE FetchChunk
  <2> DEFINE end == IF current + chunkSize <= bound THEN current + chunkSize ELSE bound
  <2>1. /\ pc = "fetch" /\ ~fromZero /\ Fetch(current, end)
        /\ UNCHANGED <<array, callParams, bound>>
    BY <1>5 DEF FetchChunk
  <2>2. end \in Nat /\ current < end /\ end <= bound
    BY <1>0, <2>1 DEF ReadInv, TypeOK
  <2> HIDE DEF end
  <2>3. CASE ~Readable(LastBefore(end))
    <3>1. pc' = "raised" /\ UNCHANGED <<current, results>>
      BY <2>1, <2>3 DEF Fetch
    <3> QED BY <2>1, <3>1 DEF ReadInv, TypeOK, array, callParams
  <2>4. CASE Readable(LastBefore(end))
    BY <1>0, <2>1, <2>2, <2>4, ReadFetch DEF Fetch
  <2> QED BY <2>3, <2>4
<1>6. CASE FetchFromZero
  <2>1. /\ pc = "fetch" /\ fromZero /\ Fetch(lower, bound)
        /\ UNCHANGED <<array, callParams, bound>>
    BY <1>6 DEF FetchFromZero
  <2>2. current = lower /\ current < bound
    BY <2>1 DEF ReadInv, TypeOK
  <2>3. CASE ~Readable(LastBefore(bound))
    <3>1. pc' = "raised" /\ UNCHANGED <<current, results>>
      BY <2>1, <2>3 DEF Fetch
    <3> QED BY <2>1, <3>1 DEF ReadInv, TypeOK, array, callParams
  <2>4. CASE Readable(LastBefore(bound))
    BY <1>0, <2>1, <2>2, <2>4, ReadFetch DEF Fetch
  <2> QED BY <2>3, <2>4
<1>7. CASE Terminated \/ UNCHANGED vars
  <2>1. UNCHANGED vars
    BY <1>7 DEF Terminated
  <2> QED BY <2>1 DEF vars, array, callParams, ReadInv, TypeOK
<1> QED BY <1>1, <1>2, <1>3, <1>4, <1>5, <1>6, <1>7 DEF Next

LEMMA ReadAlways == Spec => []ReadInv
<1>1. PaginationAssumption
  BY PaginationAssumption
<1> QED BY <1>1, ReadInit, ReadStep, PTL DEF Spec

(* Every variable of a read keeps its type.                                *)
THEOREM TypeCorrect == Spec => []TypeOK
<1>1. ReadInv => TypeOK
  BY DEF ReadInv
<1> QED BY <1>1, ReadAlways, PTL

(* What stood throughout the read is returned once and in order, and       *)
(* nothing that was a hole before it.                                      *)
THEOREM StandingIsRead == Spec => []ReadsWhatStood
<1>1. ReadInv => ReadsWhatStood
  <2> SUFFICES ASSUME ReadInv, pc = "done"
               PROVE  /\ \A slot \in Asked : slot \notin holes => slot \in ToSet(results)
                      /\ ToSet(results) \subseteq {slot \in Asked : slot \notin holes \/ slot \in left}
                      /\ \A i, j \in DOMAIN results : i < j => results[i] < results[j]
    BY DEF ReadsWhatStood
  <2>1. lower \in Nat /\ bound \in Nat /\ current \in Nat
    BY PaginationAssumption DEF PaginationAssumption, ReadInv, TypeOK
  <2>2. Asked = lower .. current - 1
    BY <2>1 DEF Asked, ReadInv
  <2> QED BY <2>2 DEF ReadInv, Ascends
<1> QED BY <1>1, ReadAlways, PTL

(* An array at rest is returned as the reference definition has it.        *)
THEOREM RangeIsRead == Spec => []ReadsTheRange
<1>1. ReadInv => ReadsTheRange
  <2> SUFFICES ASSUME ReadInv, pc = "done", left = {} PROVE results = Reference
    BY DEF ReadsTheRange
  <2>1. /\ lower \in Nat /\ bound \in Nat /\ current \in Nat /\ MaxSlots \in Nat
        /\ slots \in 0 .. MaxSlots
    BY PaginationAssumption DEF PaginationAssumption, ReadInv, TypeOK
  <2> DEFINE out == holes \cup {slot \in Slots : slot < lower \/ slot >= bound}
             all == [i \in 1 .. slots |-> i - 1]
  <2>2. all \in Seq(0 .. slots - 1) /\ Ascends(all) /\ ToSet(all) = 0 .. slots - 1
    <3>1. all = Entries(0, slots - 1)
      BY <2>1 DEF Entries
    <3>2. \A i \in 1 .. slots : all[i] = i - 1 /\ all[i] \in 0 .. slots - 1
      BY <2>1
    <3>3. all \in [1 .. slots -> 0 .. slots - 1] /\ DOMAIN all = 1 .. slots
      BY <3>2
    <3> HIDE DEF all
    <3>4. all \in Seq(0 .. slots - 1)
      BY <2>1, <3>3
    <3>5. Ascends(all)
      BY <2>1, <3>2, <3>3 DEF Ascends
    <3>6. ToSet(all) \subseteq 0 .. slots - 1
      BY <3>2, <3>3 DEF ToSet
    <3>7. ASSUME NEW x \in 0 .. slots - 1 PROVE x \in ToSet(all)
      <4>1. x + 1 \in DOMAIN all /\ all[x + 1] = x
        BY <2>1, <3>2, <3>3
      <4> QED BY <4>1 DEF ToSet
    <3> QED BY <3>4, <3>5, <3>6, <3>7
  <2> HIDE DEF all
  <2>3. /\ Reference \in Seq(0 .. slots - 1) /\ Ascends(Reference)
        /\ ToSet(Reference) = (0 .. slots - 1) \ out
    <3>1. Reference = Without(all, out)
      BY DEF Reference, all
    <3> HIDE DEF out
    <3>2. /\ Without(all, out) \in Seq(0 .. slots - 1)
          /\ ToSet(Without(all, out)) = ToSet(all) \ out
          /\ Ascends(all) => Ascends(Without(all, out))
      BY <2>2, WithoutKeeps
    <3> QED BY <2>2, <3>1, <3>2
  <2>4. ToSet(results) = (lower .. current - 1) \ holes
    BY DEF ReadInv
  <2>5. (lower .. current - 1) \ holes = (0 .. slots - 1) \ out
    BY <2>1 DEF out, Slots, ReadInv
  <2>6. Reference \in Seq(Nat)
    BY <2>1, <2>3, SeqMonotonic, 0 .. slots - 1 \subseteq Nat
  <2>7. results \in Seq(Nat) /\ Ascends(results)
    <3>1. Slots \subseteq Nat
      BY <2>1 DEF Slots
    <3> QED BY <3>1, SeqMonotonic DEF ReadInv, TypeOK
  <2> QED BY <2>3, <2>4, <2>5, <2>6, <2>7, SameSequence
<1> QED BY <1>1, ReadAlways, PTL

(* A read to the count never asks for a slot the contract does not have.   *)
THEOREM StaysWithinArray == Spec => NeverPastTheEnd
<1>1. ReadInv => [pc = "fetch" /\ pc' = "raised" /\ ~Readable(bound - 1) => upper # ToCount]_vars
  <2>1. ASSUME ReadInv, pc = "fetch", upper = ToCount PROVE Readable(bound - 1)
    <3>1. bound \in Nat /\ bound <= slots /\ slots \in Nat
      BY <2>1 DEF ReadInv, TypeOK
    <3> QED BY <3>1 DEF Readable
  <2> QED BY <2>1
<1> QED BY <1>1, ReadAlways, PTL DEF NeverPastTheEnd
=============================================================================
