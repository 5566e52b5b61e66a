--------------------------- MODULE LRUListProofs ---------------------------
(***************************************************************************)
(* Facts about lists without duplicates: what erasing an element, popping  *)
(* and pushing at either end do to the set of their elements and to their  *)
(* order, and how long such a list can get.  They serve the replacer's     *)
(* list, the free list of the buffer pool and the free-page chain of a     *)
(* table file alike.                                                       *)
(***************************************************************************)
EXTENDS LRUList, FiniteSetTheorems, TLAPS

\* Every ordered pair of entries of r is an ordered pair of entries of l.
KeepsOrder(r, l) ==
    \A i, j \in 1..Len(r) : i < j =>
        \E a, b \in 1..Len(l) : a < b /\ r[i] = l[a] /\ r[j] = l[b]

\* The elements of a sequence are the values at its positions.
LEMMA SeqValues ==
  ASSUME NEW F, NEW l \in Seq(F)
  PROVE  /\ DOMAIN l = 1..Len(l)
         /\ Range(l) = {l[i] : i \in 1..Len(l)}
         /\ Range(l) \subseteq F
BY DEF Range

\* Erase drops one position and moves the later ones up.
LEMMA EraseProperties ==
  ASSUME NEW F, NEW l \in Seq(F), NEW i \in 1..Len(l)
  PROVE  /\ Erase(l, i) \in Seq(F)
         /\ Len(Erase(l, i)) = Len(l) - 1
         /\ \A j \in 1..(Len(l) - 1) :
               Erase(l, i)[j] = IF j < i THEN l[j] ELSE l[j + 1]
<1> DEFINE a == SubSeq(l, 1, i - 1)
           b == SubSeq(l, i + 1, Len(l))
<1>1. /\ a \in Seq(F) /\ Len(a) = i - 1
      /\ \A j \in 1..(i - 1) : a[j] = l[j]
  OBVIOUS
<1>2. /\ b \in Seq(F) /\ Len(b) = Len(l) - i
      /\ \A j \in 1..(Len(l) - i) : b[j] = l[i + j]
  OBVIOUS
<1> HIDE DEF a, b
<1>3. /\ a \o b \in Seq(F) /\ Len(a \o b) = Len(l) - 1
      /\ \A j \in 1..(Len(l) - 1) : (a \o b)[j] = IF j <= i - 1 THEN a[j] ELSE b[j - (i - 1)]
  <2>1. /\ Len(a \o b) = Len(a) + Len(b)
        /\ \A j \in 1..(Len(a) + Len(b)) :
              (a \o b)[j] = IF j <= Len(a) THEN a[j] ELSE b[j - Len(a)]
    <3>1. a \in Seq(F) /\ b \in Seq(F)
      BY <1>1, <1>2
    <3> QED BY <3>1
  <2>2. a \o b \in Seq(F)
    BY <1>1, <1>2
  <2>3. Len(a) + Len(b) = Len(l) - 1
    BY <1>1, <1>2
  <2> QED BY <2>1, <2>2, <2>3, <1>1
<1>4. ASSUME NEW j \in 1..(Len(l) - 1)
      PROVE  (a \o b)[j] = IF j < i THEN l[j] ELSE l[j + 1]
  <2>1. CASE j < i
    BY <2>1, <1>1, <1>3
  <2>2. CASE ~(j < i)
    <3>1. j - (i - 1) \in 1..(Len(l) - i)
      BY <2>2
    <3>2. b[j - (i - 1)] = l[i + (j - (i - 1))]
      BY <3>1, <1>2
    <3>3. i + (j - (i - 1)) = j + 1
      OBVIOUS
    <3> QED BY <3>2, <3>3, <2>2, <1>3
  <2> QED BY ZenonT(30), <2>1, <2>2
<1> QED BY ZenonT(30), <1>3, <1>4 DEF Erase, a, b

\* LRUReplacer::pin removes the frame and nothing else, keeping the order.
LEMMA AfterPinProperties ==
  ASSUME NEW F, NEW l \in Seq(F), IsInjective(l), NEW f
  PROVE  /\ AfterPin(l, f) \in Seq(F)
         /\ IsInjective(AfterPin(l, f))
         /\ Range(AfterPin(l, f)) = Range(l) \ {f}
         /\ Len(AfterPin(l, f)) <= Len(l)
         /\ KeepsOrder(AfterPin(l, f), l)
<1>1. CASE f \notin Range(l)
  <2>1. AfterPin(l, f) = l
    BY <1>1 DEF AfterPin
  <2>2. KeepsOrder(l, l)
    BY DEF KeepsOrder
  <2> QED BY <1>1, <2>1, <2>2
<1>2. CASE f \in Range(l)
  <2> DEFINE i == PositionOf(l, f)
             r == Erase(l, i)
  <2>1. i \in 1..Len(l) /\ l[i] = f
    BY <1>2, SeqValues DEF PositionOf
  <2>2. AfterPin(l, f) = r
    BY <1>2 DEF AfterPin
  <2>3. /\ r \in Seq(F) /\ Len(r) = Len(l) - 1
        /\ \A j \in 1..Len(r) : r[j] = IF j < i THEN l[j] ELSE l[j + 1]
    BY ZenonT(30), <2>1, EraseProperties
  <2> HIDE DEF i, r
  <2>4. \A a, b \in 1..Len(l) : l[a] = l[b] => a = b
    BY DEF IsInjective
  <2>5. IsInjective(r)
    BY <2>1, <2>3, <2>4 DEF IsInjective
  <2>6. ASSUME NEW x PROVE x \in Range(r) => x \in Range(l) /\ x # f
    <3> SUFFICES ASSUME NEW k \in 1..Len(r), x = r[k]
                 PROVE  x \in Range(l) /\ x # f
      BY <2>3, SeqValues
    <3>1. PICK m \in 1..Len(l) : m # i /\ x = l[m]
      BY <2>1, <2>3
    <3> QED BY <3>1, <2>1, <2>4, SeqValues
  <2>7. ASSUME NEW x PROVE x \in Range(l) /\ x # f => x \in Range(r)
    <3> SUFFICES ASSUME NEW m \in 1..Len(l), x = l[m], x # f
                 PROVE  x \in Range(r)
      BY SeqValues
    <3>1. m # i
      BY <2>1
    <3>2. CASE m < i
      <4>1. m \in 1..Len(r) /\ r[m] = x
        BY <3>2, <2>1, <2>3
      <4> QED BY <4>1, <2>3, SeqValues
    <3>3. CASE m > i
      <4>1. m - 1 \in 1..Len(r) /\ ~(m - 1 < i) /\ (m - 1) + 1 = m
        BY <3>3, <2>1, <2>3
      <4>2. r[m - 1] = x
        BY <4>1, <2>3
      <4> QED BY <4>1, <4>2, <2>3, SeqValues
    <3> QED BY <3>1, <3>2, <3>3, <2>1
  <2>8. KeepsOrder(r, l)
    <3> SUFFICES ASSUME NEW j \in 1..Len(r), NEW k \in 1..Len(r), j < k
                 PROVE  \E a, b \in 1..Len(l) : a < b /\ r[j] = l[a] /\ r[k] = l[b]
      BY DEF KeepsOrder
    <3>1. CASE k < i
      <4>1. j \in 1..Len(l) /\ k \in 1..Len(l) /\ j < i
        BY <3>1, <2>1, <2>3
      <4> QED BY <4>1, <3>1, <2>3
    <3>2. CASE j < i /\ ~(k < i)
      <4>1. j \in 1..Len(l) /\ k + 1 \in 1..Len(l) /\ j < k + 1
        BY <2>3
      <4> QED BY ZenonT(30), <4>1, <3>2, <2>3
    <3>3. CASE ~(j < i)
      <4>1. j + 1 \in 1..Len(l) /\ k + 1 \in 1..Len(l) /\ j + 1 < k + 1 /\ ~(k < i)
        BY <3>3, <2>1, <2>3
      <4> QED BY <4>1, <3>3, <2>3
    <3> QED BY <3>1, <3>2, <3>3
  <2> QED BY <2>2, <2>3, <2>5, <2>6, <2>7, <2>8
<1> QED BY <1>1, <1>2

\* LRUReplacer::victim takes the last entry and keeps the others in order.
LEMMA AfterVictimProperties ==
  ASSUME NEW F, NEW l \in Seq(F), IsInjective(l), l # <<>>
  PROVE  /\ VictimFrame(l) \in Range(l)
         /\ AfterVictim(l) \in Seq(F)
         /\ IsInjective(AfterVictim(l))
         /\ Range(AfterVictim(l)) = Range(l) \ {VictimFrame(l)}
         /\ Len(AfterVictim(l)) = Len(l) - 1
         /\ KeepsOrder(AfterVictim(l), l)
<1> DEFINE n == Len(l)
           r == SubSeq(l, 1, n - 1)
<1>1. n \in Nat \ {0}
  OBVIOUS
<1>2. /\ r \in Seq(F) /\ Len(r) = n - 1
      /\ \A j \in 1..(n - 1) : r[j] = l[j]
  <2>1. 1 \in 1..(n + 1) /\ n - 1 \in 0..n
    BY <1>1
  <2>2. /\ r \in Seq(F)
        /\ Len(r) = IF 1 <= n - 1 THEN (n - 1) - 1 + 1 ELSE 0
        /\ \A j \in 1..((n - 1) - 1 + 1) : r[j] = l[1 + j - 1]
    BY <2>1
  <2> HIDE DEF r
  <2>3. \A j \in 1..(n - 1) : j \in 1..((n - 1) - 1 + 1) /\ 1 + j - 1 = j
    BY <1>1
  <2>4. ASSUME NEW j \in 1..(n - 1) PROVE r[j] = l[j]
    <3>1. r[j] = l[1 + j - 1]
      BY <2>2, <2>3
    <3>2. 1 + j - 1 = j
      OBVIOUS
    <3> QED BY <3>1, <3>2
  <2>5. Len(r) = n - 1
    <3>1. Len(r) = IF 1 <= n - 1 THEN (n - 1) - 1 + 1 ELSE 0
      BY <2>2
    <3> HIDE DEF n
    <3> QED BY <3>1, <1>1
  <2> QED BY <2>2, <2>4, <2>5
<1>3. AfterVictim(l) = r /\ VictimFrame(l) = l[n]
  BY DEF AfterVictim, VictimFrame
<1> HIDE DEF r
<1>4. \A a, b \in 1..n : l[a] = l[b] => a = b
  BY DEF IsInjective
<1>5. l[n] \in Range(l)
  BY <1>1, SeqValues
<1>6. IsInjective(r)
  BY <1>1, <1>2, <1>4 DEF IsInjective
<1>7. Range(r) = Range(l) \ {l[n]}
  <2>1. Range(r) = {r[j] : j \in 1..(n - 1)}
    BY <1>2, SeqValues
  <2>2. Range(l) = {l[j] : j \in 1..n}
    BY SeqValues
  <2>3. \A j \in 1..(n - 1) : j \in 1..n /\ j # n /\ r[j] = l[j]
    BY <1>1, <1>2
  <2>4. \A j \in 1..n : j # n => j \in 1..(n - 1)
    BY <1>1
  <2> HIDE DEF n
  <2>5. n \in 1..n
    BY <1>1
  <2> QED BY <2>1, <2>2, <2>3, <2>4, <2>5, <1>4
<1>8. KeepsOrder(r, l)
  <2>1. Len(r) = n - 1 /\ \A j \in 1..(n - 1) : j \in 1..n /\ r[j] = l[j]
    BY <1>1, <1>2
  <2> HIDE DEF n
  <2> QED BY <2>1 DEF KeepsOrder, n
<1> QED BY <1>2, <1>3, <1>5, <1>6, <1>7, <1>8

\* Pushing a new element at the front (LRUReplacer::unpin, the free-page chain).
LEMMA PushFrontProperties ==
  ASSUME NEW F, NEW l \in Seq(F), IsInjective(l), NEW f \in F, f \notin Range(l)
  PROVE  /\ PushFront(f, l) \in Seq(F)
         /\ Len(PushFront(f, l)) = Len(l) + 1
         /\ PushFront(f, l)[1] = f
         /\ \A j \in 1..Len(l) : PushFront(f, l)[j + 1] = l[j]
         /\ IsInjective(PushFront(f, l))
         /\ Range(PushFront(f, l)) = Range(l) \cup {f}
<1> DEFINE r == PushFront(f, l)
<1>1. /\ r \in Seq(F) /\ Len(r) = Len(l) + 1 /\ r[1] = f
      /\ \A j \in 1..Len(l) : r[j + 1] = l[j]
  <2>1. <<f>> \in Seq(F) /\ Len(<<f>>) = 1 /\ <<f>>[1] = f
    OBVIOUS
  <2>2. /\ r \in Seq(F) /\ Len(r) = 1 + Len(l)
        /\ \A j \in 1..(1 + Len(l)) : r[j] = IF j <= 1 THEN <<f>>[j] ELSE l[j - 1]
    BY <2>1 DEF PushFront
  <2> HIDE DEF r
  <2>3. r[1] = f
    BY <2>1, <2>2
  <2>4. ASSUME NEW j \in 1..Len(l) PROVE r[j + 1] = l[j]
    <3>1. j + 1 \in 1..(1 + Len(l)) /\ ~(j + 1 <= 1) /\ (j + 1) - 1 = j
      OBVIOUS
    <3> QED BY <3>1, <2>2
  <2> QED BY <2>2, <2>3, <2>4
<1> HIDE DEF r
<1>2. Range(r) = Range(l) \cup {f}
  <2>1. Range(r) = {r[j] : j \in 1..(Len(l) + 1)} /\ Range(l) = {l[j] : j \in 1..Len(l)}
    BY <1>1, SeqValues
  <2>2. \A j \in 1..(Len(l) + 1) : j = 1 \/ (j - 1 \in 1..Len(l) /\ r[j] = l[j - 1])
    <3> TAKE j \in 1..(Len(l) + 1)
    <3>1. CASE j = 1
      BY <3>1
    <3>2. CASE j # 1
      <4>1. j - 1 \in 1..Len(l) /\ (j - 1) + 1 = j
        BY <3>2
      <4> QED BY <4>1, <1>1
    <3> QED BY <3>1, <3>2
  <2>3. \A j \in 1..Len(l) : j + 1 \in 1..(Len(l) + 1)
    OBVIOUS
  <2>4. 1 \in 1..(Len(l) + 1)
    OBVIOUS
  <2>5. Range(r) \subseteq Range(l) \cup {f}
    BY <2>1, <2>2, <1>1
  <2>6. Range(l) \subseteq Range(r)
    BY <2>1, <2>3, <1>1
  <2>7. f \in Range(r)
    BY <2>1, <2>4, <1>1
  <2> QED BY <2>5, <2>6, <2>7
<1>3. IsInjective(r)
  <2>1. \A a, b \in 1..Len(l) : l[a] = l[b] => a = b
    BY DEF IsInjective
  <2>2. \A a \in 1..Len(l) : l[a] # f
    BY SeqValues
  <2>3. DOMAIN r = 1..(Len(l) + 1)
    BY <1>1
  <2> SUFFICES ASSUME NEW a \in 1..(Len(l) + 1), NEW b \in 1..(Len(l) + 1), r[a] = r[b]
               PROVE  a = b
    BY <2>3 DEF IsInjective
  <2>4. ASSUME NEW j \in 1..(Len(l) + 1), j # 1
        PROVE  j - 1 \in 1..Len(l) /\ r[j] = l[j - 1]
    <3>1. j - 1 \in 1..Len(l) /\ (j - 1) + 1 = j
      BY <2>4
    <3> QED BY <3>1, <1>1
  <2>5. CASE a = 1 /\ b = 1
    BY <2>5
  <2>6. CASE a = 1 /\ b # 1
    BY <2>6, <2>4, <2>2, <1>1
  <2>7. CASE a # 1 /\ b = 1
    BY <2>7, <2>4, <2>2, <1>1
  <2>8. CASE a # 1 /\ b # 1
    <3>1. a - 1 = b - 1
      BY <2>8, <2>4, <2>1
    <3> QED BY <3>1
  <2> QED BY <2>5, <2>6, <2>7, <2>8
<1> QED BY <1>1, <1>2, <1>3 DEF r

\* Popping the front (free_list_.pop_front, a page leaving the free-page chain).
LEMMA TailProperties ==
  ASSUME NEW F, NEW l \in Seq(F), IsInjective(l), l # <<>>
  PROVE  /\ Head(l) = l[1]
         /\ Head(l) \in Range(l)
         /\ Tail(l) \in Seq(F)
         /\ Len(Tail(l)) = Len(l) - 1
         /\ \A j \in 1..(Len(l) - 1) : Tail(l)[j] = l[j + 1]
         /\ IsInjective(Tail(l))
         /\ Range(Tail(l)) = Range(l) \ {Head(l)}
<1> DEFINE r == Tail(l)
<1>1. /\ Len(l) \in Nat \ {0} /\ Head(l) = l[1]
      /\ r \in Seq(F) /\ Len(r) = Len(l) - 1
      /\ \A j \in 1..(Len(l) - 1) : r[j] = l[j + 1]
  OBVIOUS
<1> HIDE DEF r
<1>2. \A a, b \in 1..Len(l) : l[a] = l[b] => a = b
  BY DEF IsInjective
<1>3. 1 \in 1..Len(l)
  BY <1>1
<1>4. \A j \in 1..(Len(l) - 1) : j + 1 \in 1..Len(l) /\ j + 1 # 1
  OBVIOUS
<1>5. IsInjective(r)
  <2> SUFFICES ASSUME NEW a \in 1..(Len(l) - 1), NEW b \in 1..(Len(l) - 1), r[a] = r[b]
               PROVE  a = b
    BY <1>1 DEF IsInjective
  <2>1. a + 1 = b + 1
    BY <1>1, <1>2, <1>4
  <2> QED BY <2>1
<1>6. Range(r) = Range(l) \ {l[1]}
  <2>1. Range(r) = {r[j] : j \in 1..(Len(l) - 1)} /\ Range(l) = {l[j] : j \in 1..Len(l)}
    BY <1>1, SeqValues
  <2>2. ASSUME NEW j \in 1..Len(l), j # 1 PROVE j - 1 \in 1..(Len(l) - 1) /\ r[j - 1] = l[j]
    <3>1. j - 1 \in 1..(Len(l) - 1) /\ (j - 1) + 1 = j
      BY <2>2
    <3> QED BY <3>1, <1>1
  <2> QED BY <2>1, <2>2, <1>1, <1>2, <1>3, <1>4
<1>7. l[1] \in Range(l)
  BY <1>3, SeqValues
<1> QED BY <1>1, <1>5, <1>6, <1>7 DEF r

\* Pushing a new element at the back (free_list_.push_back).
LEMMA AppendNewProperties ==
  ASSUME NEW F, NEW l \in Seq(F), IsInjective(l), NEW f \in F, f \notin Range(l)
  PROVE  /\ Append(l, f) \in Seq(F)
         /\ IsInjective(Append(l, f))
         /\ Range(Append(l, f)) = Range(l) \cup {f}
<1> DEFINE r == Append(l, f)
<1>1. /\ r \in Seq(F) /\ Len(r) = Len(l) + 1 /\ r[Len(l) + 1] = f
      /\ \A j \in 1..Len(l) : r[j] = l[j]
  OBVIOUS
<1> HIDE DEF r
<1>2. \A a, b \in 1..Len(l) : l[a] = l[b] => a = b
  BY DEF IsInjective
<1>3. \A a \in 1..Len(l) : l[a] # f
  BY SeqValues
<1>4. \A j \in 1..(Len(l) + 1) : j \in 1..Len(l) \/ j = Len(l) + 1
  OBVIOUS
<1>5. (\A j \in 1..Len(l) : j \in 1..(Len(l) + 1)) /\ Len(l) + 1 \in 1..(Len(l) + 1)
  OBVIOUS
<1>6. IsInjective(r)
  BY <1>1, <1>2, <1>3, <1>4 DEF IsInjective
<1>7. Range(r) = Range(l) \cup {f}
  <2>1. Range(r) = {r[j] : j \in 1..(Len(l) + 1)} /\ Range(l) = {l[j] : j \in 1..Len(l)}
    BY <1>1, SeqValues
  <2> QED BY <2>1, <1>1, <1>4, <1>5
<1> QED BY <1>1, <1>6, <1>7 DEF r

\* A list without duplicates is no longer than the set it draws from, and
\* shorter when it misses an element: LRUReplacer::unpin never meets a full
\* list on behalf of the buffer pool.
LEMMA InjectiveLength ==
  ASSUME NEW F, IsFiniteSet(F), NEW l \in Seq(F), IsInjective(l)
  PROVE  /\ Len(l) <= Cardinality(F)
         /\ \A f \in F : f \notin Range(l) => Len(l) < Cardinality(F)
<1>1. l \in Injection(1..Len(l), F)
  BY DEF Injection
<1>2. /\ IsFiniteSet(1..Len(l)) /\ Cardinality(1..Len(l)) = Len(l)
  <2>1. 1 \in Int /\ Len(l) \in Nat /\ Len(l) \in Int
    OBVIOUS
  <2>2. /\ IsFiniteSet(1..Len(l))
        /\ Cardinality(1..Len(l)) = IF 1 > Len(l) THEN 0 ELSE Len(l) - 1 + 1
    BY <2>1, FS_Interval
  <2> QED BY <2>1, <2>2
<1>3. /\ Cardinality(1..Len(l)) <= Cardinality(F)
      /\ Cardinality(1..Len(l)) = Cardinality(F) <=> l \in Surjection(1..Len(l), F)
  BY <1>1, FS_Injection
<1>4. Cardinality(F) \in Nat
  BY FS_CardinalityType
<1>5. ASSUME NEW f \in F, f \notin Range(l) PROVE Len(l) < Cardinality(F)
  <2>1. l \notin Surjection(1..Len(l), F)
    BY <1>5, SeqValues DEF Surjection
  <2> QED BY <2>1, <1>2, <1>3, <1>4
<1> QED BY <1>2, <1>3, <1>5
=============================================================================
