-------------------------- MODULE RecordScanProofs --------------------------
(***************************************************************************)
(* A table file of any size keeps its free-page chain, its counts and its  *)
(* records straight, implements RecordTable, and is scanned completely     *)
(* whatever other threads do to it meanwhile.                              *)
(***************************************************************************)
EXTENDS RecordScan, FiniteSetTheorems, TLAPS

\* What RmManager::close_file wrote is what the handle had.
HeaderSaved == ~is_open => disk_hdr = file_hdr_

FileInv == TypeOK /\ CountsAgree /\ FreeListExact /\ HeaderSaved

-----------------------------------------------------------------------------
(* Bitmaps and their counts.                                               *)

\* A set of naturals that is not empty has a least element.
LEMMA LeastNumber ==
  ASSUME NEW T, T \subseteq Nat, T # {}
  PROVE  \E m \in T : \A k \in T : m <= k
<1> DEFINE R == OpToRel(<, Nat)
<1>1. \A x, y \in Nat : <<x, y>> \in R <=> x < y
  BY Zenon DEF OpToRel
<1>2. IsWellFoundedOn(R, Nat)
  BY Zenon, NatLessThanWellFounded
<1> HIDE DEF R
<1>3. PICK m \in T : \A y \in T : ~ (<<y, m>> \in R)
  BY Zenon, <1>2, WFMin
<1>4. \A y \in T : ~ (y < m)
  BY Zenon, <1>1, <1>3
<1> QED BY <1>4

\* The bits of a page are at most N, and setting or clearing one changes their
\* number by one.
LEMMA BitCount ==
  ASSUME NEW bm \in SUBSET Slots
  PROVE  /\ IsFiniteSet(bm) /\ Cardinality(bm) \in 0..N
         /\ \A s \in Slots \ bm : Cardinality(bm \cup {s}) = Cardinality(bm) + 1
         /\ \A s \in bm : Cardinality(bm \ {s}) = Cardinality(bm) - 1
         /\ Cardinality(bm) < N => \E s \in Slots : s \notin bm
         /\ Cardinality({}) = 0
<1>1. IsFiniteSet(Slots) /\ Cardinality(Slots) = N
  <2>1. 0 \in Int /\ N - 1 \in Int /\ ~ (0 > N - 1)
    BY SMTT(30), FileAssumption
  <2>2. /\ IsFiniteSet(0..(N - 1))
        /\ Cardinality(0..(N - 1)) = IF 0 > N - 1 THEN 0 ELSE N - 1 - 0 + 1
    BY Zenon, <2>1, FS_Interval
  <2> QED BY <2>1, <2>2, FileAssumption DEF Slots
<1>2. IsFiniteSet(bm) /\ Cardinality(bm) <= Cardinality(Slots)
  BY Zenon, <1>1, FS_Subset
<1>3. Cardinality(bm) \in Nat
  BY Zenon, <1>2, FS_CardinalityType
<1>4. \A s \in Slots \ bm : Cardinality(bm \cup {s}) = Cardinality(bm) + 1
  BY Zenon, <1>2, FS_AddElement
<1>5. \A s \in bm : Cardinality(bm \ {s}) = Cardinality(bm) - 1
  BY Zenon, <1>2, FS_RemoveElement
<1>6. Cardinality(bm) < N => \E s \in Slots : s \notin bm
  <2>1. bm = Slots => Cardinality(bm) = N
    BY Zenon, <1>1
  <2>2. Cardinality(bm) < N => Cardinality(bm) # N
    BY <1>3, FileAssumption
  <2> QED BY Zenon, <2>1, <2>2
<1>7. Cardinality({}) = 0
  BY Zenon, FS_EmptySet
<1> QED BY <1>1, <1>2, <1>3, <1>4, <1>5, <1>6, <1>7, FileAssumption

\* first_bit(false) answers with the first bit that is clear, when one is.
LEMMA FirstClearIs ==
  ASSUME NEW bm, \E i \in 0..N : i \notin bm /\ \A j \in 0..(i - 1) : j \in bm
  PROVE  /\ FirstClear(bm) \in 0..N /\ FirstClear(bm) \notin bm
         /\ \A j \in 0..(FirstClear(bm) - 1) : j \in bm
BY Zenon DEF FirstClear

\* first_bit(false) finds a free slot of a page that is not full.
LEMMA FirstClearFree ==
  ASSUME NEW bm \in SUBSET Slots, Cardinality(bm) < N
  PROVE  FirstClear(bm) \in Slots /\ FirstClear(bm) \notin bm
<1> DEFINE T == {i \in Slots : i \notin bm}
<1>1. T \subseteq Nat /\ T # {}
  <2>1. \E s \in Slots : s \notin bm
    BY Zenon, BitCount
  <2>2. Slots \subseteq Nat
    BY FileAssumption DEF Slots
  <2> QED BY Zenon, <2>1, <2>2
<1>2. PICK m \in T : \A k \in T : m <= k
  <2> HIDE DEF T
  <2> QED BY Zenon, <1>1, LeastNumber
<1>3. m \in 0..N /\ m \notin bm /\ \A j \in 0..(m - 1) : j \in bm
  BY <1>2, FileAssumption DEF Slots
<1> DEFINE s == FirstClear(bm)
<1>4. s \in 0..N /\ s \notin bm /\ \A j \in 0..(s - 1) : j \in bm
  BY Zenon, <1>3, FirstClearIs
<1> HIDE DEF s
<1>5. ~ (m < s)
  BY <1>3, <1>4, FileAssumption
<1>6. m \in 0..(N - 1)
  BY Zenon, <1>2 DEF Slots
<1>7. s \in 0..(N - 1)
  BY <1>4, <1>5, <1>6, FileAssumption
<1>8. s \in Slots /\ s \notin bm
  BY Zenon, <1>4, <1>7 DEF Slots
<1> QED BY Zenon, <1>8 DEF s

\* The first slot of an empty page is slot 0.
LEMMA FirstClearEmpty ==
  ASSUME NEW bm, bm = {}
  PROVE  FirstClear(bm) = 0
<1> DEFINE s == FirstClear(bm)
<1>1. \E i \in 0..N : i \notin bm /\ \A j \in 0..(i - 1) : j \in bm
  <2>1. 0 \in 0..N /\ 0 \notin bm /\ \A j \in 0..(0 - 1) : j \in bm
    BY FileAssumption
  <2> QED BY Zenon, <2>1
<1>2. s \in 0..N /\ s \notin bm /\ \A j \in 0..(s - 1) : j \in bm
  BY Zenon, <1>1, FirstClearIs
<1> HIDE DEF s
<1>3. s = 0
  BY <1>2, FileAssumption
<1> QED BY Zenon, <1>3 DEF s

\* next_bit(true) finds the next bit that is set, or N.
LEMMA NextBit ==
  ASSUME NEW bm \in SUBSET Slots, NEW curr \in -1..(N - 1), NEW b,
         b = next_bit(bm, curr)
  PROVE  /\ b \in (curr + 1)..N
         /\ b < N => b \in bm
         /\ \A i \in bm : i > curr => b <= i
<1> DEFINE T == {i \in bm : i > curr} \cup {N}
<1>1. T \subseteq Nat /\ T # {}
  <2>1. N \in T /\ N \in Nat
    BY Zenon, FileAssumption
  <2>2. bm \subseteq Nat
    BY FileAssumption DEF Slots
  <2>3. T \subseteq Nat
    BY Zenon, <2>1, <2>2
  <2> QED BY Zenon, <2>1, <2>3
<1>2. \E m \in T : \A k \in T : m <= k
  <2> HIDE DEF T
  <2> QED BY Zenon, <1>1, LeastNumber
<1>3. b \in T /\ \A k \in T : b <= k
  BY Zenon, <1>2 DEF next_bit, Min
<1>4. b <= N /\ b \in Nat
  BY Zenon, <1>3, <1>1
<1>5. curr < b
  BY <1>3, FileAssumption
<1>6. b < N => b \in bm
  BY <1>3, FileAssumption
<1> QED BY <1>3, <1>4, <1>5, <1>6

-----------------------------------------------------------------------------
(* The free-page chain, as a sequence ch of n page numbers that starts at  *)
(* first, follows next and visits exactly the pages in open.               *)
Linked(n, ch, open, first, next) ==
    /\ n \in Nat /\ ch \in [1..n -> PageNos]
    /\ \A i, j \in 1..n : ch[i] = ch[j] => i = j
    /\ \A p \in open : \E i \in 1..n : ch[i] = p
    /\ \A i \in 1..n : ch[i] \in open
    /\ first = IF n = 0 THEN RM_NO_PAGE ELSE ch[1]
    /\ \A i \in 1..n : next[ch[i]] = IF i = n THEN RM_NO_PAGE ELSE ch[i + 1]

NextFree == [p \in PageNos |-> page[p].next_free_page_no]

\* A chain without repetition is no longer than the file has data pages.
LEMMA ChainBound ==
  ASSUME NEW n \in Nat, NEW ch \in [1..n -> PageNos],
         \A i, j \in 1..n : ch[i] = ch[j] => i = j
  PROVE  n \in 0..(MaxPages - 1)
<1>1. IsFiniteSet(PageNos) /\ Cardinality(PageNos) = MaxPages - 1
  <2>1. 1 \in Int /\ MaxPages - 1 \in Int
    BY FileAssumption
  <2>2. /\ IsFiniteSet(1..(MaxPages - 1))
        /\ Cardinality(1..(MaxPages - 1)) =
              IF 1 > MaxPages - 1 THEN 0 ELSE MaxPages - 1 - 1 + 1
    BY Zenon, <2>1, FS_Interval
  <2> QED BY <2>2, FileAssumption DEF PageNos, RM_FIRST_RECORD_PAGE
<1>2. ch \in Injection(1..n, PageNos)
  BY Zenon DEF Injection, IsInjective
<1>3. Cardinality(1..n) <= Cardinality(PageNos)
  BY Zenon, <1>1, <1>2, FS_Injection
<1>4. Cardinality(1..n) = n
  <2>1. 1 \in Int /\ n \in Int
    OBVIOUS
  <2>2. Cardinality(1..n) = IF 1 > n THEN 0 ELSE n - 1 + 1
    BY Zenon, <2>1, FS_Interval
  <2> QED BY <2>2
<1> QED BY <1>1, <1>3, <1>4, FileAssumption

\* A chain of n pages is a sequence of length n.
LEMMA ChainSequence ==
  ASSUME NEW n \in Nat, NEW ch \in [1..n -> PageNos]
  PROVE  /\ Len(ch) = n /\ DOMAIN ch = 1..n
         /\ ch = <<>> <=> n = 0
<1>1. ch \in Seq(PageNos) /\ DOMAIN ch = 1..n
  OBVIOUS
<1>2. Len(ch) = n
  BY <1>1
<1> QED BY <1>1, <1>2

\* The chain of FreeListExact is a linked one.
LEMMA ChainLinked ==
  ASSUME FreeListExact
  PROVE  \E n, ch : Linked(n, ch, OpenPages, file_hdr_.first_free_page_no, NextFree)
<1>0. PICK n \in 0..(MaxPages - 1) : \E ch \in [1..n -> PageNos] : IsFreeChain(ch)
  BY Zenon DEF FreeListExact
<1>1. PICK ch \in [1..n -> PageNos] : IsFreeChain(ch)
  BY Zenon, <1>0
<1>2. n \in Nat
  BY SMTT(30), FileAssumption
<1>3. Len(ch) = n /\ DOMAIN ch = 1..n /\ (ch = <<>> <=> n = 0)
  BY Zenon, <1>2, ChainSequence
<1>4. /\ \A i, j \in 1..n : ch[i] = ch[j] => i = j
      /\ OpenPages = {ch[i] : i \in 1..n}
  BY Zenon, <1>1, <1>3 DEF IsFreeChain, IsInjective, Range
<1>5. /\ file_hdr_.first_free_page_no = IF n = 0 THEN RM_NO_PAGE ELSE ch[1]
      /\ \A i \in 1..n : page[ch[i]].next_free_page_no =
                           IF i = n THEN RM_NO_PAGE ELSE ch[i + 1]
  BY Zenon, <1>1, <1>3 DEF IsFreeChain
<1>6. \A i \in 1..n : NextFree[ch[i]] = page[ch[i]].next_free_page_no
  BY Zenon DEF NextFree
<1>7. Linked(n, ch, OpenPages, file_hdr_.first_free_page_no, NextFree)
  BY Zenon, <1>2, <1>4, <1>5, <1>6 DEF Linked
<1> QED BY Zenon, <1>7

\* A linked chain after a step is the one FreeListExact asks for then.
LEMMA LinkedChain ==
  ASSUME NEW n, NEW ch,
         Linked(n, ch, OpenPages', file_hdr_'.first_free_page_no, NextFree')
  PROVE  FreeListExact'
<1>1. /\ n \in Nat /\ ch \in [1..n -> PageNos]
      /\ \A i, j \in 1..n : ch[i] = ch[j] => i = j
  BY Zenon DEF Linked
<1>2. n \in 0..(MaxPages - 1)
  BY Zenon, <1>1, ChainBound
<1>3. Len(ch) = n /\ DOMAIN ch = 1..n /\ (ch = <<>> <=> n = 0)
  BY Zenon, <1>1, ChainSequence
<1>4. IsInjective(ch)
  BY Zenon, <1>1, <1>3 DEF IsInjective
<1>5. Range(ch) = OpenPages'
  BY <1>3 DEF Range, Linked
<1>6. \A i \in 1..n : NextFree'[ch[i]] = page'[ch[i]].next_free_page_no
  BY Zenon, <1>1 DEF NextFree
<1>7. file_hdr_'.first_free_page_no = IF ch = <<>> THEN RM_NO_PAGE ELSE ch[1]
  BY Zenon, <1>3 DEF Linked
<1>8. \A i \in 1..Len(ch) : page'[ch[i]].next_free_page_no =
          IF i = Len(ch) THEN RM_NO_PAGE ELSE ch[i + 1]
  BY <1>3, <1>6 DEF Linked
<1>9. IsFreeChain(ch)'
  BY Zenon, <1>4, <1>5, <1>7, <1>8 DEF IsFreeChain
<1> QED BY Zenon, <1>1, <1>2, <1>9 DEF FreeListExact

\* release_page_handle: a page outside the chain becomes its head.
LEMMA PushChain ==
  ASSUME NEW n, NEW ch, NEW open, NEW first, NEW next, NEW p \in PageNos,
         Linked(n, ch, open, first, next), p \notin open, NEW next2,
         next2[p] = first, \A q \in open : next2[q] = next[q]
  PROVE  \E c : Linked(n + 1, c, open \cup {p}, p, next2)
<1> DEFINE c == [i \in 1..(n + 1) |-> IF i = 1 THEN p ELSE ch[i - 1]]
<1> USE DEF Linked
<1>1. /\ n \in Nat /\ n + 1 \in Nat /\ n + 1 # 0 /\ c \in [1..(n + 1) -> PageNos]
      /\ c[1] = p
      /\ \A i \in 1..n : i + 1 \in 1..(n + 1) /\ c[i + 1] = ch[i]
  OBVIOUS
<1>2. \A i \in 1..(n + 1) : i = 1 \/ (i - 1 \in 1..n /\ c[i] = ch[i - 1])
  BY <1>1
<1> HIDE DEF c
<1>3. \A i, j \in 1..(n + 1) : c[i] = c[j] => i = j
  <2> SUFFICES ASSUME NEW i \in 1..(n + 1), NEW j \in 1..(n + 1), c[i] = c[j]
               PROVE  i = j
    BY Zenon
  <2>1. CASE i = 1 \/ j = 1
    BY <2>1, <1>1, <1>2
  <2>2. CASE i # 1 /\ j # 1
    <3>1. i - 1 \in 1..n /\ j - 1 \in 1..n /\ ch[i - 1] = ch[j - 1]
      BY Zenon, <2>2, <1>2
    <3>2. i - 1 = j - 1
      BY Zenon, <3>1
    <3> QED BY <3>2
  <2> QED BY Zenon, <2>1, <2>2
<1>4. \A q \in open \cup {p} : \E i \in 1..(n + 1) : c[i] = q
  <2>1. 1 \in 1..(n + 1)
    BY <1>1
  <2> QED BY <1>1, <2>1
<1>5. \A i \in 1..(n + 1) : c[i] \in open \cup {p}
  BY Zenon, <1>1, <1>2
<1>6. ASSUME NEW i \in 1..(n + 1)
      PROVE  next2[c[i]] = IF i = n + 1 THEN RM_NO_PAGE ELSE c[i + 1]
  <2>1. CASE i = 1 /\ n = 0
    BY <2>1, <1>1
  <2>2. CASE i = 1 /\ n # 0
    <3>1. 1 \in 1..n /\ c[1 + 1] = ch[1] /\ first = ch[1]
      BY <2>2, <1>1
    <3> QED BY <2>2, <3>1, <1>1
  <2>3. CASE i # 1
    <3>1. /\ i - 1 \in 1..n /\ c[i] = ch[i - 1] /\ ch[i - 1] \in open
          /\ next[ch[i - 1]] = IF i - 1 = n THEN RM_NO_PAGE ELSE ch[(i - 1) + 1]
      BY Zenon, <2>3, <1>2
    <3>2. next2[c[i]] = IF i - 1 = n THEN RM_NO_PAGE ELSE ch[i]
      BY <3>1
    <3>3. i # n + 1 => i \in 1..n
      BY SMTT(30), <1>1
    <3>4. i # n + 1 => c[i + 1] = ch[i]
      BY Zenon, <3>3, <1>1
    <3> QED BY <3>2, <3>4, <1>1
  <2> QED BY Zenon, <2>1, <2>2, <2>3
<1>7. Linked(n + 1, c, open \cup {p}, p, next2)
  BY Zenon, <1>1, <1>3, <1>4, <1>5, <1>6
<1> QED BY Zenon, <1>7

\* insert_record of the last free slot of a page: the page leaves the chain,
\* whose head it was.
LEMMA PopChain ==
  ASSUME NEW n, NEW ch, NEW open, NEW first, NEW next,
         Linked(n, ch, open, first, next), first # RM_NO_PAGE
  PROVE  \E c : Linked(n - 1, c, open \ {first}, next[first], next)
<1> DEFINE c == [i \in 1..(n - 1) |-> ch[i + 1]]
<1>1. n \in Nat /\ n # 0 /\ 1 \in 1..n /\ first = ch[1] /\ n - 1 \in Nat
  BY DEF Linked
<1>2. /\ c \in [1..(n - 1) -> PageNos]
      /\ \A i \in 1..(n - 1) : i + 1 \in 1..n /\ c[i] = ch[i + 1]
  BY <1>1 DEF Linked
<1> HIDE DEF c
<1>3. \A i, j \in 1..(n - 1) : c[i] = c[j] => i = j
  <2> SUFFICES ASSUME NEW i \in 1..(n - 1), NEW j \in 1..(n - 1), c[i] = c[j]
               PROVE  i = j
    BY Zenon
  <2>1. i + 1 = j + 1
    BY <1>2 DEF Linked
  <2> QED BY <2>1, <1>1
<1>4. ASSUME NEW q \in open \ {first} PROVE \E i \in 1..(n - 1) : c[i] = q
  <2>1. PICK k \in 1..n : ch[k] = q
    BY Zenon DEF Linked
  <2>2. k # 1
    BY Zenon, <2>1, <1>1
  <2>3. k - 1 \in 1..(n - 1) /\ (k - 1) + 1 = k
    BY <2>2, <1>1
  <2>4. c[k - 1] = ch[(k - 1) + 1]
    BY Zenon, <2>3, <1>2
  <2> QED BY Zenon, <2>1, <2>3, <2>4
<1>5. \A i \in 1..(n - 1) : c[i] \in open \ {first}
  <2> SUFFICES ASSUME NEW i \in 1..(n - 1) PROVE c[i] \in open \ {first}
    BY Zenon
  <2>1. i + 1 \in 1..n /\ i + 1 # 1 /\ c[i] = ch[i + 1]
    BY <1>1, <1>2
  <2> QED BY Zenon, <2>1, <1>1 DEF Linked
<1>6. next[first] = IF n - 1 = 0 THEN RM_NO_PAGE ELSE c[1]
  <2>1. next[ch[1]] = IF 1 = n THEN RM_NO_PAGE ELSE ch[1 + 1]
    BY Zenon, <1>1 DEF Linked
  <2>2. n # 1 => 1 \in 1..(n - 1)
    BY <1>1
  <2>3. n # 1 => c[1] = ch[1 + 1]
    BY Zenon, <2>2, <1>2
  <2> QED BY <2>1, <2>3, <1>1
<1>7. ASSUME NEW i \in 1..(n - 1)
      PROVE  next[c[i]] = IF i = n - 1 THEN RM_NO_PAGE ELSE c[i + 1]
  <2>1. next[ch[i + 1]] = IF i + 1 = n THEN RM_NO_PAGE ELSE ch[(i + 1) + 1]
    BY Zenon, <1>2 DEF Linked
  <2>2. i # n - 1 => i + 1 \in 1..(n - 1)
    BY SMTT(30), <1>1
  <2>3. i # n - 1 => c[i + 1] = ch[(i + 1) + 1]
    BY Zenon, <2>2, <1>2
  <2> QED BY <2>1, <2>3, <1>1, <1>2
<1>8. Linked(n - 1, c, open \ {first}, next[first], next)
  BY Zenon, <1>1, <1>2, <1>3, <1>4, <1>5, <1>6, <1>7 DEF Linked
<1> QED BY Zenon, <1>8

\* The chain survives a step that leaves open pages, head and links alone.
LEMMA SameChain ==
  ASSUME FreeListExact, OpenPages' = OpenPages, NextFree' = NextFree,
         file_hdr_'.first_free_page_no = file_hdr_.first_free_page_no
  PROVE  FreeListExact'
BY Zenon, ChainLinked, LinkedChain

-----------------------------------------------------------------------------
(* What the calls do to the page they are about.                           *)

\* Page p, whose contents were old, now also holds v in slot s.
PutRecord(p, old, s, v) ==
    /\ page' \in [PageNos -> PageType]
    /\ \A q \in PageNos : q # p => page'[q] = page[q]
    /\ page'[p].bitmap = old.bitmap \cup {s}
    /\ page'[p].num_records = old.num_records + 1
    /\ page'[p].next_free_page_no = old.next_free_page_no
    /\ page'[p].slots = [old.slots EXCEPT ![s] = v]

\* Steps 2 to 6 of insert_record, on a page with a free slot.
LEMMA FilledPage ==
  ASSUME NEW pg \in PageType, NEW v \in Values,
         NEW s \in Slots, s = FirstClear(pg.bitmap)
  PROVE  /\ Filled(pg, v) \in PageType
         /\ Filled(pg, v).bitmap = pg.bitmap \cup {s}
         /\ Filled(pg, v).num_records = pg.num_records + 1
         /\ Filled(pg, v).next_free_page_no = pg.next_free_page_no
         /\ Filled(pg, v).slots = [pg.slots EXCEPT ![s] = v]
<1> DEFINE w == [pg.slots EXCEPT ![s] = v]
<1>1. Filled(pg, v) = [pg EXCEPT !.slots = w, !.bitmap = pg.bitmap \cup {s},
                                  !.num_records = pg.num_records + 1]
  BY Zenon DEF Filled, PageType
<1>2. w \in [Slots -> Values]
  BY Zenon DEF PageType
<1> HIDE DEF w
<1>3. /\ Filled(pg, v).bitmap = pg.bitmap \cup {s}
      /\ Filled(pg, v).num_records = pg.num_records + 1
      /\ Filled(pg, v).next_free_page_no = pg.next_free_page_no
      /\ Filled(pg, v).slots = w
  BY Zenon, <1>1 DEF PageType
<1>4. Filled(pg, v) \in PageType
  <2> DEFINE b == pg.bitmap \cup {s}
             k == pg.num_records + 1
  <2>1. b \in SUBSET Slots /\ k \in Int
    BY DEF PageType
  <2>2. Filled(pg, v) = [pg EXCEPT !.slots = w, !.bitmap = b, !.num_records = k]
    BY Zenon, <1>1
  <2> HIDE DEF b, k
  <2> QED BY Zenon, <1>2, <2>1, <2>2 DEF PageType
<1> QED BY Zenon, <1>3, <1>4 DEF w

\* Page numbers and counts of the pages in use.
LEMMA PageFacts ==
  ASSUME FileInv, NEW p \in PageNos
  PROVE  /\ page[p] \in PageType /\ p \in Nat /\ p # 0 /\ p # RM_NO_PAGE
         /\ page[p].bitmap \in SUBSET Slots /\ page[p].num_records \in Int
         /\ p \in UsedPages <=> p < file_hdr_.num_pages
         /\ p \in UsedPages => page[p].num_records = Cardinality(page[p].bitmap)
         /\ p \in UsedPages => page[p].num_records \in 0..N
         /\ p \in OpenPages <=> p \in UsedPages /\ page[p].num_records < N
<1>1. page[p] \in PageType /\ p \in Nat /\ p # 0 /\ p # RM_NO_PAGE
  BY SMTT(30), FileAssumption DEF FileInv, TypeOK, PageNos,
     RM_FIRST_RECORD_PAGE,
     RM_NO_PAGE
<1>2. page[p].bitmap \in SUBSET Slots /\ page[p].num_records \in Int
  BY Zenon, <1>1 DEF PageType
<1>3. p \in UsedPages => page[p].num_records = Cardinality(page[p].bitmap)
  BY Zenon DEF FileInv, CountsAgree
<1>4. p \in UsedPages => page[p].num_records \in 0..N
  BY Zenon, <1>2, <1>3, BitCount
<1> QED BY Zenon, <1>1, <1>2, <1>3, <1>4 DEF UsedPages, OpenPages

\* The first free page is in use and has a free slot, which first_bit finds.
LEMMA InsertFreeEffect ==
  ASSUME FileInv, NEW v \in Values, InsertIntoFree(v),
         NEW p, p = file_hdr_.first_free_page_no,
         NEW s, s = FirstClear(page[p].bitmap)
  PROVE  /\ p \in PageNos /\ p \in OpenPages
         /\ s \in Slots /\ s \notin page[p].bitmap
         /\ PutRecord(p, page[p], s, v)
<1>1. p \in OpenPages
  <2>1. PICK n, ch : Linked(n, ch, OpenPages, p, NextFree)
    BY Zenon, ChainLinked DEF FileInv
  <2>2. p # RM_NO_PAGE
    BY Zenon DEF InsertIntoFree
  <2>3. n \in Nat /\ n # 0 /\ p = ch[1] /\ 1 \in 1..n
    BY SMTT(30), <2>1, <2>2 DEF Linked
  <2> QED BY <2>1, <2>3 DEF Linked
<1>2. p \in PageNos /\ p \in UsedPages
  BY Zenon, <1>1 DEF OpenPages, UsedPages
<1>3. /\ page[p] \in PageType /\ page[p].bitmap \in SUBSET Slots
      /\ Cardinality(page[p].bitmap) < N
  BY Zenon, <1>1, <1>2, PageFacts
<1>4. s \in Slots /\ s \notin page[p].bitmap
  BY Zenon, <1>3, FirstClearFree
<1>5. page' = [page EXCEPT ![p] = Filled(page[p], v)]
  BY Zenon DEF InsertIntoFree
<1>6. page \in [PageNos -> PageType]
  BY Zenon DEF FileInv, TypeOK
<1>7. PutRecord(p, page[p], s, v)
  BY SMTT(30), <1>2, <1>3, <1>4, <1>5, <1>6, FilledPage DEF PutRecord
<1> QED BY Zenon, <1>1, <1>2, <1>4, <1>7

\* The page that create_new_page_handle appends is the next one, and empty.
LEMMA InsertNewEffect ==
  ASSUME FileInv, NEW v \in Values, InsertIntoNew(v), NEW p, p = fd2pageno_
  PROVE  /\ p \in PageNos /\ p \notin UsedPages /\ p = file_hdr_.num_pages
         /\ UsedPages' = UsedPages \cup {p} /\ 0 \in Slots
         /\ PutRecord(p, EmptyPage, 0, v)
<1>1. p \in PageNos /\ p = file_hdr_.num_pages /\ p \in Nat
  BY SMTT(30), FileAssumption DEF FileInv, TypeOK, CountsAgree, InsertIntoNew,
     PageNos,
     RM_FIRST_RECORD_PAGE
<1>2. 0 \in Slots
  BY FileAssumption DEF Slots
<1>3. EmptyPage.bitmap = {}
  BY Zenon DEF EmptyPage
<1>4. FirstClear(EmptyPage.bitmap) = 0
  BY Zenon, <1>3, FirstClearEmpty
<1>5. page' = [page EXCEPT ![p] = Filled(EmptyPage, v)]
  BY Zenon DEF InsertIntoNew
<1>6. page \in [PageNos -> PageType] /\ EmptyPage \in PageType
  <2>1. [i \in Slots |-> Zero] \in [Slots -> Values]
    BY Zenon, FileAssumption
  <2> QED BY <2>1 DEF FileInv, TypeOK, EmptyPage, PageType
<1>7. PutRecord(p, EmptyPage, 0, v)
  BY SMTT(30), <1>1, <1>2, <1>4, <1>5, <1>6, FilledPage DEF PutRecord
<1>8. file_hdr_'.num_pages = p + 1
  BY Zenon, <1>1 DEF InsertIntoNew
<1>9. \A q \in PageNos : q < p + 1 <=> q < p \/ q = p
  BY <1>1 DEF PageNos
<1>10. UsedPages' = UsedPages \cup {p}
  BY Zenon, <1>1, <1>8, <1>9 DEF UsedPages
<1>11. p \notin UsedPages
  BY SMTT(30), <1>1 DEF UsedPages
<1> QED BY Zenon, <1>1, <1>2, <1>7, <1>10, <1>11

\* delete_record clears one bit, and links the page in when it was full.
LEMMA DeleteEffect ==
  ASSUME FileInv, NEW rid \in Rids, DeleteRecord(rid), NEW p, p = rid.page_no
  PROVE  /\ p \in PageNos /\ p \in UsedPages /\ rid.slot_no \in page[p].bitmap
         /\ page' \in [PageNos -> PageType]
         /\ \A q \in PageNos : q # p => page'[q] = page[q]
         /\ page'[p].bitmap = page[p].bitmap \ {rid.slot_no}
         /\ page'[p].num_records = page[p].num_records - 1
         /\ page'[p].slots = page[p].slots
         /\ page'[p].next_free_page_no =
               IF page[p].num_records = N THEN file_hdr_.first_free_page_no
                                          ELSE page[p].next_free_page_no
<1>1. p \in PageNos /\ p \in UsedPages /\ rid.slot_no \in page[p].bitmap
  BY Zenon DEF DeleteRecord, Ready, Rids, UsedPages
<1>2. page \in [PageNos -> PageType] /\ page[p] \in PageType
  BY Zenon, <1>1 DEF FileInv, TypeOK
<1>3. file_hdr_.first_free_page_no \in PageNos \cup {RM_NO_PAGE}
  BY Zenon DEF FileInv, TypeOK, FileHdrs
<1>4. page' = [page EXCEPT
                 ![p].bitmap = @ \ {rid.slot_no},
                 ![p].num_records = @ - 1,
                 ![p].next_free_page_no =
                    IF page[p].num_records = N
                    THEN file_hdr_.first_free_page_no ELSE @]
  BY Zenon DEF DeleteRecord
<1>5. /\ page' \in [PageNos -> PageType]
      /\ \A q \in PageNos : q # p => page'[q] = page[q]
  BY SMTT(30), <1>1, <1>2, <1>3, <1>4 DEF PageType
<1>6. /\ page'[p].bitmap = page[p].bitmap \ {rid.slot_no}
      /\ page'[p].num_records = page[p].num_records - 1
      /\ page'[p].slots = page[p].slots
      /\ page'[p].next_free_page_no =
            IF page[p].num_records = N THEN file_hdr_.first_free_page_no
                                       ELSE page[p].next_free_page_no
  BY Zenon, <1>1, <1>2, <1>4 DEF PageType
<1> QED BY Zenon, <1>1, <1>5, <1>6

\* update_record overwrites the slot and nothing else.
LEMMA UpdateEffect ==
  ASSUME FileInv, NEW rid \in Rids, NEW v \in Values, UpdateRecord(rid, v),
         NEW p, p = rid.page_no
  PROVE  /\ p \in PageNos /\ p \in UsedPages /\ rid.slot_no \in page[p].bitmap
         /\ page' \in [PageNos -> PageType]
         /\ \A q \in PageNos : q # p => page'[q] = page[q]
         /\ page'[p].bitmap = page[p].bitmap
         /\ page'[p].num_records = page[p].num_records
         /\ page'[p].next_free_page_no = page[p].next_free_page_no
         /\ page'[p].slots = [page[p].slots EXCEPT ![rid.slot_no] = v]
<1>1. p \in PageNos /\ p \in UsedPages /\ rid.slot_no \in page[p].bitmap
  BY Zenon DEF UpdateRecord, Ready, Rids, UsedPages
<1>2. page \in [PageNos -> PageType] /\ page[p] \in PageType
  BY Zenon, <1>1 DEF FileInv, TypeOK
<1>3. page' = [page EXCEPT ![p].slots[rid.slot_no] = v]
  BY Zenon DEF UpdateRecord
<1> QED BY Zenon, <1>1, <1>2, <1>3 DEF PageType

-----------------------------------------------------------------------------
(* Every call keeps the file consistent.                                   *)

\* A file that create_file has just made is consistent.
LEMMA FileInit == Init => FileInv
<1> SUFFICES ASSUME Init PROVE FileInv
  BY Zenon
<1>1. TypeOK
  <2>1. EmptyPage \in PageType
    BY FileAssumption DEF EmptyPage, PageType
  <2>2. 1 \in 1..MaxPages
    BY FileAssumption
  <2> QED BY Zenon, <2>1, <2>2 DEF Init, TypeOK, FileHdrs
<1>2. UsedPages = {}
  BY FileAssumption DEF Init, UsedPages, PageNos, RM_FIRST_RECORD_PAGE
<1>3. FreeListExact
  <2> DEFINE ch == <<>>
  <2>1. 0 \in 0..(MaxPages - 1) /\ ch \in [1..0 -> PageNos]
    BY FileAssumption
  <2>2. Len(ch) = 0 /\ DOMAIN ch = {} /\ IsInjective(ch) /\ Range(ch) = {}
    BY DEF IsInjective, Range
  <2>3. IsFreeChain(ch)
    BY SMTT(30), <2>2, <1>2 DEF IsFreeChain, OpenPages, Init
  <2> QED BY Zenon, <2>1, <2>3 DEF FreeListExact
<1>4. CountsAgree /\ HeaderSaved
  BY Zenon, <1>2 DEF Init, CountsAgree, HeaderSaved
<1> QED BY Zenon, <1>1, <1>3, <1>4 DEF FileInv

\* A call that leaves header and pages alone keeps chain and counts.
LEMMA SameFile ==
  ASSUME FileInv, UNCHANGED <<file_hdr_, page>>, fd2pageno_' = file_hdr_.num_pages
  PROVE  CountsAgree' /\ FreeListExact'
<1>1. UsedPages' = UsedPages /\ OpenPages' = OpenPages /\ NextFree' = NextFree
  BY Zenon DEF UsedPages, OpenPages, NextFree
<1>2. FreeListExact'
  BY Zenon, <1>1, SameChain DEF FileInv
<1>3. CountsAgree'
  BY Zenon, <1>1 DEF FileInv, CountsAgree
<1> QED BY Zenon, <1>2, <1>3

\* insert_record into the first free page keeps the file consistent: when the
\* page becomes full it is the head of the chain that is taken off.
LEMMA InsertFreeInv ==
  ASSUME FileInv, NEW v \in Values, InsertIntoFree(v)
  PROVE  FileInv'
<1> DEFINE p == file_hdr_.first_free_page_no
           s == FirstClear(page[p].bitmap)
<1>1. /\ p \in PageNos /\ p \in OpenPages
      /\ s \in Slots /\ s \notin page[p].bitmap
      /\ PutRecord(p, page[p], s, v)
  BY Zenon, InsertFreeEffect
<1>2. /\ file_hdr_' = [file_hdr_ EXCEPT !.first_free_page_no =
            IF page[p].num_records + 1 = N THEN page[p].next_free_page_no ELSE p]
      /\ UNCHANGED <<disk_hdr, is_open, fd2pageno_, pins, alive>> /\ is_open
  BY Zenon DEF InsertIntoFree, FirstFreeAfterInsert, Ready
<1> HIDE DEF p, s
<1>3. /\ page[p] \in PageType /\ page[p].num_records \in Int
      /\ page[p].num_records = Cardinality(page[p].bitmap)
      /\ page[p].num_records < N /\ page[p].bitmap \in SUBSET Slots
      /\ p \in UsedPages
  BY Zenon, <1>1, PageFacts
<1>4. page[p].next_free_page_no \in PageNos \cup {RM_NO_PAGE}
  BY Zenon, <1>3 DEF PageType
<1>5. TypeOK'
  BY Zenon, <1>1, <1>2, <1>4 DEF FileInv, TypeOK, FileHdrs, PutRecord
<1>6. UsedPages' = UsedPages /\ file_hdr_'.num_pages = file_hdr_.num_pages
  BY Zenon, <1>2 DEF FileInv, TypeOK, FileHdrs, UsedPages
<1>7. CountsAgree'
  <2>1. ASSUME NEW q \in UsedPages
        PROVE  page'[q].num_records = Cardinality(page'[q].bitmap)
    <3>1. CASE q = p
      BY SMTT(30), <3>1, <1>1, <1>3, BitCount DEF PutRecord
    <3>2. CASE q # p
      <4>1. q \in PageNos /\ page[q].num_records = Cardinality(page[q].bitmap)
        BY Zenon DEF UsedPages, FileInv, CountsAgree
      <4> QED BY Zenon, <3>2, <4>1, <1>1 DEF PutRecord
    <3> QED BY Zenon, <3>1, <3>2
  <2> QED BY Zenon, <2>1, <1>2, <1>6 DEF CountsAgree, FileInv
<1>8. NextFree' = NextFree
  <2>1. \A q \in PageNos : page'[q].next_free_page_no = page[q].next_free_page_no
    BY Zenon, <1>1 DEF PutRecord
  <2> QED BY Zenon, <2>1 DEF NextFree
<1>9. FreeListExact'
  <2>1. CASE page[p].num_records + 1 = N
    <3>1. OpenPages' = OpenPages \ {p}
      <4>1. ~ (page'[p].num_records < N)
        BY SMTT(30), <2>1, <1>1, <1>3, FileAssumption DEF PutRecord
      <4>2. \A q \in UsedPages : q # p => page'[q] = page[q]
        BY Zenon, <1>1 DEF PutRecord, UsedPages
      <4> QED BY Zenon, <4>1, <4>2, <1>6 DEF OpenPages
    <3>2. PICK n, ch : Linked(n, ch, OpenPages, p, NextFree)
      BY Zenon, ChainLinked DEF FileInv, p
    <3>3. p # RM_NO_PAGE
      BY Zenon, <1>1, PageFacts
    <3>4. PICK c : Linked(n - 1, c, OpenPages \ {p}, NextFree[p], NextFree)
      BY Zenon, <3>2, <3>3, PopChain
    <3>5. file_hdr_'.first_free_page_no = NextFree[p]
      BY Zenon, <2>1, <1>1, <1>2 DEF NextFree, FileInv, TypeOK, FileHdrs
    <3> QED BY Zenon, <3>1, <3>4, <3>5, <1>8, LinkedChain
  <2>2. CASE page[p].num_records + 1 # N
    <3>1. OpenPages' = OpenPages
      <4>1. page'[p].num_records < N
        BY SMTT(30), <2>2, <1>1, <1>3, FileAssumption DEF PutRecord
      <4>2. \A q \in UsedPages : q # p => page'[q] = page[q]
        BY Zenon, <1>1 DEF PutRecord, UsedPages
      <4> QED BY Zenon, <4>1, <4>2, <1>3, <1>6 DEF OpenPages
    <3>2. file_hdr_'.first_free_page_no = p
      BY Zenon, <2>2, <1>2 DEF FileInv, TypeOK, FileHdrs
    <3> QED BY Zenon, <3>1, <3>2, <1>8, SameChain DEF FileInv, p
  <2> QED BY Zenon, <2>1, <2>2
<1>10. HeaderSaved'
  BY Zenon, <1>2 DEF HeaderSaved
<1> QED BY Zenon, <1>5, <1>7, <1>9, <1>10 DEF FileInv

\* insert_record into a new page: the chain was empty, and becomes that page
\* alone, or stays empty when one record fills it.
LEMMA InsertNewInv ==
  ASSUME FileInv, NEW v \in Values, InsertIntoNew(v)
  PROVE  FileInv'
<1> DEFINE p == fd2pageno_
<1>1. /\ p \in PageNos /\ p \notin UsedPages /\ p = file_hdr_.num_pages
      /\ UsedPages' = UsedPages \cup {p} /\ 0 \in Slots
      /\ PutRecord(p, EmptyPage, 0, v)
  BY Zenon, InsertNewEffect
<1>2. /\ file_hdr_' = [num_pages |-> file_hdr_.num_pages + 1,
                       first_free_page_no |-> IF N = 1 THEN RM_NO_PAGE ELSE p]
      /\ fd2pageno_' = p + 1 /\ file_hdr_.first_free_page_no = RM_NO_PAGE
      /\ UNCHANGED <<disk_hdr, is_open, pins, alive>> /\ is_open
  BY DEF InsertIntoNew, FirstFreeAfterInsert, EmptyPage
<1>3. p \in Nat /\ p + 1 \in 1..MaxPages
  BY <1>1, FileAssumption DEF PageNos, RM_FIRST_RECORD_PAGE
<1>e. /\ page'[p].bitmap = {0} /\ page'[p].num_records = 1
      /\ page'[p].next_free_page_no = RM_NO_PAGE
      /\ page' \in [PageNos -> PageType]
      /\ \A q \in PageNos : q # p => page'[q] = page[q]
  BY SMTT(30), <1>1 DEF PutRecord, EmptyPage
<1> HIDE DEF p
<1>4. TypeOK'
  BY Zenon, <1>1, <1>2, <1>3, <1>e DEF FileInv, TypeOK, FileHdrs
<1>5. \A q \in UsedPages : q \in PageNos /\ q # p /\ page'[q] = page[q]
  BY Zenon, <1>1, <1>e DEF UsedPages
<1>6. CountsAgree'
  <2>1. Cardinality({0}) = 1
    BY Zenon, FS_Singleton
  <2>2. \A q \in UsedPages' : page'[q].num_records = Cardinality(page'[q].bitmap)
    BY Zenon, <2>1, <1>1, <1>5, <1>e DEF FileInv, CountsAgree
  <2> QED BY Zenon, <2>2, <1>1, <1>2 DEF CountsAgree
<1>7. OpenPages = {}
  <2>1. PICK n, ch : Linked(n, ch, OpenPages, RM_NO_PAGE, NextFree)
    BY Zenon, ChainLinked, <1>2 DEF FileInv
  <2>2. n = 0
    <3> SUFFICES ASSUME n # 0 PROVE FALSE
      BY Zenon
    <3>1. 1 \in 1..n /\ ch[1] = RM_NO_PAGE /\ ch[1] \in PageNos
      BY <2>1 DEF Linked
    <3> QED BY Zenon, <3>1, PageFacts
  <2> QED BY SMTT(30), <2>1, <2>2 DEF Linked
<1>8. FreeListExact'
  <2> DEFINE none == [i \in 1..0 |-> 1]
  <2>1. Linked(0, none, {}, RM_NO_PAGE, NextFree')
    BY SMTT(30) DEF Linked
  <2> HIDE DEF none
  <2>2. \A q \in UsedPages : ~ (page'[q].num_records < N)
    BY Zenon, <1>5, <1>7 DEF OpenPages
  <2>3. CASE N = 1
    <3>1. OpenPages' = {}
      BY SMTT(30), <2>2, <2>3, <1>1, <1>e DEF OpenPages
    <3>2. file_hdr_'.first_free_page_no = RM_NO_PAGE
      BY Zenon, <2>3, <1>2
    <3> QED BY Zenon, <2>1, <3>1, <3>2, LinkedChain
  <2>4. CASE N # 1
    <3>1. OpenPages' = {} \cup {p}
      <4>1. 1 < N
        BY SMTT(30), <2>4, FileAssumption
      <4> QED BY Zenon, <4>1, <2>2, <1>1, <1>e DEF OpenPages
    <3>2. file_hdr_'.first_free_page_no = p
      BY Zenon, <2>4, <1>2
    <3>3. NextFree'[p] = RM_NO_PAGE
      BY Zenon, <1>1, <1>e DEF NextFree
    <3>4. PICK c : Linked(0 + 1, c, {} \cup {p}, p, NextFree')
      BY Zenon, <2>1, <3>3, <1>1, PushChain
    <3> QED BY Zenon, <3>1, <3>2, <3>4, LinkedChain
  <2> QED BY Zenon, <2>3, <2>4
<1>9. HeaderSaved'
  BY Zenon, <1>2 DEF HeaderSaved
<1> QED BY Zenon, <1>4, <1>6, <1>8, <1>9 DEF FileInv

\* delete_record links a page in exactly when it was full.
LEMMA DeleteInv ==
  ASSUME FileInv, NEW rid \in Rids, DeleteRecord(rid)
  PROVE  FileInv'
<1> DEFINE p == rid.page_no
           first == file_hdr_.first_free_page_no
<1>1. /\ p \in PageNos /\ p \in UsedPages /\ rid.slot_no \in page[p].bitmap
      /\ page' \in [PageNos -> PageType]
      /\ \A q \in PageNos : q # p => page'[q] = page[q]
      /\ page'[p].bitmap = page[p].bitmap \ {rid.slot_no}
      /\ page'[p].num_records = page[p].num_records - 1
      /\ page'[p].slots = page[p].slots
      /\ page'[p].next_free_page_no =
            IF page[p].num_records = N THEN first ELSE page[p].next_free_page_no
  BY Zenon, DeleteEffect
<1>2. /\ file_hdr_' = [file_hdr_ EXCEPT !.first_free_page_no =
                          IF page[p].num_records = N THEN p ELSE first]
      /\ UNCHANGED <<disk_hdr, is_open, fd2pageno_, pins, alive>> /\ is_open
  BY Zenon DEF DeleteRecord, Ready, FileInv, TypeOK, FileHdrs
<1> HIDE DEF p, first
<1>3. /\ page[p].num_records \in 0..N /\ page[p].bitmap \in SUBSET Slots
      /\ page[p].num_records = Cardinality(page[p].bitmap)
  BY Zenon, <1>1, PageFacts
<1>4. file_hdr_ \in FileHdrs /\ first \in PageNos \cup {RM_NO_PAGE}
  BY Zenon DEF FileInv, TypeOK, FileHdrs, first
<1>5. TypeOK'
  BY Zenon, <1>1, <1>2, <1>4 DEF FileInv, TypeOK, FileHdrs
<1>6. UsedPages' = UsedPages /\ file_hdr_'.num_pages = file_hdr_.num_pages
  BY Zenon, <1>2, <1>4 DEF FileHdrs, UsedPages
<1>7. \A q \in UsedPages : q \in PageNos /\ (q # p => page'[q] = page[q])
  BY Zenon, <1>1 DEF UsedPages
<1>8. CountsAgree'
  <2>1. page'[p].num_records = Cardinality(page'[p].bitmap)
    BY <1>1, <1>3, BitCount
  <2> QED BY Zenon, <2>1, <1>2, <1>6, <1>7 DEF CountsAgree, FileInv
<1>9. page'[p].num_records < N
  BY SMTT(30), <1>1, <1>3, FileAssumption
<1>10. FreeListExact'
  <2>1. CASE page[p].num_records = N
    <3>1. p \notin OpenPages /\ OpenPages' = OpenPages \cup {p}
      <4>1. ~ (page[p].num_records < N)
        BY SMTT(30), <2>1, FileAssumption
      <4> QED BY Zenon, <4>1, <1>1, <1>6, <1>7, <1>9 DEF OpenPages
    <3>2. PICK n, ch : Linked(n, ch, OpenPages, first, NextFree)
      BY Zenon, ChainLinked DEF FileInv, first
    <3>3. NextFree'[p] = first
      BY Zenon, <2>1, <1>1 DEF NextFree
    <3>4. \A q \in OpenPages : NextFree'[q] = NextFree[q]
      BY Zenon, <3>1, <1>7 DEF NextFree, OpenPages
    <3>5. PICK c : Linked(n + 1, c, OpenPages \cup {p}, p, NextFree')
      <4>1. p \in PageNos /\ p \notin OpenPages
        BY Zenon, <3>1, <1>1
      <4> QED BY Zenon, <4>1, <3>2, <3>3, <3>4, PushChain
    <3>6. file_hdr_'.first_free_page_no = p
      BY Zenon, <2>1, <1>2, <1>4 DEF FileHdrs
    <3> QED BY Zenon, <3>1, <3>5, <3>6, LinkedChain
  <2>2. CASE page[p].num_records # N
    <3>1. page[p].num_records < N
      BY SMTT(30), <2>2, <1>3, FileAssumption
    <3>2. OpenPages' = OpenPages
      BY Zenon, <3>1, <1>1, <1>6, <1>7, <1>9 DEF OpenPages
    <3>3. NextFree' = NextFree
      BY Zenon, <2>2, <1>1 DEF NextFree
    <3>4. file_hdr_'.first_free_page_no = first
      BY Zenon, <2>2, <1>2, <1>4 DEF FileHdrs
    <3> QED BY Zenon, <3>2, <3>3, <3>4, SameChain DEF FileInv, first
  <2> QED BY Zenon, <2>1, <2>2
<1>11. HeaderSaved'
  BY Zenon, <1>2 DEF HeaderSaved
<1> QED BY Zenon, <1>5, <1>8, <1>10, <1>11 DEF FileInv

\* update_record touches neither counts nor chain.
LEMMA UpdateInv ==
  ASSUME FileInv, NEW rid \in Rids, NEW v \in Values, UpdateRecord(rid, v)
  PROVE  FileInv'
<1> DEFINE p == rid.page_no
<1>1. /\ p \in PageNos /\ p \in UsedPages /\ rid.slot_no \in page[p].bitmap
      /\ page' \in [PageNos -> PageType]
      /\ \A q \in PageNos : q # p => page'[q] = page[q]
      /\ page'[p].bitmap = page[p].bitmap
      /\ page'[p].num_records = page[p].num_records
      /\ page'[p].next_free_page_no = page[p].next_free_page_no
      /\ page'[p].slots = [page[p].slots EXCEPT ![rid.slot_no] = v]
  BY SMTT(30), UpdateEffect
<1> HIDE DEF p
<1>2. \A q \in PageNos : /\ page'[q].bitmap = page[q].bitmap
                         /\ page'[q].num_records = page[q].num_records
                         /\ page'[q].next_free_page_no = page[q].next_free_page_no
  BY Zenon, <1>1
<1>3. UNCHANGED <<file_hdr_, disk_hdr, is_open, fd2pageno_, pins, alive>>
  BY Zenon DEF UpdateRecord, file_vars
<1>4. TypeOK' /\ HeaderSaved'
  BY Zenon, <1>1, <1>3 DEF FileInv, TypeOK, HeaderSaved
<1>5. UsedPages' = UsedPages
  BY Zenon, <1>3 DEF UsedPages
<1>6. OpenPages' = OpenPages
  BY Zenon, <1>2, <1>5 DEF OpenPages, UsedPages
<1>7. NextFree' = NextFree
  BY Zenon, <1>2 DEF NextFree
<1>8. FreeListExact'
  BY Zenon, <1>3, <1>6, <1>7, SameChain DEF FileInv
<1>9. CountsAgree'
  BY Zenon, <1>2, <1>3, <1>5 DEF FileInv, CountsAgree, UsedPages
<1> QED BY Zenon, <1>4, <1>8, <1>9 DEF FileInv

\* Reading, failing, closing, reopening: the handle's header and the pages stay.
LEMMA OtherCallsInv ==
  ASSUME FileInv,
         \/ InsertNullPage
         \/ \E rid \in Rids : TouchMissing(rid) \/ GetRecord(rid) \/ AccessNullPage(rid)
         \/ CloseFile \/ OpenFile
         \/ UNCHANGED vars
  PROVE  /\ FileInv' /\ UNCHANGED <<file_hdr_, page>>
<1> DEFINE Kept == /\ UNCHANGED <<file_hdr_, page>>
                   /\ fd2pageno_' = file_hdr_.num_pages
                   /\ TypeOK' /\ HeaderSaved'
<1>1. Kept
  <2> USE DEF FileInv, TypeOK, HeaderSaved, CountsAgree, vars, file_vars
  <2>1. CASE InsertNullPage \/ UNCHANGED vars
    BY Zenon, <2>1 DEF InsertNullPage, NullPage
  <2>2. ASSUME NEW rid \in Rids,
               TouchMissing(rid) \/ GetRecord(rid) \/ AccessNullPage(rid)
        PROVE  Kept
    <3>1. rid.page_no \in PageNos
      BY Zenon DEF Rids
    <3>2. CASE LeavePinned(rid.page_no) /\ UNCHANGED <<file_vars, page, alive>>
      BY SMTT(30), <3>1, <3>2 DEF LeavePinned
    <3>3. CASE NullPage
      BY Zenon, <3>3 DEF NullPage
    <3> QED BY Zenon, <2>2, <3>2, <3>3 DEF TouchMissing, GetRecord,
               AccessNullPage
  <2>3. CASE CloseFile
    BY Zenon, <2>3 DEF CloseFile
  <2>4. CASE OpenFile
    BY Zenon, <2>4 DEF OpenFile
  <2> QED BY Zenon, <2>1, <2>2, <2>3, <2>4
<1> QED BY Zenon, <1>1, SameFile DEF FileInv

\* Every step of the file keeps it consistent.
LEMMA FileStep ==
  ASSUME FileInv, [Next]_vars
  PROVE  FileInv'
<1>1. ASSUME NEW v \in Values, InsertIntoFree(v) \/ InsertIntoNew(v)
      PROVE  FileInv'
  BY Zenon, <1>1, InsertFreeInv, InsertNewInv
<1>2. ASSUME NEW rid \in Rids, DeleteRecord(rid) PROVE FileInv'
  BY Zenon, <1>2, DeleteInv
<1>3. ASSUME NEW rid \in Rids, NEW v \in Values, UpdateRecord(rid, v)
      PROVE  FileInv'
  BY Zenon, <1>3, UpdateInv
<1> QED BY Zenon, <1>1, <1>2, <1>3, OtherCallsInv DEF Next

-----------------------------------------------------------------------------
(* Every call is a call of RecordTable.                                    *)

\* A record id is its page and its slot.
LEMMA RidIs ==
  ASSUME NEW p \in PageNos, NEW s \in Slots, NEW r, r = [page_no |-> p, slot_no |-> s]
  PROVE  /\ r \in Rids /\ r.page_no = p /\ r.slot_no = s
         /\ \A q \in Rids : q = r <=> q.page_no = p /\ q.slot_no = s
         /\ \A q \in Rids : q.page_no \in PageNos /\ q.slot_no \in Slots
BY SMTT(30) DEF Rids

\* The ids of the records, and what they hold.
LEMMA LiveRecords ==
  /\ DOMAIN Records = {q \in Rids : /\ q.page_no < file_hdr_.num_pages
                                    /\ q.slot_no \in page[q.page_no].bitmap}
  /\ \A q \in DOMAIN Records : Records[q] = page[q.page_no].slots[q.slot_no]
BY Zenon DEF Records

\* A record put into a free slot s of page p is a new record.
LEMMA PutIsInsert ==
  ASSUME FileInv, NEW p \in PageNos, NEW s \in Slots, NEW v \in Values, NEW old,
         PutRecord(p, old, s, v), s \notin old.bitmap, old \in PageType,
         old.bitmap = {} \/ old = page[p],
         p < file_hdr_'.num_pages, old.bitmap # {} => p < file_hdr_.num_pages,
         \A q \in PageNos \ {p} :
             q < file_hdr_'.num_pages <=> q < file_hdr_.num_pages,
         p < file_hdr_.num_pages => old = page[p],
         result' = <<"rid", [page_no |-> p, slot_no |-> s]>>
  PROVE  Table!Next
<1> DEFINE r == [page_no |-> p, slot_no |-> s]
<1>1. /\ r \in Rids /\ r.page_no = p /\ r.slot_no = s
      /\ \A q \in Rids : q = r <=> q.page_no = p /\ q.slot_no = s
      /\ \A q \in Rids : q.page_no \in PageNos /\ q.slot_no \in Slots
  BY Zenon, RidIs
<1>2. result' = <<"rid", r>>
  BY Zenon
<1> HIDE DEF r
<1>3. /\ \A q \in PageNos : q # p => page'[q] = page[q]
      /\ page'[p].bitmap = old.bitmap \cup {s}
      /\ page'[p].slots[s] = v
      /\ \A j \in Slots : j # s => page'[p].slots[j] = old.slots[j]
  BY Zenon DEF PutRecord, PageType
<1>4. r \notin DOMAIN Records
  BY Zenon, <1>1, LiveRecords
<1>5. \A q \in Rids : q \in DOMAIN Records' <=> q \in DOMAIN Records \cup {r}
  <2> SUFFICES ASSUME NEW q \in Rids
               PROVE  q \in DOMAIN Records' <=> q \in DOMAIN Records \cup {r}
    BY Zenon
  <2>1. CASE q.page_no # p
    BY Zenon, <2>1, <1>1, <1>3 DEF Records
  <2>2. CASE q.page_no = p
    BY SMTT(30), <2>2, <1>1, <1>3 DEF Records
  <2> QED BY Zenon, <2>1, <2>2
<1>6. DOMAIN Records' = DOMAIN Records \cup {r}
  <2>1. DOMAIN Records' \subseteq Rids /\ DOMAIN Records \subseteq Rids
    BY Zenon DEF Records
  <2> QED BY Zenon, <2>1, <1>1, <1>5
<1>7. \A q \in DOMAIN Records' : Records'[q] = IF q = r THEN v ELSE Records[q]
  <2> SUFFICES ASSUME NEW q \in DOMAIN Records'
               PROVE  Records'[q] = IF q = r THEN v ELSE Records[q]
    BY Zenon
  <2>1. q \in Rids /\ Records'[q] = page'[q.page_no].slots[q.slot_no]
    BY Zenon DEF Records
  <2>2. CASE q = r
    BY Zenon, <2>1, <2>2, <1>1, <1>3
  <2>3. CASE q # r
    <3>1. q \in DOMAIN Records /\ Records[q] = page[q.page_no].slots[q.slot_no]
      BY Zenon, <2>3, <1>6, LiveRecords
    <3>2. CASE q.page_no # p
      BY Zenon, <3>1, <3>2, <2>1, <2>3, <1>1, <1>3
    <3>3. CASE q.page_no = p
      <4>1. q.slot_no # s /\ old = page[p]
        BY Zenon, <3>1, <3>3, <2>1, <2>3, <1>1, LiveRecords
      <4> QED BY SMTT(30), <4>1, <3>1, <3>3, <2>1, <2>3, <1>1, <1>3
    <3> QED BY Zenon, <3>2, <3>3
  <2> QED BY Zenon, <2>2, <2>3
<1>8. Records' = [q \in DOMAIN Records \cup {r} |-> IF q = r THEN v ELSE Records[q]]
  <2>1. Records' = [q \in DOMAIN Records' |-> Records'[q]]
    BY Zenon DEF Records
  <2> QED BY Zenon, <2>1, <1>6, <1>7
<1>9. Table!Insert(r, v)
  BY Zenon, <1>2, <1>4, <1>8 DEF Table!Insert
<1> QED BY Zenon, <1>1, <1>9 DEF Table!Next

\* An insert into the first free page is an insert under an unused id,
LEMMA InsertFreeTable ==
  ASSUME FileInv, NEW v \in Values, InsertIntoFree(v)
  PROVE  Table!Next
<1> DEFINE p == file_hdr_.first_free_page_no
           s == FirstClear(page[p].bitmap)
<1>1. /\ p \in PageNos /\ p \in OpenPages
      /\ s \in Slots /\ s \notin page[p].bitmap
      /\ PutRecord(p, page[p], s, v)
  BY Zenon, InsertFreeEffect
<1>2. /\ file_hdr_'.num_pages = file_hdr_.num_pages
      /\ result' = <<"rid", [page_no |-> p, slot_no |-> s]>>
  BY Zenon DEF InsertIntoFree, FileInv, TypeOK, FileHdrs
<1> HIDE DEF p, s
<1>3. page[p] \in PageType /\ p < file_hdr_.num_pages
  BY Zenon, <1>1, PageFacts
<1> QED BY Zenon, <1>1, <1>2, <1>3, PutIsInsert

\* and so is one into a new page.
LEMMA InsertNewTable ==
  ASSUME FileInv, NEW v \in Values, InsertIntoNew(v)
  PROVE  Table!Next
<1> DEFINE p == fd2pageno_
<1>1. /\ p \in PageNos /\ p = file_hdr_.num_pages /\ 0 \in Slots
      /\ PutRecord(p, EmptyPage, 0, v)
  BY Zenon, InsertNewEffect
<1>2. /\ file_hdr_'.num_pages = p + 1
      /\ result' = <<"rid", [page_no |-> p, slot_no |-> 0]>>
  BY Zenon, <1>1 DEF InsertIntoNew
<1> HIDE DEF p
<1>3. EmptyPage \in PageType /\ EmptyPage.bitmap = {}
  BY FileAssumption DEF EmptyPage, PageType
<1>4. p \in Nat /\ \A q \in PageNos : q \in Nat
  BY Zenon, <1>1, PageFacts
<1>5. /\ p < file_hdr_'.num_pages /\ ~ (p < file_hdr_.num_pages)
      /\ \A q \in PageNos \ {p} :
            q < file_hdr_'.num_pages <=> q < file_hdr_.num_pages
  BY SMTT(30), <1>1, <1>2, <1>4
<1> QED BY Zenon, <1>1, <1>2, <1>3, <1>5, PutIsInsert

\* delete_record takes away the record it names and no other,
LEMMA DeleteTable ==
  ASSUME FileInv, NEW rid \in Rids, DeleteRecord(rid)
  PROVE  Table!Next
<1> DEFINE p == rid.page_no
           s == rid.slot_no
<1>1. /\ p \in PageNos /\ p \in UsedPages /\ s \in page[p].bitmap
      /\ page' \in [PageNos -> PageType]
      /\ \A q \in PageNos : q # p => page'[q] = page[q]
      /\ page'[p].bitmap = page[p].bitmap \ {s}
      /\ page'[p].slots = page[p].slots
  BY DeleteEffect
<1>2. file_hdr_'.num_pages = file_hdr_.num_pages /\ result' = Void
  BY Zenon DEF DeleteRecord, FileInv, TypeOK, FileHdrs
<1>3. \A q \in Rids : /\ q = rid <=> q.page_no = p /\ q.slot_no = s
                      /\ q.page_no \in PageNos
  BY SMTT(30) DEF Rids
<1> HIDE DEF p, s
<1>4. DOMAIN Records' = DOMAIN Records \ {rid}
  BY Zenon, <1>1, <1>2, <1>3 DEF Records
<1>5. \A q \in DOMAIN Records' : Records'[q] = Records[q]
  <2> SUFFICES ASSUME NEW q \in DOMAIN Records' PROVE Records'[q] = Records[q]
    BY Zenon
  <2>1. /\ q \in Rids /\ Records'[q] = page'[q.page_no].slots[q.slot_no]
        /\ Records[q] = page[q.page_no].slots[q.slot_no]
    BY Zenon, <1>4 DEF Records
  <2> QED BY Zenon, <2>1, <1>1, <1>3
<1>6. Records' = [q \in DOMAIN Records \ {rid} |-> Records[q]]
  <2>1. Records' = [q \in DOMAIN Records' |-> Records'[q]]
    BY Zenon DEF Records
  <2> QED BY Zenon, <2>1, <1>4, <1>5
<1>7. Table!Delete(rid)
  BY Zenon, <1>2, <1>6 DEF Table!Delete, Table!Void, Void
<1> QED BY Zenon, <1>7 DEF Table!Next

\* and update_record changes only that one.
LEMMA UpdateTable ==
  ASSUME FileInv, NEW rid \in Rids, NEW v \in Values, UpdateRecord(rid, v)
  PROVE  Table!Next
<1> DEFINE p == rid.page_no
           s == rid.slot_no
<1>1. /\ p \in PageNos /\ p \in UsedPages /\ s \in page[p].bitmap
      /\ page' \in [PageNos -> PageType]
      /\ \A q \in PageNos : q # p => page'[q] = page[q]
      /\ page'[p].bitmap = page[p].bitmap
      /\ page'[p].num_records = page[p].num_records
      /\ page'[p].next_free_page_no = page[p].next_free_page_no
      /\ page'[p].slots = [page[p].slots EXCEPT ![s] = v]
  BY UpdateEffect
<1>2. file_hdr_' = file_hdr_ /\ result' = Void
  BY Zenon DEF UpdateRecord, file_vars
<1>3. /\ \A q \in Rids : /\ q = rid <=> q.page_no = p /\ q.slot_no = s
                         /\ q.page_no \in PageNos /\ q.slot_no \in Slots
      /\ s \in Slots
  BY SMTT(30) DEF Rids
<1> HIDE DEF p, s
<1>4. \A j \in Slots : page'[p].slots[j] = IF j = s THEN v ELSE page[p].slots[j]
  <2>1. page[p].slots \in [Slots -> Values]
    BY Zenon, <1>1, PageFacts DEF PageType
  <2> QED BY Zenon, <2>1, <1>1
<1>5. DOMAIN Records' = DOMAIN Records
  BY Zenon, <1>1, <1>2, <1>3 DEF Records
<1>6. \A q \in DOMAIN Records : Records'[q] = IF q = rid THEN v ELSE Records[q]
  <2> SUFFICES ASSUME NEW q \in DOMAIN Records
               PROVE  Records'[q] = IF q = rid THEN v ELSE Records[q]
    BY Zenon
  <2>1. /\ q \in Rids /\ Records'[q] = page'[q.page_no].slots[q.slot_no]
        /\ Records[q] = page[q.page_no].slots[q.slot_no]
    BY Zenon, <1>5 DEF Records
  <2>2. CASE q.page_no = p
    BY Zenon, <2>1, <2>2, <1>3, <1>4
  <2>3. CASE q.page_no # p
    BY Zenon, <2>1, <2>3, <1>1, <1>3
  <2> QED BY Zenon, <2>2, <2>3
<1>7. Records' = [q \in DOMAIN Records |-> IF q = rid THEN v ELSE Records[q]]
  <2>1. Records' = [q \in DOMAIN Records' |-> Records'[q]]
    BY Zenon DEF Records
  <2> QED BY Zenon, <2>1, <1>5, <1>6
<1>8. Table!Update(rid, v)
  BY Zenon, <1>2, <1>7 DEF Table!Update, Table!Void, Void
<1> QED BY Zenon, <1>8 DEF Table!Next

\* A read answers from the table; a call about a missing record changes none.
LEMMA ReadTable ==
  ASSUME FileInv, NEW rid \in Rids, TouchMissing(rid) \/ GetRecord(rid)
  PROVE  Table!Next
<1>1. Records' = Records /\ rid.page_no < file_hdr_.num_pages
  BY Zenon DEF TouchMissing, GetRecord, Ready, Records, file_vars
<1>2. /\ rid \in DOMAIN Records <=> rid.slot_no \in page[rid.page_no].bitmap
      /\ rid \in DOMAIN Records =>
            Records[rid] = page[rid.page_no].slots[rid.slot_no]
  BY Zenon, <1>1, LiveRecords
<1>3. CASE TouchMissing(rid)
  <2>1. rid \notin DOMAIN Records /\ result' = Void
    BY Zenon, <1>2, <1>3 DEF TouchMissing
  <2>2. DOMAIN Records \ {rid} = DOMAIN Records
    BY Zenon, <2>1
  <2>3. Records = [q \in DOMAIN Records |-> Records[q]]
    BY Zenon DEF Records
  <2>4. Table!Delete(rid)
    BY Zenon, <1>1, <2>1, <2>2, <2>3 DEF Table!Delete, Table!Void, Void
  <2> QED BY Zenon, <2>4 DEF Table!Next
<1>4. CASE GetRecord(rid)
  <2>1. result' = <<"value", IF rid \in DOMAIN Records THEN Records[rid]
                                                       ELSE NoRecord>>
    BY Zenon, <1>2, <1>4 DEF GetRecord
  <2>2. Table!Get(rid)
    BY Zenon, <1>1, <2>1 DEF Table!Get
  <2> QED BY Zenon, <2>2 DEF Table!Next
<1> QED BY Zenon, <1>3, <1>4

\* Each step of the file is a step of the table or leaves it alone.
LEMMA TableStep ==
  ASSUME FileInv, [Next]_vars
  PROVE  [Table!Next]_(Table!vars)
<1>1. ASSUME NEW v \in Values, InsertIntoFree(v) \/ InsertIntoNew(v)
      PROVE  Table!Next
  BY Zenon, <1>1, InsertFreeTable, InsertNewTable
<1>2. ASSUME NEW rid \in Rids, DeleteRecord(rid)
      PROVE  Table!Next
  BY Zenon, <1>2, DeleteTable
<1>3. ASSUME NEW rid \in Rids, NEW v \in Values, UpdateRecord(rid, v)
      PROVE  Table!Next
  BY Zenon, <1>3, UpdateTable
<1>4. ASSUME NEW rid \in Rids, TouchMissing(rid) \/ GetRecord(rid)
      PROVE  Table!Next
  BY Zenon, <1>4, ReadTable
<1>5. CASE \/ InsertNullPage \/ CloseFile \/ OpenFile \/ UNCHANGED vars
           \/ \E rid \in Rids : AccessNullPage(rid)
  <2>1. UNCHANGED <<file_hdr_, page>>
    BY Zenon, <1>5, OtherCallsInv
  <2>2. UNCHANGED result
    BY Zenon, <1>5 DEF InsertNullPage, CloseFile, OpenFile, AccessNullPage,
       NullPage, vars
  <2> QED BY Zenon, <2>1, <2>2 DEF Table!vars, Records
<1> QED BY Zenon, <1>1, <1>2, <1>3, <1>4, <1>5 DEF Next

\* A new file is an empty table.
LEMMA TableInit == Init => Table!Init
<1> SUFFICES ASSUME Init PROVE Table!Init
  BY Zenon
<1>1. DOMAIN Records = {}
  BY SMTT(30), FileAssumption DEF Init, Records, Rids, PageNos,
     RM_FIRST_RECORD_PAGE
<1>2. Records = [r \in {} |-> NoRecord]
  BY Zenon, <1>1 DEF Records
<1> QED BY Zenon, <1>2 DEF Init, Table!Init, Table!Void, Void

-----------------------------------------------------------------------------
(* The scan.                                                               *)

CursorOK ==
    /\ searching \in BOOLEAN
    /\ ~is_end => rid_ \in [page_no : 1..MaxPages, slot_no : -1..(N - 1)]
    /\ searching => ~is_end

\* What the scan still has to meet lies ahead of the cursor.
UnmetAhead ==
    /\ unmet \subseteq DOMAIN Records
    /\ is_end => unmet = {}
    /\ \A r \in unmet : Before(rid_, r)

ScanInv == FileInv /\ CursorOK /\ UnmetAhead

\* One iteration of the loop finds the next record of the page, or none is
\* left on it.
LEMMA SearchPageStep ==
  ASSUME ScanInv, SearchPage
  PROVE  /\ CursorOK' /\ UnmetAhead'
         /\ Before(rid_, rid_')
<1> DEFINE p == rid_.page_no
           k == rid_.slot_no
           bm == page[p].bitmap
           slot == next_bit(bm, k)
           here == [rid_ EXCEPT !.slot_no = slot]
<1>1. /\ searching /\ ~is_end /\ p < file_hdr_.num_pages
      /\ rid_ \in [page_no : 1..MaxPages, slot_no : -1..(N - 1)]
  BY Zenon DEF SearchPage, Ready, ScanInv, CursorOK
<1>2. p \in 1..MaxPages /\ k \in -1..(N - 1)
  BY Zenon, <1>1
<1>3. /\ file_hdr_.num_pages \in 1..MaxPages
      /\ p \in PageNos /\ p + 1 \in 1..MaxPages
  BY SMTT(30), <1>1, <1>2, FileAssumption
     DEF ScanInv, FileInv, TypeOK, FileHdrs, PageNos, RM_FIRST_RECORD_PAGE
<1>4. bm \in SUBSET Slots
  BY Zenon, <1>3, PageFacts DEF ScanInv
<1>5. IF slot < N
      THEN rid_' = here /\ searching' = FALSE /\ unmet' = unmet \ {here}
      ELSE rid_' = FrontOf(p) /\ UNCHANGED <<searching, unmet>>
  BY Zenon DEF SearchPage
<1>6. here.page_no = p /\ here.slot_no = slot
  BY Zenon, <1>1
<1>7. here = [page_no |-> p, slot_no |-> slot]
  BY SMTT(30), <1>1
<1> HIDE DEF slot, here
<1>8. /\ slot \in (k + 1)..N
      /\ slot < N => slot \in bm
      /\ \A i \in bm : i > k => slot <= i
  <2> HIDE DEF bm, k
  <2> QED BY Zenon, <1>2, <1>4, NextBit DEF slot
<1>9. UNCHANGED vars /\ Records' = Records
  BY Zenon DEF SearchPage, vars, file_vars, Records
<1>10. \A r \in unmet :
          /\ r \in Rids /\ r.page_no \in PageNos /\ r.slot_no \in Slots
          /\ r.slot_no \in page[r.page_no].bitmap
          /\ p < r.page_no \/ (p = r.page_no /\ k < r.slot_no)
  BY Zenon, LiveRecords DEF ScanInv, UnmetAhead, Before, Rids
<1> HIDE DEF p, k, bm
<1>11. CASE slot < N
  <2>1. slot \in 0..(N - 1) /\ k < slot /\ slot \in Int /\ k \in Int
    BY SMTT(30), <1>2, <1>8, <1>11, FileAssumption
  <2>2. rid_' = here /\ searching' = FALSE /\ unmet' = unmet \ {here}
    BY Zenon, <1>5, <1>11
  <2>3. here \in [page_no : 1..MaxPages, slot_no : -1..(N - 1)] /\ here # ScanEnd
    <3>1. slot \in -1..(N - 1) /\ slot # -1
      BY SMTT(30), <2>1, FileAssumption
    <3> QED BY <3>1, <1>2, <1>6, <1>7 DEF ScanEnd
  <2>4. CursorOK'
    BY Zenon, <2>2, <2>3 DEF CursorOK, is_end
  <2>5. Before(rid_, rid_')
    BY Zenon, <2>1, <2>2, <1>6 DEF Before, p, k
  <2>6. ASSUME NEW r \in unmet, r # here PROVE Before(here, r)
    <3>1. CASE p < r.page_no
      BY Zenon, <3>1, <1>6 DEF Before
    <3>2. CASE p = r.page_no /\ k < r.slot_no
      <4>1. r.slot_no \in bm /\ r.slot_no \in Int
        BY SMTT(30), <3>2, <1>10, FileAssumption DEF bm, Slots
      <4>2. slot <= r.slot_no
        BY Zenon, <4>1, <3>2, <1>8, <2>1
      <4>3. r.slot_no # slot
        BY Zenon, <2>6, <3>2, <1>7, <1>10 DEF Rids
      <4> QED BY SMTT(30), <4>1, <4>2, <4>3, <3>2, <2>1, <1>6 DEF Before
    <3> QED BY Zenon, <3>1, <3>2, <1>10
  <2>7. UnmetAhead'
    BY Zenon, <2>2, <2>3, <2>6, <1>9 DEF ScanInv, UnmetAhead, is_end
  <2> QED BY Zenon, <2>4, <2>5, <2>7
<1>12. CASE ~ (slot < N)
  <2>1. /\ rid_' = [page_no |-> p + 1, slot_no |-> -1]
        /\ searching' = searching /\ unmet' = unmet
    BY Zenon, <1>5, <1>12 DEF FrontOf
  <2>2. /\ rid_' \in [page_no : 1..MaxPages, slot_no : -1..(N - 1)]
        /\ rid_' # ScanEnd
        /\ rid_'.page_no = p + 1 /\ rid_'.slot_no = -1
    <3>1. p + 1 # -1 /\ -1 \in -1..(N - 1)
      BY <1>2, FileAssumption
    <3> QED BY Zenon, <3>1, <2>1, <1>3 DEF ScanEnd, RM_NO_PAGE
  <2>3. CursorOK'
    BY Zenon, <2>1, <2>2, <1>1 DEF CursorOK, is_end, ScanInv
  <2>4. Before(rid_, rid_')
    BY <2>2, <1>2 DEF Before, p
  <2>5. ASSUME NEW r \in unmet PROVE Before(rid_', r)
    <3>1. p < r.page_no
      <4> SUFFICES ASSUME p = r.page_no /\ k < r.slot_no PROVE FALSE
        BY Zenon, <1>10
      <4>1. r.slot_no \in bm /\ r.slot_no \in 0..(N - 1)
        BY Zenon, <1>10 DEF bm, Slots
      <4>2. slot <= r.slot_no
        BY Zenon, <4>1, <1>8, <1>2
      <4> QED BY SMTT(30), <4>1, <4>2, <1>8, <1>12, <1>2, FileAssumption
    <3>2. r.slot_no \in 0..(N - 1) /\ r.page_no \in Int
      BY SMTT(30), <1>10, FileAssumption DEF Slots, PageNos
    <3> QED BY <3>1, <3>2, <2>2, <1>2 DEF Before
  <2>6. UnmetAhead'
    BY Zenon, <2>1, <2>2, <2>5, <1>9 DEF ScanInv, UnmetAhead, is_end
  <2> QED BY Zenon, <2>3, <2>4, <2>6
<1> QED BY Zenon, <1>11, <1>12

\* Past the last page nothing that stayed in the file is left to meet.
LEMMA SearchPastEndStep ==
  ASSUME ScanInv, SearchPastEnd
  PROVE  CursorOK' /\ UnmetAhead'
<1>1. /\ searching /\ ~is_end /\ rid_.page_no >= file_hdr_.num_pages
      /\ rid_' = ScanEnd /\ searching' = FALSE /\ unmet' = unmet
  BY Zenon DEF SearchPastEnd, ScanInv, CursorOK
<1>2. rid_.page_no \in Int /\ file_hdr_.num_pages \in Int
  BY <1>1 DEF ScanInv, CursorOK, FileInv, TypeOK, FileHdrs
<1>3. ASSUME NEW r \in unmet PROVE FALSE
  <2>1. r \in Rids /\ r.page_no < file_hdr_.num_pages
    BY Zenon, LiveRecords DEF ScanInv, UnmetAhead
  <2>2. r.page_no \in Int
    BY <2>1 DEF Rids, PageNos
  <2>3. rid_.page_no <= r.page_no
    BY SMTT(30), <2>2, <1>2 DEF ScanInv, UnmetAhead, Before
  <2> QED BY SMTT(30), <2>1, <2>2, <2>3, <1>1, <1>2
<1>4. unmet' = {}
  BY Zenon, <1>1, <1>3
<1> QED BY Zenon, <1>1, <1>4 DEF CursorOK, UnmetAhead, is_end

\* Every step of scan and file keeps what is unmet ahead of the cursor, is at
\* most one call of the file, and moves the cursor forward only.
LEMMA ScanStep ==
  ASSUME ScanInv, [ScanNext]_<<vars, scan_vars>>
  PROVE  /\ ScanInv' /\ [Next]_vars
         /\ (searching /\ (~searching' \/ rid_' # rid_)) =>
               rid_' = ScanEnd \/ Before(rid_, rid_')
<1> DEFINE Ascends == (searching /\ (~searching' \/ rid_' # rid_)) =>
                          rid_' = ScanEnd \/ Before(rid_, rid_')
<1>1. CASE RmScanStart
  <2>1. /\ UNCHANGED vars /\ ~searching /\ searching' = TRUE
        /\ rid_' = [page_no |-> 1, slot_no |-> -1] /\ unmet' = DOMAIN Records
    BY Zenon, <1>1 DEF RmScanStart, RM_FIRST_RECORD_PAGE
  <2>2. /\ rid_' \in [page_no : 1..MaxPages, slot_no : -1..(N - 1)]
        /\ rid_' # ScanEnd
    <3>1. 1 \in 1..MaxPages /\ -1 \in -1..(N - 1)
      BY SMTT(30), FileAssumption
    <3> QED BY <3>1, <2>1 DEF ScanEnd, RM_NO_PAGE
  <2>3. Records' = Records
    BY Zenon, <2>1 DEF vars, file_vars, Records
  <2>4. ASSUME NEW r \in DOMAIN Records PROVE Before(rid_', r)
    <3>1. r.page_no \in 1..(MaxPages - 1) /\ r.slot_no \in 0..(N - 1)
      BY Zenon, LiveRecords DEF Rids, PageNos, Slots, RM_FIRST_RECORD_PAGE
    <3> QED BY SMTT(30), <3>1, <2>1, FileAssumption DEF Before
  <2>5. CursorOK' /\ UnmetAhead'
    BY Zenon, <2>1, <2>2, <2>3, <2>4 DEF CursorOK, UnmetAhead, is_end
  <2>6. FileInv'
    BY Zenon, <2>1, FileStep DEF ScanInv
  <2> QED BY Zenon, <2>1, <2>5, <2>6 DEF ScanInv
<1>2. CASE RmScanNext
  <2>1. /\ UNCHANGED vars /\ rid_' = rid_ /\ unmet' = unmet /\ ~searching
        /\ searching' = TRUE /\ ~is_end
    BY Zenon, <1>2 DEF RmScanNext
  <2>2. Records' = Records
    BY Zenon, <2>1 DEF vars, file_vars, Records
  <2>3. CursorOK' /\ UnmetAhead'
    BY Zenon, <2>1, <2>2 DEF ScanInv, CursorOK, UnmetAhead, is_end, Before
  <2>4. FileInv'
    BY Zenon, <2>1, FileStep DEF ScanInv
  <2> QED BY Zenon, <2>1, <2>3, <2>4 DEF ScanInv
<1>3. CASE SearchPage
  <2>1. CursorOK' /\ UnmetAhead' /\ Before(rid_, rid_')
    BY Zenon, <1>3, SearchPageStep
  <2>2. UNCHANGED vars
    BY Zenon, <1>3 DEF SearchPage
  <2>3. FileInv'
    BY Zenon, <2>2, FileStep DEF ScanInv
  <2> QED BY Zenon, <2>1, <2>2, <2>3 DEF ScanInv
<1>4. CASE SearchPastEnd
  <2>1. CursorOK' /\ UnmetAhead'
    BY Zenon, <1>4, SearchPastEndStep
  <2>2. UNCHANGED vars /\ rid_' = ScanEnd
    BY Zenon, <1>4 DEF SearchPastEnd
  <2>3. FileInv'
    BY Zenon, <2>2, FileStep DEF ScanInv
  <2> QED BY Zenon, <2>1, <2>2, <2>3 DEF ScanInv
<1>5. CASE SearchNullPage
  <2>1. /\ UNCHANGED <<file_hdr_, page>> /\ UNCHANGED scan_vars
        /\ \E rid \in Rids : AccessNullPage(rid)
    <3>1. /\ searching /\ Ready(rid_.page_no) /\ ~CanFetch(rid_.page_no)
          /\ NullPage /\ UNCHANGED scan_vars
      BY Zenon, <1>5 DEF SearchNullPage
    <3>2. rid_.page_no \in PageNos
      BY <3>1, FileAssumption DEF ScanInv, CursorOK, Ready, FileInv, TypeOK,
         FileHdrs, PageNos, RM_FIRST_RECORD_PAGE
    <3>3. 0 \in Slots
      BY SMTT(30), FileAssumption DEF Slots
    <3>4. [page_no |-> rid_.page_no, slot_no |-> 0] \in Rids
      BY Zenon, <3>2, <3>3 DEF Rids
    <3>5. AccessNullPage([page_no |-> rid_.page_no, slot_no |-> 0])
      BY Zenon, <3>1 DEF AccessNullPage
    <3> QED BY Zenon, <3>1, <3>4, <3>5 DEF NullPage, file_vars
  <2>2. FileInv'
    BY Zenon, <2>1, OtherCallsInv DEF ScanInv
  <2>3. Records' = Records
    BY Zenon, <2>1 DEF Records
  <2>4. CursorOK' /\ UnmetAhead'
    BY Zenon, <2>1, <2>3 DEF ScanInv, CursorOK, UnmetAhead, is_end, Before,
       scan_vars
  <2>5. Next
    BY Zenon, <2>1 DEF Next
  <2> QED BY Zenon, <2>1, <2>2, <2>4, <2>5 DEF ScanInv, scan_vars
<1>6. CASE OtherThread
  <2>1. /\ Next /\ unmet' = unmet \cap DOMAIN Records'
        /\ rid_' = rid_ /\ searching' = searching
    BY Zenon, <1>6 DEF OtherThread
  <2>2. FileInv'
    BY Zenon, <2>1, FileStep DEF ScanInv
  <2>3. CursorOK' /\ UnmetAhead'
    BY Zenon, <2>1 DEF ScanInv, CursorOK, UnmetAhead, is_end, Before
  <2> QED BY Zenon, <2>1, <2>2, <2>3 DEF ScanInv
<1>7. CASE UNCHANGED <<vars, scan_vars>>
  <2>1. Records' = Records /\ UNCHANGED vars
    BY Zenon, <1>7 DEF vars, file_vars, Records
  <2>2. FileInv'
    BY Zenon, <2>1, FileStep DEF ScanInv
  <2>3. CursorOK' /\ UnmetAhead' /\ rid_' = rid_ /\ searching' = searching
    BY Zenon, <1>7, <2>1 DEF ScanInv, CursorOK, UnmetAhead, is_end, Before,
       scan_vars
  <2> QED BY Zenon, <2>1, <2>2, <2>3, <1>7 DEF ScanInv, CursorOK
<1> QED BY Zenon, <1>1, <1>2, <1>3, <1>4, <1>5, <1>6, <1>7 DEF ScanNext

\* Before the first scan there is nothing to meet.
LEMMA ScanInitial == ScanInit => ScanInv
<1> SUFFICES ASSUME ScanInit PROVE ScanInv
  BY Zenon
<1>1. FileInv
  BY Zenon, FileInit DEF ScanInit
<1> QED BY Zenon, <1>1 DEF ScanInit, ScanInv, CursorOK, UnmetAhead, is_end

-----------------------------------------------------------------------------
\* A file that scans and other threads use together goes through calls of one
\* record file only, and keeps its invariant.
THEOREM ScanInvariant == ScanSpec => Spec /\ []ScanInv
<1>1. ScanInv /\ [ScanNext]_<<vars, scan_vars>> => ScanInv' /\ [Next]_vars
  BY Zenon, ScanStep
<1>2. ScanInit => ScanInv /\ Init
  BY Zenon, ScanInitial DEF ScanInit
<1> QED BY <1>1, <1>2, PTL DEF ScanSpec, Spec

\* The file is consistent after every call of rm_file_handle.cpp.
THEOREM FileInvariant == Spec => []FileInv
<1>1. FileInv /\ [Next]_vars => FileInv'
  BY Zenon, FileStep
<1> QED BY <1>1, FileInit, PTL DEF Spec

\* The free-page chain always lists exactly the pages with room, each once,
\* whatever inserts, deletes, failures and reopenings came before.
THEOREM FreeListStaysExact == Spec => []FreeListExact
<1>1. FileInv => FreeListExact
  BY Zenon DEF FileInv
<1> QED BY <1>1, FileInvariant, PTL

\* Headers never disagree with bitmaps, nor the handle with the DiskManager.
THEOREM CountsStayRight == Spec => []CountsAgree
<1>1. FileInv => CountsAgree
  BY Zenon DEF FileInv
<1> QED BY <1>1, FileInvariant, PTL

\* The slotted pages implement the table of records.
THEOREM FileImplementsTable == Spec => ImplementsTable
<1>1. FileInv /\ [Next]_vars => [Table!Next]_(Table!vars)
  BY Zenon, TableStep
<1> QED BY <1>1, FileInvariant, TableInit, PTL
    DEF Spec, ImplementsTable, Table!Spec

\* A scan meets every record that stays in the file while it runs.
THEOREM ScansAreComplete == ScanSpec => []ScanComplete
<1>1. ScanInv => ScanComplete
  BY Zenon DEF ScanInv, UnmetAhead, ScanComplete
<1> QED BY <1>1, ScanInvariant, PTL

\* A scan never goes back, so it answers with no record id twice.
THEOREM ScansAscend == ScanSpec => ScanAscends
<1>1. ScanInv /\ [ScanNext]_<<vars, scan_vars>> =>
        [(searching /\ (~searching' \/ rid_' # rid_)) =>
            rid_' = ScanEnd \/ Before(rid_, rid_')]_scan_vars
  BY Zenon, ScanStep
<1> QED BY <1>1, ScanInvariant, PTL DEF ScanSpec, ScanAscends
=============================================================================
