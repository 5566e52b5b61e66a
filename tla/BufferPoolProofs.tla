-------------------------- MODULE BufferPoolProofs --------------------------
(***************************************************************************)
(* For every number of clients, files, pages and frames, and with write    *)
(* failures and short reads included, a held page stays cached in the      *)
(* frame its holder points to and page_table_ agrees with the frames.      *)
(* When every page obtained from new_page is unpinned dirty, as the record *)
(* layer does, every step of the pool is a step of a page store or         *)
(* invisible, whatever fails on the way to disk; and when no write fails   *)
(* either, the pool never loses a frame.                                   *)
(***************************************************************************)
EXTENDS BufferPoolStore, LRUListProofs, WellFoundedInduction

\* A client that holds something holds a real page in a real frame.
HandlesPoint ==
    \A c \in Clients : handle[c] # NoHandle =>
        handle[c].page \in PageIds /\ handle[c].frame \in Frames

\* Neither list has a frame twice.
ListsInjective == IsInjective(free_list_) /\ IsInjective(LRUlist_)

\* Only a frame that carries a page is dirty, so a write-back has an address.
DirtyHasPage == \A f \in Frames : is_dirty_[f] => id_[f] # NoPage

\* Only allocated pages are cached, so new_page never meets its own page.
CachedAllocated ==
    \A p \in PageIds : page_table_[p] # NoFrame => Allocated(p)

SafeInv ==
    /\ TypeOK
    /\ HandlesPoint
    /\ HeldPagesStay
    /\ TableMatchesFrames
    /\ ListsInjective
    /\ DirtyHasPage
    /\ CachedAllocated

-----------------------------------------------------------------------------
LEMMA Constants ==
    /\ PoolSize \in Nat \ {0} /\ MaxPages \in Nat /\ Zero \in Values
    /\ NoPage \notin PageIds /\ NoFrame \notin Frames
    /\ NoHandle.page = NoPage /\ NoHandle.frame = NoFrame
    /\ NoHandle.dirty = FALSE /\ NoHandle \in Handles
    /\ \A p \in PageIds : p.fd \in Fds /\ p.page_no \in 0..(MaxPages - 1)
    /\ Frames \subseteq Nat /\ Frames = 0..(PoolSize - 1)
    /\ IsFiniteSet(Frames) /\ Cardinality(Frames) = PoolSize
    /\ IsFiniteSet(Clients)
<1>1. /\ PoolSize \in Nat \ {0} /\ MaxPages \in Nat /\ Zero \in Values
      /\ IsFiniteSet(Clients) /\ Fds \subseteq Nat
  BY Zenon, PoolAssumption
<1>2. NoPage \notin PageIds /\ NoFrame \notin Frames
  BY <1>1 DEF NoPage, PageIds, NoFrame, Frames
<1>3. /\ NoHandle.page = NoPage /\ NoHandle.frame = NoFrame
      /\ NoHandle.dirty = FALSE /\ NoHandle \in Handles
  BY Zenon DEF NoHandle, Handles
<1>4. \A p \in PageIds : p.fd \in Fds /\ p.page_no \in 0..(MaxPages - 1)
  BY Zenon DEF PageIds
<1>5. IsFiniteSet(Frames) /\ Cardinality(Frames) = PoolSize
  <2>1. 0 \in Int /\ PoolSize - 1 \in Int
    BY <1>1
  <2>2. /\ IsFiniteSet(0..(PoolSize - 1))
        /\ Cardinality(0..(PoolSize - 1)) =
             IF 0 > PoolSize - 1 THEN 0 ELSE (PoolSize - 1) - 0 + 1
    BY Zenon, <2>1, FS_Interval
  <2> QED BY <1>1, <2>2 DEF Frames
<1> QED BY <1>1, <1>2, <1>3, <1>4, <1>5 DEF Frames

\* A bounded non-empty set of numbers has a largest element.
LEMMA MaxOfBounded ==
  ASSUME NEW S, S # {}, NEW n \in Nat, S \subseteq 0..n
  PROVE  /\ Max(S) \in S
         /\ \A y \in S : y <= Max(S)
<1> DEFINE R == OpToRel(<, Nat)
           T == {k \in Nat : \A y \in S : y <= k}
<1>1. \A a, b \in Nat : <<a, b>> \in R <=> a < b
  BY Zenon DEF OpToRel
<1>2. IsWellFoundedOn(R, Nat)
  BY Zenon, NatLessThanWellFounded
<1>3. n \in T
  OBVIOUS
<1> HIDE DEF R
<1>4. \E x \in T : \A y \in T : ~ (<<y, x>> \in R)
  <2>1. T \subseteq Nat /\ T # {}
    BY Zenon, <1>3
  <2> HIDE DEF T
  <2> QED BY Zenon, <2>1, <1>2, WFMin
<1>5. PICK m \in T : \A k \in T : ~(k < m)
  BY Zenon, <1>4, <1>1
<1>6. m \in S
  <2> SUFFICES ASSUME m \notin S PROVE FALSE
    BY Zenon
  <2>1. PICK s \in S : TRUE
    BY Zenon
  <2>2. m - 1 \in T
    BY <2>1
  <2> QED BY <2>2, <1>5
<1>7. \A y \in S : m >= y
  BY Zenon, <1>5
<1> QED BY Zenon, <1>6, <1>7 DEF Max

\* A frame nobody holds has pin count zero, and conversely.
LEMMA Unheld ==
  ASSUME SafeInv, NEW f \in Frames
  PROVE  /\ IsFiniteSet(Holders(f))
         /\ (\A c \in Clients : handle[c].frame # f) => pin_count_[f] = 0
         /\ pin_count_[f] = 0 => \A c \in Clients : handle[c].frame # f
<1>1. IsFiniteSet(Holders(f))
  BY Zenon, Constants, FS_Subset DEF Holders
<1>2. pin_count_[f] = Cardinality(Holders(f))
  BY Zenon DEF SafeInv, HeldPagesStay
<1>3. pin_count_[f] = 0 <=> Holders(f) = {}
  BY Zenon, <1>1, <1>2, FS_EmptySet
<1> QED BY Zenon, <1>1, <1>3 DEF Holders

\* What find_victim_page returns and leaves behind.
LEMMA VictimFacts ==
  ASSUME SafeInv, HasVictim
  PROVE  /\ Victim \in Frames
         /\ Victim \in Range(free_list_) \cup Range(LRUlist_)
         /\ FreeAfter \in Seq(Frames) /\ IsInjective(FreeAfter)
         /\ Range(FreeAfter) = Range(free_list_) \ {Victim}
         /\ LRUAfter \in Seq(Frames) /\ IsInjective(LRUAfter)
         /\ Range(LRUAfter) \subseteq Range(LRUlist_)
         /\ Range(LRUlist_) \subseteq Range(LRUAfter) \cup {Victim}
         /\ id_[Victim] # NoPage => /\ page_table_[id_[Victim]] = Victim
                                    /\ Victim \notin Range(LRUAfter)
         /\ \A c \in Clients : handle[c].frame # Victim
         /\ pin_count_[Victim] = 0
<1>1. /\ free_list_ \in Seq(Frames) /\ LRUlist_ \in Seq(Frames)
      /\ IsInjective(free_list_) /\ IsInjective(LRUlist_)
  BY Zenon DEF SafeInv, TypeOK, ListsInjective
<1>2. /\ Victim \in Range(free_list_) \cup Range(LRUlist_)
      /\ FreeAfter \in Seq(Frames) /\ IsInjective(FreeAfter)
      /\ Range(FreeAfter) = Range(free_list_) \ {Victim}
      /\ LRUAfter \in Seq(Frames) /\ IsInjective(LRUAfter)
      /\ Range(LRUAfter) \subseteq Range(LRUlist_)
      /\ Range(LRUlist_) \subseteq Range(LRUAfter) \cup {Victim}
      /\ id_[Victim] # NoPage => Victim \notin Range(LRUAfter)
  <2>1. CASE free_list_ # <<>>
    <3>1. /\ Head(free_list_) \in Range(free_list_)
          /\ Tail(free_list_) \in Seq(Frames) /\ IsInjective(Tail(free_list_))
          /\ Range(Tail(free_list_)) = Range(free_list_) \ {Head(free_list_)}
      BY Zenon, <1>1, <2>1, TailProperties
    <3>2. /\ Victim = Head(free_list_) /\ FreeAfter = Tail(free_list_)
          /\ LRUAfter = LRUlist_
      BY Zenon, <2>1 DEF Victim, FreeAfter, LRUAfter
    <3>3. id_[Victim] = NoPage
      BY Zenon, <3>1, <3>2 DEF SafeInv, TableMatchesFrames
    <3> QED BY Zenon, <1>1, <3>1, <3>2, <3>3
  <2>2. CASE free_list_ = <<>>
    <3>1. LRUlist_ # <<>>
      BY Zenon, <2>2 DEF HasVictim
    <3>2. /\ VictimFrame(LRUlist_) \in Range(LRUlist_)
          /\ AfterVictim(LRUlist_) \in Seq(Frames)
          /\ IsInjective(AfterVictim(LRUlist_))
          /\ Range(AfterVictim(LRUlist_)) = Range(LRUlist_) \ {VictimFrame(LRUlist_)}
      BY Zenon, <1>1, <3>1, AfterVictimProperties
    <3>3. /\ Victim = VictimFrame(LRUlist_) /\ FreeAfter = free_list_
          /\ LRUAfter = AfterVictim(LRUlist_)
      BY Zenon, <2>2 DEF Victim, FreeAfter, LRUAfter
    <3>4. Range(free_list_) = {}
      BY <2>2 DEF Range
    <3> QED BY Zenon, <1>1, <3>2, <3>3, <3>4
  <2> QED BY Zenon, <2>1, <2>2
<1>3. Victim \in Frames
  BY Zenon, <1>1, <1>2, SeqValues
<1>4. id_[Victim] # NoPage => page_table_[id_[Victim]] = Victim
  BY Zenon, <1>2 DEF SafeInv, TableMatchesFrames
<1>5. \A c \in Clients : handle[c].frame # Victim
  BY Zenon, <1>2, <1>3, Constants DEF SafeInv, HeldPagesStay
<1>6. pin_count_[Victim] = 0
  BY Zenon, <1>3, <1>5, Unheld
<1> QED BY Zenon, <1>2, <1>3, <1>4, <1>5, <1>6

\* A write-back keeps the disk and the file lengths well typed.
LEMMA WriteBackType ==
  ASSUME SafeInv, NEW f \in Frames
  PROVE  /\ DiskAfter(f) \in [PageIds -> Values]
         /\ FilesAfter(f) \in [Fds -> 0..MaxPages]
<1>1. /\ disk \in [PageIds -> Values] /\ data_ \in [Frames -> Values]
      /\ file_pages \in [Fds -> 0..MaxPages] /\ id_ \in [Frames -> PageIds \cup {NoPage}]
  BY Zenon DEF SafeInv, TypeOK
<1>2. is_dirty_[f] => id_[f] \in PageIds
  BY Zenon, <1>1 DEF SafeInv, DirtyHasPage
<1>3. DiskAfter(f) \in [PageIds -> Values]
  BY Zenon, <1>1, <1>2 DEF DiskAfter
<1>4. FilesAfter(f) \in [Fds -> 0..MaxPages]
  <2>1. CASE is_dirty_[f]
    <3>1. id_[f].fd \in Fds /\ id_[f].page_no \in 0..(MaxPages - 1)
      BY Zenon, <1>2, <2>1, Constants
    <3>2. Longer(file_pages[id_[f].fd], id_[f]) \in 0..MaxPages
      BY <1>1, <3>1, Constants DEF Longer
    <3> QED BY Zenon, <1>1, <2>1, <3>1, <3>2 DEF FilesAfter
  <2>2. CASE ~is_dirty_[f]
    BY Zenon, <1>1, <2>2 DEF FilesAfter
  <2> QED BY Zenon, <2>1, <2>2
<1> QED BY Zenon, <1>3, <1>4
\* fetch_page (miss) and new_page: the victim frame takes page p.
LEMMA InstallSafe ==
  ASSUME SafeInv, HasVictim,
         NEW c \in Clients, NEW p \in PageIds, NEW v \in Values, NEW owes \in BOOLEAN,
         handle[c] = NoHandle, page_table_[p] = NoFrame,
         Install(c, Victim, p, v, owes),
         disk' \in [PageIds -> Values], file_pages' \in [Fds -> 0..MaxPages],
         fd2pageno_' \in [Fds -> 0..MaxPages],
         \A q \in PageIds : Allocated(q) \/ q = p => Allocated(q)'
  PROVE  SafeInv'
<1> DEFINE f == Victim
<1>v. /\ f \in Frames
      /\ f \in Range(free_list_) \cup Range(LRUlist_)
      /\ FreeAfter \in Seq(Frames) /\ IsInjective(FreeAfter)
      /\ Range(FreeAfter) = Range(free_list_) \ {f}
      /\ LRUAfter \in Seq(Frames) /\ IsInjective(LRUAfter)
      /\ Range(LRUAfter) \subseteq Range(LRUlist_)
      /\ id_[f] # NoPage => page_table_[id_[f]] = f
      /\ \A d \in Clients : handle[d].frame # f
  BY Zenon, VictimFacts
<1>i. /\ page_table_' = [TableWithout(f) EXCEPT ![p] = f]
      /\ id_' = [id_ EXCEPT ![f] = p]
      /\ data_' = [data_ EXCEPT ![f] = v]
      /\ is_dirty_' = [is_dirty_ EXCEPT ![f] = FALSE]
      /\ pin_count_' = [pin_count_ EXCEPT ![f] = 1]
      /\ free_list_' = FreeAfter
      /\ LRUlist_' = AfterPin(LRUAfter, f)
      /\ handle' = [handle EXCEPT ![c] = [page |-> p, frame |-> f, dirty |-> owes]]
  BY Zenon DEF Install
<1> HIDE DEF f
<1>t. /\ page_table_ \in [PageIds -> Frames \cup {NoFrame}]
      /\ id_ \in [Frames -> PageIds \cup {NoPage}]
      /\ data_ \in [Frames -> Values]
      /\ is_dirty_ \in [Frames -> BOOLEAN]
      /\ pin_count_ \in [Frames -> Nat]
      /\ handle \in [Clients -> Handles]
  BY Zenon DEF SafeInv, TypeOK
<1>l. /\ LRUlist_' \in Seq(Frames) /\ IsInjective(LRUlist_')
      /\ Range(LRUlist_') = Range(LRUAfter) \ {f}
  BY Zenon, <1>v, <1>i, AfterPinProperties
<1>h. /\ [page |-> p, frame |-> f, dirty |-> owes] \in Handles
      /\ handle'[c] = [page |-> p, frame |-> f, dirty |-> owes]
      /\ \A d \in Clients : d # c => handle'[d] = handle[d]
  BY Zenon, <1>v, <1>i, <1>t DEF Handles
<1>p. \A q \in PageIds : page_table_'[q] =
         IF q = p THEN f ELSE IF q = id_[f] THEN NoFrame ELSE page_table_[q]
  BY Zenon, <1>i DEF TableWithout
<1>1. TypeOK'
  <2>1. page_table_' \in [PageIds -> Frames \cup {NoFrame}]
    BY Zenon, <1>i, <1>t, <1>v DEF TableWithout
  <2> QED BY Zenon, <2>1, <1>i, <1>t, <1>v, <1>l, <1>h DEF TypeOK
<1>2. HandlesPoint'
  <2> SUFFICES ASSUME NEW d \in Clients, handle'[d] # NoHandle
               PROVE  handle'[d].page \in PageIds /\ handle'[d].frame \in Frames
    BY Zenon DEF HandlesPoint
  <2>1. CASE d = c
    BY <2>1, <1>h, <1>v, SMTT(30)
  <2>2. CASE d # c
    BY Zenon, <2>2, <1>h DEF SafeInv, HandlesPoint
  <2> QED BY Zenon, <2>1, <2>2
<1>3. HeldPagesStay'
  <2>1. ASSUME NEW d \in Clients, handle'[d] # NoHandle
        PROVE  /\ page_table_'[handle'[d].page] = handle'[d].frame
               /\ handle'[d].frame \notin Range(free_list_') \cup Range(LRUlist_')
    <3>1. CASE d = c
      BY <3>1, <1>h, <1>p, <1>i, <1>v, <1>l, SMTT(30)
    <3>2. CASE d # c
      <4>1. handle'[d] = handle[d] /\ handle[d] # NoHandle
        BY Zenon, <3>2, <2>1, <1>h
      <4>2. /\ handle[d].page \in PageIds /\ handle[d].frame \in Frames
            /\ page_table_[handle[d].page] = handle[d].frame
            /\ handle[d].frame \notin Range(free_list_) \cup Range(LRUlist_)
        BY Zenon, <4>1 DEF SafeInv, HandlesPoint, HeldPagesStay
      <4>3. handle[d].page # p /\ handle[d].page # id_[f]
        BY Zenon, <4>2, <1>v, Constants
      <4> QED BY Zenon, <4>1, <4>2, <4>3, <1>p, <1>i, <1>v, <1>l
    <3> QED BY Zenon, <3>1, <3>2
  <2>2. ASSUME NEW g \in Frames PROVE pin_count_'[g] = Cardinality(Holders(g)')
    <3>1. CASE g = f
      <4>1. Holders(g)' = {c}
        BY <3>1, <1>h, <1>v DEF Holders
      <4> QED BY Zenon, <4>1, <3>1, <1>i, <1>t, FS_Singleton
    <3>2. CASE g # f
      <4>1. Holders(g)' = Holders(g)
        <5>1. handle'[c].frame = f
          BY <1>h
        <5>2. handle[c].frame # g
          BY Zenon, Constants
        <5>3. \A d \in Clients : handle'[d].frame = g <=> handle[d].frame = g
          BY Zenon, <3>2, <5>1, <5>2, <1>h
        <5> QED BY Zenon, <5>3 DEF Holders
      <4>2. pin_count_[g] = Cardinality(Holders(g))
        BY Zenon DEF SafeInv, HeldPagesStay
      <4> QED BY Zenon, <4>1, <4>2, <3>2, <1>i, <1>t
    <3> QED BY Zenon, <3>1, <3>2
  <2> QED BY Zenon, <2>1, <2>2 DEF HeldPagesStay
<1>4. TableMatchesFrames'
  <2>1. ASSUME NEW q \in PageIds, page_table_'[q] # NoFrame
        PROVE  id_'[page_table_'[q]] = q
    <3>1. CASE q = p
      BY <3>1, <1>p, <1>i, <1>t, <1>v
    <3>2. CASE q # p
      <4>1. q # id_[f] /\ page_table_'[q] = page_table_[q]
        BY Zenon, <3>2, <2>1, <1>p
      <4>2. id_[page_table_[q]] = q /\ page_table_[q] \in Frames
        BY Zenon, <4>1, <2>1, <1>t DEF SafeInv, TableMatchesFrames
      <4> QED BY Zenon, <4>1, <4>2, <1>i, <1>t
    <3> QED BY Zenon, <3>1, <3>2
  <2>2. ASSUME NEW g \in Range(free_list_') PROVE id_'[g] = NoPage
    <3>1. g \in Range(free_list_) /\ g # f
      BY Zenon, <1>i, <1>v
    <3> QED BY <3>1, <1>i, <1>t DEF SafeInv, TableMatchesFrames
  <2>3. ASSUME NEW g \in Range(LRUlist_'), id_'[g] # NoPage
        PROVE  page_table_'[id_'[g]] = g
    <3>1. g \in Range(LRUlist_) /\ g # f /\ g \in Frames
      BY Zenon, <1>l, <1>v, SeqValues
    <3>2. id_'[g] = id_[g] /\ id_[g] \in PageIds
      BY Zenon, <3>1, <2>3, <1>i, <1>t
    <3>3. page_table_[id_[g]] = g
      BY Zenon, <3>1, <3>2, <2>3 DEF SafeInv, TableMatchesFrames
    <3>4. id_[g] # p /\ id_[g] # id_[f]
      BY Zenon, <3>1, <3>2, <3>3, <1>v, Constants
    <3> QED BY Zenon, <3>2, <3>3, <3>4, <1>p
  <2> QED BY Zenon, <2>1, <2>2, <2>3 DEF TableMatchesFrames
<1>5. ListsInjective'
  BY Zenon, <1>i, <1>v, <1>l DEF ListsInjective
<1>6. DirtyHasPage'
  BY Zenon, <1>i, <1>t, <1>v, Constants DEF SafeInv, DirtyHasPage
<1>7. CachedAllocated'
  <2>1. ASSUME NEW q \in PageIds, page_table_'[q] # NoFrame PROVE Allocated(q) \/ q = p
    BY Zenon, <2>1, <1>p DEF SafeInv, CachedAllocated
  <2> QED BY Zenon, <2>1 DEF CachedAllocated
<1> QED BY Zenon, <1>1, <1>2, <1>3, <1>4, <1>5, <1>6, <1>7 DEF SafeInv

LEMMA FetchMissSafe ==
  ASSUME SafeInv, NEW c \in Clients, NEW p \in PageIds, FetchMiss(c, p)
  PROVE  SafeInv'
<1>1. Victim \in Frames
  BY Zenon, VictimFacts DEF FetchMiss
<1>2. /\ DiskAfter(Victim) \in [PageIds -> Values]
      /\ FilesAfter(Victim) \in [Fds -> 0..MaxPages]
  BY Zenon, <1>1, WriteBackType
<1>3. fd2pageno_ \in [Fds -> 0..MaxPages]
  BY Zenon DEF SafeInv, TypeOK
<1>4. /\ HasVictim /\ handle[c] = NoHandle /\ page_table_[p] = NoFrame
      /\ disk' \in [PageIds -> Values] /\ file_pages' \in [Fds -> 0..MaxPages]
      /\ fd2pageno_' \in [Fds -> 0..MaxPages] /\ DiskAfter(Victim)[p] \in Values
      /\ Install(c, Victim, p, DiskAfter(Victim)[p], FALSE)
      /\ \A q \in PageIds : Allocated(q) \/ q = p => Allocated(q)'
  BY Zenon, <1>2, <1>3 DEF FetchMiss, Allocated
<1>5. FALSE \in BOOLEAN
  BY Zenon
<1> HIDE DEF FetchMiss
<1> QED BY Zenon, <1>4, <1>5, InstallSafe

LEMMA NewPageSafe ==
  ASSUME SafeInv, NEW c \in Clients, NEW fd \in Fds, NewPage(c, fd)
  PROVE  SafeInv'
<1> DEFINE p == [fd |-> fd, page_no |-> fd2pageno_[fd]]
<1>1. Victim \in Frames
  BY Zenon, VictimFacts DEF NewPage
<1>2. /\ DiskAfter(Victim) \in [PageIds -> Values]
      /\ FilesAfter(Victim) \in [Fds -> 0..MaxPages]
  BY Zenon, <1>1, WriteBackType
<1>3. fd2pageno_ \in [Fds -> 0..MaxPages] /\ fd2pageno_[fd] < MaxPages
  BY Zenon DEF SafeInv, TypeOK, NewPage
<1>4. p \in PageIds /\ ~Allocated(p) /\ p.fd = fd /\ p.page_no = fd2pageno_[fd]
  BY <1>3, Constants DEF PageIds, Allocated
<1>5. page_table_[p] = NoFrame
  BY Zenon, <1>4 DEF SafeInv, CachedAllocated
<1>6. /\ HasVictim /\ handle[c] = NoHandle
      /\ disk' = DiskAfter(Victim) /\ file_pages' = FilesAfter(Victim)
      /\ fd2pageno_' = [fd2pageno_ EXCEPT ![fd] = @ + 1]
      /\ Install(c, Victim, p, Zero, DirtyNewPages)
  BY Zenon DEF NewPage
<1>7. fd2pageno_' \in [Fds -> 0..MaxPages]
  BY <1>3, <1>6, Constants
<1> HIDE DEF p
<1>8. \A q \in PageIds : Allocated(q) \/ q = p => Allocated(q)'
  BY <1>3, <1>4, <1>6, Constants DEF Allocated
<1>9. Zero \in Values /\ DirtyNewPages \in BOOLEAN
  BY Zenon, PoolAssumption
<1> QED BY Zenon, <1>2, <1>4, <1>5, <1>6, <1>7, <1>8, <1>9, InstallSafe
\* fetch_page (hit): one more pin on the frame that holds p.
LEMMA FetchHitSafe ==
  ASSUME SafeInv, NEW c \in Clients, NEW p \in PageIds, FetchHit(c, p)
  PROVE  SafeInv'
<1> DEFINE f == page_table_[p]
           h == [page |-> p, frame |-> f, dirty |-> FALSE]
<1>t. /\ page_table_ \in [PageIds -> Frames \cup {NoFrame}]
      /\ id_ \in [Frames -> PageIds \cup {NoPage}]
      /\ pin_count_ \in [Frames -> Nat]
      /\ LRUlist_ \in Seq(Frames) /\ IsInjective(LRUlist_)
      /\ handle \in [Clients -> Handles]
  BY Zenon DEF SafeInv, TypeOK, ListsInjective
<1>a. /\ handle[c] = NoHandle /\ f # NoFrame
      /\ pin_count_' = [pin_count_ EXCEPT ![f] = @ + 1]
      /\ LRUlist_' = AfterPin(LRUlist_, f)
      /\ handle' = [handle EXCEPT ![c] = h]
      /\ UNCHANGED <<page_table_, id_, data_, is_dirty_, free_list_, disk,
                     file_pages, fd2pageno_>>
  BY Zenon DEF FetchHit, disk_vars
<1>f. f \in Frames /\ id_[f] = p
  BY Zenon, <1>t, <1>a DEF SafeInv, TableMatchesFrames
<1>l. /\ LRUlist_' \in Seq(Frames) /\ IsInjective(LRUlist_')
      /\ Range(LRUlist_') = Range(LRUlist_) \ {f}
  BY Zenon, <1>t, <1>a, AfterPinProperties
<1>h. /\ h \in Handles /\ h.page = p /\ h.frame = f /\ handle'[c] = h
      /\ \A d \in Clients : d # c => handle'[d] = handle[d]
  BY Zenon, <1>f, <1>a, <1>t DEF Handles
<1> HIDE DEF f, h
<1>1. TypeOK'
  <2>1. pin_count_' \in [Frames -> Nat] /\ handle' \in [Clients -> Handles]
    BY <1>a, <1>t, <1>f, <1>h
  <2> QED BY Zenon, <2>1, <1>a, <1>l DEF SafeInv, TypeOK
<1>2. HandlesPoint'
  BY Zenon, <1>h, <1>f DEF SafeInv, HandlesPoint
<1>3. HeldPagesStay'
  <2>1. ASSUME NEW d \in Clients, handle'[d] # NoHandle
        PROVE  /\ page_table_'[handle'[d].page] = handle'[d].frame
               /\ handle'[d].frame \notin Range(free_list_') \cup Range(LRUlist_')
    <3>1. CASE d = c
      <4>1. f \notin Range(free_list_)
        BY Zenon, <1>f, Constants DEF SafeInv, TableMatchesFrames
      <4> QED BY Zenon, <4>1, <3>1, <1>h, <1>a, <1>l DEF f
    <3>2. CASE d # c
      BY Zenon, <3>2, <2>1, <1>h, <1>a, <1>l DEF SafeInv, HeldPagesStay
    <3> QED BY Zenon, <3>1, <3>2
  <2>2. ASSUME NEW g \in Frames PROVE pin_count_'[g] = Cardinality(Holders(g)')
    <3>1. /\ pin_count_[g] = Cardinality(Holders(g))
          /\ IsFiniteSet(Holders(g)) /\ c \notin Holders(g)
      BY Zenon, <1>a, Unheld, Constants DEF SafeInv, HeldPagesStay, Holders
    <3>2. CASE g = f
      <4>1. Holders(g)' = Holders(g) \cup {c}
        BY Zenon, <3>2, <1>h DEF Holders
      <4>2. Cardinality(Holders(g) \cup {c}) = Cardinality(Holders(g)) + 1
        BY Zenon, <3>1, FS_AddElement
      <4> QED BY Zenon, <4>1, <4>2, <3>1, <3>2, <1>a, <1>t
    <3>3. CASE g # f
      <4>1. Holders(g)' = Holders(g)
        BY Zenon, <3>3, <3>1, <1>h DEF Holders
      <4> QED BY Zenon, <4>1, <3>1, <3>3, <1>a, <1>t
    <3> QED BY Zenon, <3>2, <3>3
  <2> QED BY Zenon, <2>1, <2>2 DEF HeldPagesStay
<1>4. TableMatchesFrames'
  BY Zenon, <1>a, <1>l DEF SafeInv, TableMatchesFrames
<1>5. ListsInjective' /\ DirtyHasPage'
  BY Zenon, <1>a, <1>l DEF SafeInv, ListsInjective, DirtyHasPage
<1>6. CachedAllocated'
  BY Zenon, <1>a DEF SafeInv, CachedAllocated, Allocated
<1> QED BY Zenon, <1>1, <1>2, <1>3, <1>4, <1>5, <1>6 DEF SafeInv

LEMMA ClientWriteSafe ==
  ASSUME SafeInv, NEW c \in Clients, NEW v \in Values, ClientWrite(c, v)
  PROVE  SafeInv'
<1>t. /\ data_ \in [Frames -> Values] /\ handle \in [Clients -> Handles]
  BY Zenon DEF SafeInv, TypeOK
<1>a. /\ handle[c] # NoHandle
      /\ data_' = [data_ EXCEPT ![handle[c].frame] = v]
      /\ handle' = [handle EXCEPT ![c].dirty = TRUE]
      /\ UNCHANGED <<page_table_, id_, is_dirty_, pin_count_, free_list_,
                     LRUlist_, disk, file_pages, fd2pageno_>>
  BY Zenon DEF ClientWrite, disk_vars
<1>f. handle[c].page \in PageIds /\ handle[c].frame \in Frames
  BY Zenon, <1>a DEF SafeInv, HandlesPoint
<1>h. /\ handle' \in [Clients -> Handles]
      /\ \A d \in Clients : /\ handle'[d].page = handle[d].page
                            /\ handle'[d].frame = handle[d].frame
                            /\ d # c => handle'[d] = handle[d]
  BY Zenon, <1>a, <1>t DEF Handles
<1>n. \A d \in Clients : handle'[d] # NoHandle => handle[d] # NoHandle
  BY Zenon, <1>a, <1>h
<1>1. TypeOK'
  BY Zenon, <1>a, <1>t, <1>f, <1>h DEF SafeInv, TypeOK
<1>2. HandlesPoint'
  BY Zenon, <1>h, <1>n DEF SafeInv, HandlesPoint
<1>3. HeldPagesStay'
  <2>1. \A g \in Frames : Holders(g)' = Holders(g)
    BY Zenon, <1>h DEF Holders
  <2>2. \A g \in Frames : pin_count_'[g] = Cardinality(Holders(g)')
    BY Zenon, <2>1, <1>a DEF SafeInv, HeldPagesStay
  <2> QED BY <2>2, <1>a, <1>h, <1>n DEF SafeInv, HeldPagesStay
<1>4. TableMatchesFrames' /\ ListsInjective' /\ DirtyHasPage' /\ CachedAllocated'
  BY Zenon, <1>a DEF SafeInv, TableMatchesFrames, ListsInjective, DirtyHasPage,
              CachedAllocated, Allocated
<1> QED BY Zenon, <1>1, <1>2, <1>3, <1>4 DEF SafeInv

\* unpin_page: the last unpin makes the frame evictable, and by then nobody
\* points to it.
LEMMA UnpinPageSafe ==
  ASSUME SafeInv, NEW c \in Clients, NEW is_dirty \in BOOLEAN, UnpinPage(c, is_dirty)
  PROVE  SafeInv'
<1> DEFINE f == page_table_[handle[c].page]
<1>t. /\ page_table_ \in [PageIds -> Frames \cup {NoFrame}]
      /\ id_ \in [Frames -> PageIds \cup {NoPage}]
      /\ is_dirty_ \in [Frames -> BOOLEAN]
      /\ pin_count_ \in [Frames -> Nat]
      /\ LRUlist_ \in Seq(Frames) /\ IsInjective(LRUlist_)
      /\ handle \in [Clients -> Handles]
  BY Zenon DEF SafeInv, TypeOK, ListsInjective
<1>a. /\ handle[c] # NoHandle /\ f # NoFrame /\ pin_count_[f] > 0
      /\ pin_count_' = [pin_count_ EXCEPT ![f] = @ - 1]
      /\ LRUlist_' = IF pin_count_[f] = 1
                     THEN AfterUnpin(LRUlist_, f, PoolSize) ELSE LRUlist_
      /\ is_dirty_' = [is_dirty_ EXCEPT ![f] = @ \/ is_dirty]
      /\ handle' = [handle EXCEPT ![c] = NoHandle]
      /\ UNCHANGED <<page_table_, id_, data_, free_list_, disk, file_pages,
                     fd2pageno_>>
  BY Zenon DEF UnpinPage, disk_vars
<1>f. /\ handle[c].page \in PageIds /\ handle[c].frame = f /\ f \in Frames
      /\ id_[f] = handle[c].page /\ f \notin Range(LRUlist_)
      /\ f \notin Range(free_list_)
  BY Zenon, <1>a, <1>t DEF SafeInv, HandlesPoint, HeldPagesStay,
     TableMatchesFrames
<1>p. page_table_[id_[f]] = f
  BY Zenon, <1>f
<1> HIDE DEF f
<1>l. /\ LRUlist_' \in Seq(Frames) /\ IsInjective(LRUlist_')
      /\ Range(LRUlist_') \subseteq Range(LRUlist_) \cup {f}
      /\ pin_count_[f] # 1 => Range(LRUlist_') = Range(LRUlist_)
  <2>1. /\ PushFront(f, LRUlist_) \in Seq(Frames) /\ IsInjective(PushFront(f, LRUlist_))
        /\ Range(PushFront(f, LRUlist_)) = Range(LRUlist_) \cup {f}
    BY <1>t, <1>f, PushFrontProperties, SMTT(30)
  <2> QED BY Zenon, <2>1, <1>t, <1>a DEF AfterUnpin
<1>h. /\ handle' \in [Clients -> Handles] /\ handle'[c] = NoHandle
      /\ \A d \in Clients : d # c => handle'[d] = handle[d]
  BY Zenon, <1>a, <1>t, Constants
<1>1. TypeOK'
  <2>1. pin_count_' \in [Frames -> Nat] /\ is_dirty_' \in [Frames -> BOOLEAN]
    BY <1>a, <1>t, <1>f
  <2> QED BY Zenon, <2>1, <1>a, <1>l, <1>h DEF SafeInv, TypeOK
<1>2. HandlesPoint'
  BY Zenon, <1>h DEF SafeInv, HandlesPoint
<1>3. HeldPagesStay'
  <2>1. ASSUME NEW g \in Frames
        PROVE  /\ pin_count_[g] = Cardinality(Holders(g))
               /\ IsFiniteSet(Holders(g))
    BY Zenon, Unheld DEF SafeInv, HeldPagesStay
  <2>2. ASSUME NEW d \in Clients, handle'[d] # NoHandle
        PROVE  /\ page_table_'[handle'[d].page] = handle'[d].frame
               /\ handle'[d].frame \notin Range(free_list_') \cup Range(LRUlist_')
    <3>1. d # c /\ handle'[d] = handle[d] /\ handle[d] # NoHandle
      BY Zenon, <2>2, <1>h
    <3>2. /\ page_table_[handle[d].page] = handle[d].frame
          /\ handle[d].frame \notin Range(free_list_) \cup Range(LRUlist_)
      BY Zenon, <3>1 DEF SafeInv, HeldPagesStay
    <3>3. pin_count_[f] = 1 => handle[d].frame # f
      <4> SUFFICES ASSUME pin_count_[f] = 1, handle[d].frame = f PROVE FALSE
        BY Zenon
      <4>1. c \in Holders(f) /\ d \in Holders(f)
        BY Zenon, <1>f DEF Holders
      <4>2. \E x : Holders(f) = {x}
        BY Zenon, <2>1, <1>f, FS_Singleton
      <4> QED BY Zenon, <4>1, <4>2, <3>1
    <3> QED BY Zenon, <3>1, <3>2, <3>3, <1>a, <1>l
  <2>3. ASSUME NEW g \in Frames PROVE pin_count_'[g] = Cardinality(Holders(g)')
    <3>1. CASE g = f
      <4>1. Holders(g)' = Holders(g) \ {c} /\ c \in Holders(g)
        BY Zenon, <3>1, <1>h, <1>f, Constants DEF Holders
      <4>2. Cardinality(Holders(g) \ {c}) = Cardinality(Holders(g)) - 1
        BY Zenon, <4>1, <2>1, FS_RemoveElement
      <4> QED BY Zenon, <4>1, <4>2, <2>1, <3>1, <1>a, <1>t
    <3>2. CASE g # f
      <4>1. Holders(g)' = Holders(g)
        BY Zenon, <3>2, <1>h, <1>f, Constants DEF Holders
      <4> QED BY Zenon, <4>1, <2>1, <3>2, <1>a, <1>t
    <3> QED BY Zenon, <3>1, <3>2
  <2> QED BY Zenon, <2>2, <2>3 DEF HeldPagesStay
<1>4. TableMatchesFrames'
  BY Zenon, <1>a, <1>l, <1>p DEF SafeInv, TableMatchesFrames
<1>5. ListsInjective'
  BY Zenon, <1>a, <1>l DEF SafeInv, ListsInjective
<1>6. DirtyHasPage'
  <2>1. id_[f] # NoPage
    BY Zenon, <1>f, Constants
  <2> QED BY Zenon, <2>1, <1>a, <1>t, <1>f DEF SafeInv, DirtyHasPage
<1>7. CachedAllocated'
  BY Zenon, <1>a DEF SafeInv, CachedAllocated, Allocated
<1> QED BY Zenon, <1>1, <1>2, <1>3, <1>4, <1>5, <1>6, <1>7 DEF SafeInv

\* fetch_page or new_page throws after find_victim_page: the frame has left its
\* list, and page_table_ may have lost the frame's own page.
LEMMA VictimLostSafe ==
  ASSUME SafeInv, HasVictim,
         page_table_' = page_table_ \/ page_table_' = TableWithout(Victim),
         free_list_' = FreeAfter, LRUlist_' = LRUAfter,
         is_dirty_' \in [Frames -> BOOLEAN],
         \A f \in Frames : is_dirty_'[f] => is_dirty_[f],
         disk' \in [PageIds -> Values], file_pages' \in [Fds -> 0..MaxPages],
         UNCHANGED <<id_, data_, pin_count_, fd2pageno_, handle>>
  PROVE  SafeInv'
<1> DEFINE f == Victim
<1>v. /\ f \in Frames
      /\ FreeAfter \in Seq(Frames) /\ IsInjective(FreeAfter)
      /\ Range(FreeAfter) \subseteq Range(free_list_)
      /\ LRUAfter \in Seq(Frames) /\ IsInjective(LRUAfter)
      /\ Range(LRUAfter) \subseteq Range(LRUlist_)
      /\ id_[f] # NoPage => page_table_[id_[f]] = f /\ f \notin Range(LRUAfter)
      /\ \A d \in Clients : handle[d].frame # f
  BY Zenon, VictimFacts
<1>p. /\ page_table_' \in [PageIds -> Frames \cup {NoFrame}]
      /\ \A q \in PageIds : page_table_'[q] = page_table_[q] \/ page_table_'[q] = NoFrame
      /\ \A q \in PageIds : q # id_[f] => page_table_'[q] = page_table_[q]
  BY Zenon DEF SafeInv, TypeOK, TableWithout
<1> HIDE DEF f
<1>1. TypeOK'
  BY Zenon, <1>v, <1>p DEF SafeInv, TypeOK
<1>2. HandlesPoint'
  BY Zenon DEF SafeInv, HandlesPoint
<1>3. HeldPagesStay'
  <2>1. ASSUME NEW d \in Clients, handle'[d] # NoHandle
        PROVE  /\ page_table_'[handle'[d].page] = handle'[d].frame
               /\ handle'[d].frame \notin Range(free_list_') \cup Range(LRUlist_')
    <3>1. /\ handle'[d] = handle[d] /\ handle[d].page \in PageIds
          /\ handle[d].frame \in Frames
          /\ page_table_[handle[d].page] = handle[d].frame
          /\ handle[d].frame \notin Range(free_list_) \cup Range(LRUlist_)
      BY Zenon, <2>1 DEF SafeInv, HandlesPoint, HeldPagesStay
    <3>2. handle[d].page # id_[f]
      BY Zenon, <3>1, <1>v, Constants
    <3> QED BY Zenon, <3>1, <3>2, <1>p, <1>v
  <2>2. \A g \in Frames : pin_count_'[g] = Cardinality(Holders(g)')
    BY Zenon DEF SafeInv, HeldPagesStay, Holders
  <2> QED BY Zenon, <2>1, <2>2 DEF HeldPagesStay
<1>4. TableMatchesFrames'
  <2>1. \A q \in PageIds : page_table_'[q] # NoFrame => id_'[page_table_'[q]] = q
    BY Zenon, <1>p DEF SafeInv, TableMatchesFrames
  <2>2. \A g \in Range(free_list_') : id_'[g] = NoPage
    BY Zenon, <1>v DEF SafeInv, TableMatchesFrames
  <2>3. ASSUME NEW g \in Range(LRUlist_'), id_'[g] # NoPage
        PROVE  page_table_'[id_'[g]] = g
    <3>1. g \in Range(LRUlist_) /\ g \in Range(LRUAfter) /\ g \in Frames
      BY Zenon, <1>v, SeqValues
    <3>2. id_'[g] = id_[g] /\ id_[g] \in PageIds /\ page_table_[id_[g]] = g
      BY Zenon, <3>1, <2>3 DEF SafeInv, TypeOK, TableMatchesFrames
    <3>3. id_[g] # id_[f]
      BY Zenon, <3>1, <3>2, <1>v, Constants
    <3> QED BY Zenon, <3>2, <3>3, <1>p
  <2> QED BY Zenon, <2>1, <2>2, <2>3 DEF TableMatchesFrames
<1>5. ListsInjective' /\ DirtyHasPage'
  BY Zenon, <1>v DEF SafeInv, ListsInjective, DirtyHasPage
<1>6. CachedAllocated'
  BY Zenon, <1>p DEF SafeInv, CachedAllocated, Allocated
<1> QED BY Zenon, <1>1, <1>2, <1>3, <1>4, <1>5, <1>6 DEF SafeInv

\* A torn write leaves some contents in the page.
LEMMA FailedWriteType ==
  ASSUME SafeInv, NEW f \in Frames, NEW p \in PageIds, FailedWrite(f, p)
  PROVE  disk' \in [PageIds -> Values] /\ file_pages' \in [Fds -> 0..MaxPages]
<1>1. /\ disk \in [PageIds -> Values] /\ data_[f] \in Values
      /\ file_pages \in [Fds -> 0..MaxPages]
  BY Zenon DEF SafeInv, TypeOK
<1>2. \A d \in Values : TornPages(f, d) \subseteq Values
  BY Zenon DEF TornPages
<1> QED BY Zenon, <1>1, <1>2 DEF FailedWrite

LEMMA FetchReadErrorSafe ==
  ASSUME SafeInv, NEW c \in Clients, NEW p \in PageIds, FetchReadError(c, p)
  PROVE  SafeInv'
<1>1. /\ HasVictim /\ page_table_' = TableWithout(Victim)
      /\ free_list_' = FreeAfter /\ LRUlist_' = LRUAfter
      /\ disk' = DiskAfter(Victim) /\ file_pages' = FilesAfter(Victim)
      /\ is_dirty_' = [is_dirty_ EXCEPT ![Victim] = FALSE]
      /\ UNCHANGED <<id_, data_, pin_count_, fd2pageno_, handle>>
  BY Zenon DEF FetchReadError
<1>2. Victim \in Frames
  BY Zenon, <1>1, VictimFacts
<1>3. /\ DiskAfter(Victim) \in [PageIds -> Values]
      /\ FilesAfter(Victim) \in [Fds -> 0..MaxPages]
  BY Zenon, <1>2, WriteBackType
<1>4. /\ is_dirty_' \in [Frames -> BOOLEAN]
      /\ \A f \in Frames : is_dirty_'[f] => is_dirty_[f]
  BY Zenon, <1>1 DEF SafeInv, TypeOK
<1> QED BY Zenon, <1>1, <1>3, <1>4, VictimLostSafe

LEMMA VictimWriteErrorSafe ==
  ASSUME SafeInv, HasVictim, VictimWriteError
  PROVE  SafeInv'
<1>1. /\ is_dirty_[Victim] /\ FailedWrite(Victim, id_[Victim])
      /\ free_list_' = FreeAfter /\ LRUlist_' = LRUAfter
      /\ UNCHANGED <<page_table_, id_, data_, is_dirty_, pin_count_, fd2pageno_, handle>>
  BY Zenon DEF VictimWriteError, page_vars
<1>2. Victim \in Frames
  BY Zenon, VictimFacts
<1>3. id_[Victim] \in PageIds
  BY Zenon, <1>1, <1>2 DEF SafeInv, TypeOK, DirtyHasPage
<1>4. disk' \in [PageIds -> Values] /\ file_pages' \in [Fds -> 0..MaxPages]
  BY Zenon, <1>1, <1>2, <1>3, FailedWriteType
<1>5. /\ is_dirty_' \in [Frames -> BOOLEAN]
      /\ \A f \in Frames : is_dirty_'[f] => is_dirty_[f]
  BY Zenon, <1>1 DEF SafeInv, TypeOK
<1> QED BY Zenon, <1>1, <1>4, <1>5, VictimLostSafe

\* The flush operations only write to disk and clear dirty bits.
LEMMA DiskOnlySafe ==
  ASSUME SafeInv,
         disk' \in [PageIds -> Values], file_pages' \in [Fds -> 0..MaxPages],
         is_dirty_' \in [Frames -> BOOLEAN],
         \A f \in Frames : is_dirty_'[f] => is_dirty_[f],
         UNCHANGED <<page_table_, id_, data_, pin_count_, free_list_, LRUlist_,
                     fd2pageno_, handle>>
  PROVE  SafeInv'
<1>1. TypeOK'
  BY Zenon DEF SafeInv, TypeOK
<1>2. HandlesPoint' /\ ListsInjective' /\ DirtyHasPage' /\ TableMatchesFrames'
  BY Zenon DEF SafeInv, HandlesPoint, ListsInjective, DirtyHasPage,
     TableMatchesFrames
<1>3. HeldPagesStay'
  BY Zenon DEF SafeInv, HeldPagesStay, Holders
<1>4. CachedAllocated'
  BY Zenon DEF SafeInv, CachedAllocated, Allocated
<1> QED BY Zenon, <1>1, <1>2, <1>3, <1>4 DEF SafeInv

LEMMA FlushPageSafe ==
  ASSUME SafeInv, NEW p \in PageIds, FlushPage(p) \/ FlushWriteError(p)
  PROVE  SafeInv'
<1> DEFINE f == page_table_[p]
<1>t. /\ page_table_ \in [PageIds -> Frames \cup {NoFrame}]
      /\ data_ \in [Frames -> Values] /\ is_dirty_ \in [Frames -> BOOLEAN]
      /\ disk \in [PageIds -> Values] /\ file_pages \in [Fds -> 0..MaxPages]
  BY Zenon DEF SafeInv, TypeOK
<1>1. CASE FlushPage(p)
  <2>1. /\ f \in Frames
        /\ disk' = [disk EXCEPT ![p] = data_[f]]
        /\ file_pages' = [file_pages EXCEPT ![p.fd] = Longer(@, p)]
        /\ is_dirty_' = [is_dirty_ EXCEPT ![f] = FALSE]
        /\ UNCHANGED <<page_table_, id_, data_, pin_count_, free_list_, LRUlist_,
                       fd2pageno_, handle>>
    BY Zenon, <1>1, <1>t DEF FlushPage
  <2> HIDE DEF f
  <2>2. Longer(file_pages[p.fd], p) \in 0..MaxPages
    BY <1>t, Constants, SMTT(30) DEF Longer
  <2>3. disk' \in [PageIds -> Values] /\ file_pages' \in [Fds -> 0..MaxPages]
    BY Zenon, <2>1, <2>2, <1>t, Constants
  <2>4. /\ is_dirty_' \in [Frames -> BOOLEAN]
        /\ \A g \in Frames : is_dirty_'[g] => is_dirty_[g]
    BY Zenon, <2>1, <1>t
  <2> QED BY Zenon, <2>1, <2>3, <2>4, DiskOnlySafe
<1>2. CASE FlushWriteError(p)
  <2>1. /\ f \in Frames /\ FailedWrite(f, p)
        /\ UNCHANGED <<page_table_, id_, data_, is_dirty_, pin_count_, free_list_,
                       LRUlist_, fd2pageno_, handle>>
    BY Zenon, <1>2, <1>t DEF FlushWriteError, page_vars
  <2> HIDE DEF f
  <2>2. disk' \in [PageIds -> Values] /\ file_pages' \in [Fds -> 0..MaxPages]
    BY Zenon, <2>1, FailedWriteType
  <2> QED BY Zenon, <2>1, <2>2, <1>t, DiskOnlySafe
<1> QED BY Zenon, <1>1, <1>2

\* What flush_all_pages puts on disk comes from a frame or was there before.
LEMMA FlushedPageType ==
  ASSUME SafeInv, NEW fd \in Fds, NEW k \in Nat, NEW p \in PageIds
  PROVE  FlushedPage(fd, k, p) \in Values
<1> DEFINE S == {f \in FramesOf(fd, k) : id_[f] = p}
<1>1. S \subseteq Frames /\ S \subseteq 0..PoolSize
  BY Constants DEF FramesOf
<1>2. S # {} => Max(S) \in S
  <2> HIDE DEF S
  <2> QED BY Zenon, <1>1, MaxOfBounded, Constants
<1>3. /\ \A f \in Frames : data_[f] \in Values
      /\ disk[p] \in Values
  BY Zenon DEF SafeInv, TypeOK
<1>4. FlushedPage(fd, k, p) = IF S = {} THEN disk[p] ELSE data_[Max(S)]
  BY Zenon DEF FlushedPage
<1> HIDE DEF S
<1> QED BY Zenon, <1>1, <1>2, <1>3, <1>4

LEMMA FlushAllSafe ==
  ASSUME SafeInv, NEW fd \in Fds, NEW k \in Nat, FlushedFrames(fd, k),
         disk' \in [PageIds -> Values]
  PROVE  SafeInv'
<1> DEFINE S == {id_[f].page_no + 1 : f \in FramesOf(fd, k)} \cup {file_pages[fd]}
<1>1. /\ file_pages' = [file_pages EXCEPT ![fd] = Max(S)]
      /\ is_dirty_' = [f \in Frames |-> is_dirty_[f] /\ f \notin FramesOf(fd, k)]
      /\ UNCHANGED <<page_table_, id_, data_, pin_count_, free_list_, LRUlist_,
                     fd2pageno_, handle>>
  BY Zenon DEF FlushedFrames
<1>2. S \subseteq 0..MaxPages /\ S # {}
  <2>1. file_pages[fd] \in 0..MaxPages
    BY Zenon DEF SafeInv, TypeOK
  <2>2. ASSUME NEW f \in FramesOf(fd, k) PROVE id_[f].page_no + 1 \in 0..MaxPages
    <3>1. id_[f] \in PageIds
      BY Zenon DEF FramesOf, SafeInv, TypeOK
    <3>2. id_[f].page_no \in 0..(MaxPages - 1) /\ MaxPages \in Nat
      BY Zenon, <3>1, Constants
    <3> QED BY <3>2
  <2> QED BY Zenon, <2>1, <2>2
<1> HIDE DEF S
<1>3. Max(S) \in 0..MaxPages
  BY Zenon, <1>2, MaxOfBounded, Constants
<1>4. file_pages' \in [Fds -> 0..MaxPages]
  BY Zenon, <1>1, <1>3 DEF SafeInv, TypeOK
<1>5. /\ is_dirty_' \in [Frames -> BOOLEAN]
      /\ \A f \in Frames : is_dirty_'[f] => is_dirty_[f]
  BY Zenon, <1>1 DEF SafeInv, TypeOK
<1> QED BY Zenon, <1>1, <1>4, <1>5, DiskOnlySafe

\* delete_page: the frame joins the free list; it was not there before, because
\* free frames carry no page.
LEMMA DeletePageSafe ==
  ASSUME SafeInv, NEW p \in PageIds, DeletePage(p)
  PROVE  SafeInv'
<1> DEFINE f == page_table_[p]
<1>t. /\ page_table_ \in [PageIds -> Frames \cup {NoFrame}]
      /\ id_ \in [Frames -> PageIds \cup {NoPage}]
      /\ data_ \in [Frames -> Values] /\ is_dirty_ \in [Frames -> BOOLEAN]
      /\ free_list_ \in Seq(Frames) /\ LRUlist_ \in Seq(Frames)
      /\ IsInjective(free_list_)
  BY Zenon DEF SafeInv, TypeOK, ListsInjective
<1>a. /\ f # NoFrame /\ pin_count_[f] = 0
      /\ disk' = DiskAfter(f) /\ file_pages' = FilesAfter(f)
      /\ page_table_' = [page_table_ EXCEPT ![p] = NoFrame]
      /\ id_' = [id_ EXCEPT ![f] = NoPage]
      /\ data_' = [data_ EXCEPT ![f] = Zero]
      /\ is_dirty_' = [is_dirty_ EXCEPT ![f] = FALSE]
      /\ free_list_' = Append(free_list_, f)
      /\ UNCHANGED <<pin_count_, LRUlist_, fd2pageno_, handle>>
  BY Zenon DEF DeletePage
<1>f. f \in Frames /\ id_[f] = p
  BY Zenon, <1>t, <1>a DEF SafeInv, TableMatchesFrames
<1> HIDE DEF f
<1>u. \A c \in Clients : handle[c].frame # f
  BY Zenon, <1>a, <1>f, Unheld
<1>l. /\ free_list_' \in Seq(Frames) /\ IsInjective(free_list_')
      /\ Range(free_list_') = Range(free_list_) \cup {f}
  <2>1. f \notin Range(free_list_)
    BY Zenon, <1>f, Constants DEF SafeInv, TableMatchesFrames
  <2>2. /\ free_list_' = Append(free_list_, f) /\ f \in Frames
        /\ free_list_ \in Seq(Frames) /\ IsInjective(free_list_)
    BY Zenon, <1>a, <1>f, <1>t
  <2>3. /\ Append(free_list_, f) \in Seq(Frames) /\ IsInjective(Append(free_list_, f))
        /\ Range(Append(free_list_, f)) = Range(free_list_) \cup {f}
    BY <2>1, <2>2, AppendNewProperties
  <2> QED BY Zenon, <2>2, <2>3
<1>1. TypeOK'
  <2>1. DiskAfter(f) \in [PageIds -> Values] /\ FilesAfter(f) \in [Fds -> 0..MaxPages]
    BY Zenon, <1>f, WriteBackType
  <2>2. /\ page_table_' \in [PageIds -> Frames \cup {NoFrame}]
        /\ id_' \in [Frames -> PageIds \cup {NoPage}]
        /\ data_' \in [Frames -> Values] /\ is_dirty_' \in [Frames -> BOOLEAN]
    BY Zenon, <1>a, <1>t, Constants
  <2> QED BY Zenon, <2>1, <2>2, <1>a, <1>l DEF SafeInv, TypeOK
<1>2. HandlesPoint'
  BY Zenon, <1>a DEF SafeInv, HandlesPoint
<1>3. HeldPagesStay'
  <2>1. ASSUME NEW d \in Clients, handle'[d] # NoHandle
        PROVE  /\ page_table_'[handle'[d].page] = handle'[d].frame
               /\ handle'[d].frame \notin Range(free_list_') \cup Range(LRUlist_')
    <3>1. /\ handle'[d] = handle[d] /\ handle[d].page \in PageIds
          /\ page_table_[handle[d].page] = handle[d].frame
          /\ handle[d].frame \notin Range(free_list_) \cup Range(LRUlist_)
      BY Zenon, <2>1, <1>a DEF SafeInv, HandlesPoint, HeldPagesStay
    <3>2. handle[d].page # p /\ handle[d].frame # f
      BY Zenon, <3>1, <1>u DEF f
    <3> QED BY Zenon, <3>1, <3>2, <1>a, <1>l, <1>t
  <2>2. \A g \in Frames : pin_count_'[g] = Cardinality(Holders(g)')
    BY Zenon, <1>a DEF SafeInv, HeldPagesStay, Holders
  <2> QED BY Zenon, <2>1, <2>2 DEF HeldPagesStay
<1>4. TableMatchesFrames'
  <2>1. ASSUME NEW q \in PageIds, page_table_'[q] # NoFrame
        PROVE  id_'[page_table_'[q]] = q
    <3>1. q # p /\ page_table_'[q] = page_table_[q] /\ page_table_[q] # NoFrame
      BY Zenon, <2>1, <1>a, <1>t
    <3>2. id_[page_table_[q]] = q /\ page_table_[q] \in Frames
      BY Zenon, <3>1, <1>t DEF SafeInv, TableMatchesFrames
    <3> QED BY Zenon, <3>1, <3>2, <1>a, <1>f, <1>t
  <2>2. ASSUME NEW g \in Range(free_list_') PROVE id_'[g] = NoPage
    <3>1. g \in Frames /\ (g = f \/ id_[g] = NoPage)
      BY Zenon, <1>l, <1>f, <1>t, SeqValues DEF SafeInv, TableMatchesFrames
    <3> QED BY Zenon, <3>1, <1>a, <1>t
  <2>3. ASSUME NEW g \in Range(LRUlist_'), id_'[g] # NoPage
        PROVE  page_table_'[id_'[g]] = g
    <3>1. g \in Frames /\ g \in Range(LRUlist_)
      BY Zenon, <1>a, <1>t, SeqValues
    <3>2. g # f /\ id_'[g] = id_[g] /\ id_[g] \in PageIds
      BY Zenon, <3>1, <2>3, <1>a, <1>t
    <3>3. page_table_[id_[g]] = g
      BY Zenon, <3>1, <3>2, <2>3 DEF SafeInv, TableMatchesFrames
    <3>4. id_[g] # p
      BY Zenon, <3>2, <3>3 DEF f
    <3> QED BY Zenon, <3>2, <3>3, <3>4, <1>a, <1>t
  <2> QED BY Zenon, <2>1, <2>2, <2>3 DEF TableMatchesFrames
<1>5. ListsInjective'
  BY Zenon, <1>a, <1>l DEF SafeInv, ListsInjective
<1>6. DirtyHasPage'
  BY Zenon, <1>a, <1>t, <1>f DEF SafeInv, DirtyHasPage
<1>7. CachedAllocated'
  BY Zenon, <1>a, <1>t DEF SafeInv, CachedAllocated, Allocated
<1> QED BY Zenon, <1>1, <1>2, <1>3, <1>4, <1>5, <1>6, <1>7 DEF SafeInv

-----------------------------------------------------------------------------
LEMMA InitSafe == Init => SafeInv
<1> SUFFICES ASSUME Init PROVE SafeInv
  BY Zenon
<1> DEFINE l == [i \in 1..PoolSize |-> i - 1]
<1>1. l \in Seq(Frames) /\ Len(l) = PoolSize /\ \A i \in 1..PoolSize : l[i] = i - 1
  BY Constants
<1>2. IsInjective(l)
  <2> SUFFICES ASSUME NEW a \in 1..PoolSize, NEW b \in 1..PoolSize, l[a] = l[b]
               PROVE  a = b
    BY Zenon, <1>1 DEF IsInjective
  <2>1. l[a] = a - 1 /\ l[b] = b - 1
    BY Zenon, <1>1
  <2>2. a \in Int /\ b \in Int
    BY Constants
  <2>3. a - 1 = b - 1
    BY Zenon, <2>1
  <2> HIDE DEF l
  <2> QED BY <2>2, <2>3
<1>3. free_list_ = l
  BY Zenon DEF Init
<1> HIDE DEF l
<1>4. <<>> \in Seq(Frames) /\ IsInjective(<<>>) /\ Range(<<>>) = {}
  BY DEF IsInjective, Range
<1>5. TypeOK
  BY <1>1, <1>3, <1>4, Constants, SMTT(30) DEF Init, TypeOK
<1>6. HandlesPoint /\ ListsInjective /\ DirtyHasPage /\ CachedAllocated
  BY Zenon, <1>2, <1>3, <1>4 DEF Init, HandlesPoint, ListsInjective,
     DirtyHasPage,
                          CachedAllocated
<1>7. HeldPagesStay
  <2>1. \A f \in Frames : Holders(f) = {}
    BY Zenon, Constants DEF Init, Holders
  <2>2. \A f \in Frames : pin_count_[f] = Cardinality(Holders(f))
    BY Zenon, <2>1, FS_EmptySet DEF Init
  <2> QED BY Zenon, <2>2 DEF Init, HeldPagesStay
<1>8. TableMatchesFrames
  <2>1. \A f \in Range(free_list_) : id_[f] = NoPage
    BY Zenon, <1>1, <1>3, SeqValues DEF Init
  <2> QED BY Zenon, <2>1, <1>4 DEF Init, TableMatchesFrames
<1> QED BY Zenon, <1>5, <1>6, <1>7, <1>8 DEF SafeInv

LEMMA NextSafe == SafeInv /\ [Next]_vars => SafeInv'
<1> SUFFICES ASSUME SafeInv, [Next]_vars PROVE SafeInv'
  BY Zenon
<1>1. ASSUME NEW c \in Clients, NEW p \in PageIds,
             \/ FetchHit(c, p) \/ FetchMiss(c, p)
             \/ FetchReadError(c, p) \/ FetchWriteError(c, p)
      PROVE  SafeInv'
  <2>1. FetchWriteError(c, p) => HasVictim /\ VictimWriteError
    BY Zenon DEF FetchWriteError
  <2> QED BY Zenon, <1>1, <2>1, FetchHitSafe, FetchMissSafe, FetchReadErrorSafe,
             VictimWriteErrorSafe
<1>2. ASSUME NEW c \in Clients, NEW fd \in Fds,
             NewPage(c, fd) \/ NewPageWriteError(c, fd)
      PROVE  SafeInv'
  <2>1. NewPageWriteError(c, fd) => HasVictim /\ VictimWriteError
    BY Zenon DEF NewPageWriteError
  <2> QED BY Zenon, <1>2, <2>1, NewPageSafe, VictimWriteErrorSafe
<1>3. ASSUME NEW c \in Clients, NEW v \in Values, ClientWrite(c, v)
      PROVE  SafeInv'
  BY Zenon, <1>3, ClientWriteSafe
<1>4. ASSUME NEW c \in Clients, NEW is_dirty \in BOOLEAN, UnpinPage(c, is_dirty)
      PROVE  SafeInv'
  BY Zenon, <1>4, UnpinPageSafe
<1>5. ASSUME NEW p \in PageIds, FlushPage(p) \/ FlushWriteError(p) \/ DeletePage(p)
      PROVE  SafeInv'
  BY Zenon, <1>5, FlushPageSafe, DeletePageSafe
<1>6. ASSUME NEW fd \in Fds, FlushAllPages(fd) PROVE SafeInv'
  <2>1. \A p \in PageIds : FlushedPage(fd, PoolSize, p) \in Values
    BY Zenon, FlushedPageType, Constants
  <2>2. disk' \in [PageIds -> Values] /\ FlushedFrames(fd, PoolSize)
    BY Zenon, <1>6, <2>1 DEF FlushAllPages
  <2> QED BY Zenon, <2>2, FlushAllSafe, Constants
<1>7. ASSUME NEW fd \in Fds, NEW k \in Frames, FlushAllWriteError(fd, k)
      PROVE  SafeInv'
  <2>1. k \in Nat /\ id_[k] \in PageIds /\ data_[k] \in Values
    BY Zenon, <1>7, Constants DEF FlushAllWriteError, FramesOf, SafeInv, TypeOK
  <2>2. \A p \in PageIds : FlushedPage(fd, k, p) \in Values
    BY Zenon, <2>1, FlushedPageType
  <2>3. TornPages(k, FlushedPage(fd, k, id_[k])) \subseteq Values
    BY Zenon, <2>1, <2>2 DEF TornPages
  <2>4. disk' \in [PageIds -> Values] /\ FlushedFrames(fd, k)
    BY Zenon, <1>7, <2>2, <2>3 DEF FlushAllWriteError
  <2> QED BY Zenon, <2>1, <2>4, FlushAllSafe
<1>8. CASE UNCHANGED vars
  <2>1. /\ UNCHANGED <<page_table_, id_, data_, pin_count_, free_list_, LRUlist_,
                       fd2pageno_, handle>>
        /\ disk' = disk /\ file_pages' = file_pages /\ is_dirty_' = is_dirty_
    BY Zenon, <1>8 DEF vars, page_vars, disk_vars
  <2> QED BY Zenon, <2>1, DiskOnlySafe DEF SafeInv, TypeOK
<1> QED BY Zenon, <1>1, <1>2, <1>3, <1>4, <1>5, <1>6, <1>7, <1>8 DEF Next

\* Every variable of the buffer pool keeps its type, error paths included: no
\* write-back ever uses the address of a frame that carries no page.
THEOREM PoolTypeCorrect == Spec => []TypeOK
<1>1. SafeInv => TypeOK
  BY Zenon DEF SafeInv
<1> QED BY InitSafe, NextSafe, <1>1, PTL DEF Spec

\* A Page* handed out by fetch_page or new_page stays valid until its holder
\* unpins it: the page is cached in that frame, the frame is pinned once per
\* holder, and find_victim_page cannot return it.
THEOREM HeldPagesNeverMove == Spec => []HeldPagesStay
<1>1. SafeInv => HeldPagesStay
  BY Zenon DEF SafeInv
<1> QED BY InitSafe, NextSafe, <1>1, PTL DEF Spec

\* page_table_ and the frames agree, and erasing a victim's id_ from the table
\* never removes the entry of another frame.
THEOREM TableAlwaysMatches == Spec => []TableMatchesFrames
<1>1. SafeInv => TableMatchesFrames
  BY Zenon DEF SafeInv
<1> QED BY InitSafe, NextSafe, <1>1, PTL DEF Spec

-----------------------------------------------------------------------------
(* The calls by which clients get, write and release a page are the steps  *)
(* of a page store.  The pool forgets a page's contents whenever it evicts *)
(* a clean frame, so what has to be invariant is that a clean frame has    *)
(* nothing to lose.                                                        *)

\* Nothing has been written to frame f that its page on disk does not have:
\* the dirty bit is clear and no holder owes a dirty unpin.
Clean(f) ==
    /\ ~is_dirty_[f]
    /\ \A c \in Clients : handle[c].frame = f => ~handle[c].dirty

\* No frame carries the id of a page that is cached elsewhere or not at all.
FramesMapped ==
    \A f \in Frames : id_[f] # NoPage => page_table_[id_[f]] = f

CleanMatchesDisk ==
    \A f \in Frames : id_[f] # NoPage /\ Clean(f) =>
        /\ data_[f] = disk[id_[f]]
        /\ id_[f].page_no < file_pages[id_[f].fd]

CoherentInv ==
    /\ SafeInv
    /\ FramesMapped
    /\ UncachedIsOnDisk
    /\ CleanMatchesDisk

-----------------------------------------------------------------------------
LEMMA CoherentTypes ==
  ASSUME CoherentInv
  PROVE  /\ page_table_ \in [PageIds -> Frames \cup {NoFrame}]
         /\ id_ \in [Frames -> PageIds \cup {NoPage}]
         /\ data_ \in [Frames -> Values]
         /\ is_dirty_ \in [Frames -> BOOLEAN]
         /\ disk \in [PageIds -> Values]
         /\ file_pages \in [Fds -> 0..MaxPages]
         /\ fd2pageno_ \in [Fds -> 0..MaxPages]
         /\ handle \in [Clients -> Handles]
         /\ \A p \in PageIds : page_table_[p] # NoFrame =>
               page_table_[p] \in Frames /\ id_[page_table_[p]] = p
         /\ \A f \in Frames : id_[f] # NoPage =>
               id_[f] \in PageIds /\ page_table_[id_[f]] = f
BY DEF CoherentInv, SafeInv, TypeOK, TableMatchesFrames, FramesMapped

\* Writing back a frame nobody holds puts its contents on disk, dirty or not.
LEMMA WriteBackFacts ==
  ASSUME CoherentInv, NEW f \in Frames, \A c \in Clients : handle[c].frame # f
  PROVE  /\ \A q \in PageIds :
              DiskAfter(f)[q] = IF q = id_[f] THEN data_[f] ELSE disk[q]
         /\ \A fd \in Fds : FilesAfter(f)[fd] >= file_pages[fd]
         /\ id_[f] # NoPage => id_[f].page_no < FilesAfter(f)[id_[f].fd]
         /\ FilesAfter(f) \in [Fds -> 0..MaxPages]
<1>t. /\ id_[f] \in PageIds \cup {NoPage} /\ disk \in [PageIds -> Values]
      /\ file_pages \in [Fds -> 0..MaxPages]
  BY Zenon, CoherentTypes
<1>w. FilesAfter(f) \in [Fds -> 0..MaxPages]
  BY Zenon, WriteBackType DEF CoherentInv
<1>1. CASE is_dirty_[f]
  <2>1. id_[f] \in PageIds
    BY Zenon, <1>1, <1>t DEF CoherentInv, SafeInv, DirtyHasPage
  <2>2. id_[f].fd \in Fds /\ id_[f].page_no \in 0..(MaxPages - 1) /\ MaxPages \in Nat
    BY Zenon, <2>1, Constants
  <2>3. DiskAfter(f) = [disk EXCEPT ![id_[f]] = data_[f]]
    BY Zenon, <1>1 DEF DiskAfter
  <2>4. FilesAfter(f) =
          [file_pages EXCEPT ![id_[f].fd] = Longer(file_pages[id_[f].fd], id_[f])]
    BY Zenon, <1>1, <1>t, <2>2 DEF FilesAfter
  <2>5. /\ Longer(file_pages[id_[f].fd], id_[f]) >= file_pages[id_[f].fd]
        /\ Longer(file_pages[id_[f].fd], id_[f]) > id_[f].page_no
    BY <1>t, <2>2 DEF Longer
  <2> QED BY <1>t, <1>w, <2>1, <2>2, <2>3, <2>4, <2>5
<1>2. CASE ~is_dirty_[f]
  <2>1. DiskAfter(f) = disk /\ FilesAfter(f) = file_pages
    BY Zenon, <1>2 DEF DiskAfter, FilesAfter
  <2>2. Clean(f)
    BY Zenon, <1>2 DEF Clean
  <2>3. id_[f] # NoPage => /\ data_[f] = disk[id_[f]]
                           /\ id_[f].page_no < file_pages[id_[f].fd]
    BY Zenon, <2>2 DEF CoherentInv, CleanMatchesDisk
  <2>4. \A q \in PageIds : q = id_[f] => id_[f] # NoPage
    BY Zenon, Constants
  <2> QED BY <1>t, <1>w, <2>1, <2>3, <2>4
<1> QED BY Zenon, <1>1, <1>2

\* A page enters the victim's frame.  The victim's own page is on disk, and all
\* other pages keep their contents.
LEMMA InstallCoherent ==
  ASSUME CoherentInv, SafeInv', HasVictim,
         NEW c \in Clients, NEW p \in PageIds, NEW v \in Values, NEW owes \in BOOLEAN,
         handle[c] = NoHandle, page_table_[p] = NoFrame,
         disk' = DiskAfter(Victim), file_pages' = FilesAfter(Victim),
         Install(c, Victim, p, v, owes),
         ~owes => v = disk[p] /\ p.page_no < FilesAfter(Victim)[p.fd],
         \A q \in PageIds : q # p => (Allocated(q)' => Allocated(q))
  PROVE  /\ CoherentInv'
         /\ CurrentPage' = [CurrentPage EXCEPT ![p] = v]
<1> DEFINE f == Victim
<1>t. /\ page_table_ \in [PageIds -> Frames \cup {NoFrame}]
      /\ id_ \in [Frames -> PageIds \cup {NoPage}]
      /\ data_ \in [Frames -> Values]
      /\ is_dirty_ \in [Frames -> BOOLEAN]
      /\ file_pages \in [Fds -> 0..MaxPages]
      /\ \A q \in PageIds : page_table_[q] # NoFrame =>
            page_table_[q] \in Frames /\ id_[page_table_[q]] = q
      /\ \A g \in Frames : id_[g] # NoPage =>
            id_[g] \in PageIds /\ page_table_[id_[g]] = g
  BY Zenon, CoherentTypes
<1>v. f \in Frames /\ \A d \in Clients : handle[d].frame # f
  BY Zenon, VictimFacts DEF CoherentInv
<1>w. /\ \A q \in PageIds : disk'[q] = IF q = id_[f] THEN data_[f] ELSE disk[q]
      /\ \A fd \in Fds : file_pages'[fd] >= file_pages[fd]
      /\ id_[f] # NoPage => id_[f].page_no < file_pages'[id_[f].fd]
      /\ file_pages' \in [Fds -> 0..MaxPages]
  BY Zenon, <1>v, WriteBackFacts
<1>i. /\ page_table_' = [TableWithout(f) EXCEPT ![p] = f]
      /\ id_' = [id_ EXCEPT ![f] = p]
      /\ data_' = [data_ EXCEPT ![f] = v]
      /\ is_dirty_' = [is_dirty_ EXCEPT ![f] = FALSE]
      /\ handle' = [handle EXCEPT ![c] = [page |-> p, frame |-> f, dirty |-> owes]]
      /\ ~owes => v = disk[p] /\ p.page_no < file_pages'[p.fd]
  BY Zenon DEF Install
<1> HIDE DEF f
<1>p. \A q \in PageIds : page_table_'[q] =
         IF q = p THEN f ELSE IF q = id_[f] THEN NoFrame ELSE page_table_[q]
  BY Zenon, <1>i DEF TableWithout
<1>n. p # id_[f]
  BY <1>t, <1>v, Constants
<1>h. /\ handle'[c].frame = f /\ handle'[c].dirty = owes
      /\ \A d \in Clients : d # c => handle'[d] = handle[d]
  <2>1. handle \in [Clients -> Handles]
    BY Zenon, CoherentTypes
  <2> QED BY Zenon, <1>i, <2>1
<1>g. ASSUME NEW g \in Frames, g # f, id_[g] # NoPage
      PROVE  id_[g] \in PageIds /\ id_[g] # p /\ id_[g] # id_[f]
  BY <1>g, <1>t, <1>v, Constants
<1>1. FramesMapped'
  <2> SUFFICES ASSUME NEW g \in Frames, id_'[g] # NoPage
               PROVE  page_table_'[id_'[g]] = g
    BY Zenon DEF FramesMapped
  <2>1. CASE g = f
    BY Zenon, <2>1, <1>i, <1>t, <1>p
  <2>2. CASE g # f
    <3>1. id_'[g] = id_[g]
      BY Zenon, <2>2, <1>i, <1>t
    <3> QED BY Zenon, <3>1, <2>2, <1>g, <1>p, <1>t
  <2> QED BY Zenon, <2>1, <2>2
<1>2. UncachedIsOnDisk'
  <2> SUFFICES ASSUME NEW q \in PageIds, Allocated(q)', page_table_'[q] = NoFrame
               PROVE  q.page_no < file_pages'[q.fd]
    BY Zenon DEF UncachedIsOnDisk
  <2>1. q # p
    BY Zenon, <1>p, <1>v, Constants
  <2>2. CASE q = id_[f]
    BY Zenon, <2>2, <1>w, Constants
  <2>3. CASE q # id_[f]
    <3>1. q.page_no < file_pages[q.fd]
      BY Zenon, <2>1, <2>3, <1>p DEF CoherentInv, UncachedIsOnDisk
    <3>2. q.fd \in Fds /\ q.page_no \in Int
      BY Constants
    <3>3. file_pages'[q.fd] >= file_pages[q.fd]
      BY Zenon, <3>2, <1>w
    <3>4. file_pages'[q.fd] \in Int /\ file_pages[q.fd] \in Int
      BY <3>2, <1>w, <1>t, Constants
    <3> QED BY <3>1, <3>2, <3>3, <3>4
  <2> QED BY Zenon, <2>2, <2>3
<1>3. CleanMatchesDisk'
  <2> SUFFICES ASSUME NEW g \in Frames, id_'[g] # NoPage, Clean(g)'
               PROVE  /\ data_'[g] = disk'[id_'[g]]
                      /\ id_'[g].page_no < file_pages'[id_'[g].fd]
    BY Zenon DEF CleanMatchesDisk
  <2>1. CASE g = f
    <3>1. ~owes
      BY Zenon, <2>1, <1>h DEF Clean
    <3> QED BY Zenon, <3>1, <2>1, <1>i, <1>t, <1>n, <1>w
  <2>2. CASE g # f
    <3>1. id_'[g] = id_[g] /\ data_'[g] = data_[g] /\ is_dirty_'[g] = is_dirty_[g]
      BY Zenon, <2>2, <1>i, <1>t
    <3>2. Clean(g)
      BY Zenon, <3>1, <1>h, Constants DEF Clean
    <3>3. /\ data_[g] = disk[id_[g]] /\ id_[g].page_no < file_pages[id_[g].fd]
      BY Zenon, <3>1, <3>2 DEF CoherentInv, CleanMatchesDisk
    <3>4. id_[g] \in PageIds /\ id_[g] # id_[f]
      BY Zenon, <3>1, <2>2, <1>g
    <3>5. id_[g].fd \in Fds /\ id_[g].page_no \in Int
      BY <3>4, Constants
    <3>6. file_pages'[id_[g].fd] >= file_pages[id_[g].fd]
      BY Zenon, <3>5, <1>w
    <3>7. file_pages'[id_[g].fd] \in Int /\ file_pages[id_[g].fd] \in Int
      BY <3>5, <1>w, <1>t, Constants
    <3> QED BY <3>1, <3>3, <3>4, <3>5, <3>6, <3>7, <1>w, SMTT(30)
  <2> QED BY Zenon, <2>1, <2>2
<1>4. CurrentPage' = [CurrentPage EXCEPT ![p] = v]
  <2>1. ASSUME NEW q \in PageIds
        PROVE  CurrentPage'[q] = IF q = p THEN v ELSE CurrentPage[q]
    <3>0. /\ CurrentPage'[q] = IF page_table_'[q] # NoFrame
                               THEN data_'[page_table_'[q]] ELSE disk'[q]
          /\ CurrentPage[q] = IF page_table_[q] # NoFrame
                              THEN data_[page_table_[q]] ELSE disk[q]
      BY Zenon DEF CurrentPage
    <3>1. CASE q = p
      BY <3>0, <3>1, <1>p, <1>i, <1>t, <1>v, Constants, SMTT(30)
    <3>2. CASE q # p /\ q = id_[f]
      <4>1. page_table_[q] = f
        BY Zenon, <3>2, <1>t, <1>v, Constants
      <4> QED BY Zenon, <3>0, <3>2, <4>1, <1>p, <1>w, <1>v, Constants
    <3>3. CASE q # p /\ q # id_[f]
      <4>1. page_table_'[q] = page_table_[q] /\ disk'[q] = disk[q]
        BY Zenon, <3>3, <1>p, <1>w
      <4>2. page_table_[q] # NoFrame => page_table_[q] \in Frames /\ page_table_[q] # f
        BY Zenon, <3>3, <1>t
      <4> QED BY Zenon, <3>0, <3>3, <4>1, <4>2, <1>i, <1>t
    <3> QED BY Zenon, <3>1, <3>2, <3>3
  <2> QED BY Zenon, <2>1 DEF CurrentPage
<1> QED BY Zenon, <1>1, <1>2, <1>3, <1>4 DEF CoherentInv

\* The page a client holds, as PageStore sees it.
Held == [c \in Clients |-> handle[c].page]

\* A step of the abstract store, seen through CurrentPage and Held, or none.
Acquires(c, p) ==
    /\ Held[c] = NoPage /\ Allocated(p)
    /\ Held' = [Held EXCEPT ![c] = p] /\ UNCHANGED <<CurrentPage, fd2pageno_>>

Allocates(c, fd) ==
    LET p == [fd |-> fd, page_no |-> fd2pageno_[fd]] IN
    /\ Held[c] = NoPage /\ fd2pageno_[fd] < MaxPages
    /\ Held' = [Held EXCEPT ![c] = p]
    /\ CurrentPage' = [CurrentPage EXCEPT ![p] = Zero]
    /\ fd2pageno_' = [fd2pageno_ EXCEPT ![fd] = @ + 1]

Writes(c, v) ==
    /\ Held[c] # NoPage
    /\ CurrentPage' = [CurrentPage EXCEPT ![Held[c]] = v]
    /\ UNCHANGED <<fd2pageno_, Held>>

Releases(c) ==
    /\ Held[c] # NoPage
    /\ Held' = [Held EXCEPT ![c] = NoPage] /\ UNCHANGED <<CurrentPage, fd2pageno_>>

StoreStep ==
    \/ \E c \in Clients : \/ \E p \in PageIds : Acquires(c, p)
                          \/ \E fd \in Fds : Allocates(c, fd)
                          \/ \E v \in Values : Writes(c, v)
                          \/ Releases(c)
    \/ UNCHANGED <<CurrentPage, fd2pageno_, Held>>

LEMMA HeldPage ==
  ASSUME CoherentInv, NEW c \in Clients
  PROVE  handle[c] # NoHandle => handle[c].page \in PageIds /\ handle[c].page # NoPage
BY Zenon, Constants DEF CoherentInv, SafeInv, HandlesPoint

\* A fetch hands the client an allocated page whose contents do not change.
LEMMA AcquireStep ==
  ASSUME CoherentInv, NEW c \in Clients, NEW p \in PageIds, NEW f, NEW owes,
         handle[c] = NoHandle, Allocated(p),
         handle' = [handle EXCEPT ![c] = [page |-> p, frame |-> f, dirty |-> owes]],
         CurrentPage' = CurrentPage, fd2pageno_' = fd2pageno_
  PROVE  StoreStep
<1>1. handle \in [Clients -> Handles]
  BY Zenon, CoherentTypes
<1>2. Held[c] = NoPage /\ Held' = [Held EXCEPT ![c] = p]
  BY Zenon, <1>1, Constants DEF Held
<1> QED BY Zenon, <1>2 DEF StoreStep, Acquires

LEMMA FetchMissRefines ==
  ASSUME CoherentInv, SafeInv', NEW c \in Clients, NEW p \in PageIds, FetchMiss(c, p)
  PROVE  CoherentInv' /\ StoreStep
<1> DEFINE f == Victim
<1>a. /\ HasVictim /\ handle[c] = NoHandle /\ page_table_[p] = NoFrame /\ Allocated(p)
      /\ disk' = DiskAfter(f) /\ file_pages' = FilesAfter(f)
      /\ p.page_no < FilesAfter(f)[p.fd]
      /\ Install(c, f, p, DiskAfter(f)[p], FALSE) /\ fd2pageno_' = fd2pageno_
  BY Zenon DEF FetchMiss
<1>t. /\ disk \in [PageIds -> Values]
      /\ \A g \in Frames : id_[g] # NoPage =>
            id_[g] \in PageIds /\ page_table_[id_[g]] = g
  BY Zenon, CoherentTypes
<1>v. f \in Frames /\ \A d \in Clients : handle[d].frame # f
  BY Zenon, <1>a, VictimFacts DEF CoherentInv
<1>1. DiskAfter(f)[p] = disk[p]
  <2>1. p # id_[f]
    BY Zenon, <1>a, <1>t, <1>v, Constants
  <2> QED BY Zenon, <2>1, <1>v, WriteBackFacts
<1>2. disk[p] \in Values /\ FALSE \in BOOLEAN
  BY Zenon, <1>t
<1>3. \A q \in PageIds : Allocated(q)' => Allocated(q)
  BY Zenon, <1>a DEF Allocated
<1>4. CoherentInv' /\ CurrentPage' = [CurrentPage EXCEPT ![p] = disk[p]]
  <2>1. Install(c, f, p, disk[p], FALSE)
    BY Zenon, <1>a, <1>1
  <2> QED BY Zenon, <2>1, <1>a, <1>2, <1>3, InstallCoherent
<1>5. CurrentPage' = CurrentPage
  <2>1. CurrentPage[p] = disk[p]
    BY Zenon, <1>a DEF CurrentPage
  <2>2. CurrentPage = [q \in PageIds |-> CurrentPage[q]]
    BY Zenon DEF CurrentPage
  <2> QED BY Zenon, <2>1, <2>2, <1>4
<1>6. handle' = [handle EXCEPT ![c] = [page |-> p, frame |-> f, dirty |-> FALSE]]
  BY Zenon, <1>a DEF Install
<1>7. StoreStep
  <2> HIDE DEF f
  <2> QED BY Zenon, <1>a, <1>5, <1>6, AcquireStep
<1> QED BY Zenon, <1>4, <1>7

LEMMA NewPageRefines ==
  ASSUME DirtyNewPages, CoherentInv, SafeInv', NEW c \in Clients, NEW fd \in Fds,
         NewPage(c, fd)
  PROVE  CoherentInv' /\ StoreStep
<1> DEFINE p == [fd |-> fd, page_no |-> fd2pageno_[fd]]
<1>a. /\ HasVictim /\ handle[c] = NoHandle /\ fd2pageno_[fd] < MaxPages
      /\ disk' = DiskAfter(Victim) /\ file_pages' = FilesAfter(Victim)
      /\ fd2pageno_' = [fd2pageno_ EXCEPT ![fd] = @ + 1]
      /\ Install(c, Victim, p, Zero, DirtyNewPages)
  BY Zenon DEF NewPage
<1>t. fd2pageno_ \in [Fds -> 0..MaxPages] /\ handle \in [Clients -> Handles]
  BY Zenon, CoherentTypes
<1>1. p \in PageIds /\ ~Allocated(p) /\ p.fd = fd /\ p.page_no = fd2pageno_[fd]
  BY <1>a, <1>t, Constants DEF PageIds, Allocated
<1>2. page_table_[p] = NoFrame
  BY Zenon, <1>1 DEF CoherentInv, SafeInv, CachedAllocated
<1>3. \A q \in PageIds : q # p => (Allocated(q)' => Allocated(q))
  <2> SUFFICES ASSUME NEW q \in PageIds, q # p, q.page_no < fd2pageno_'[q.fd]
               PROVE  q.page_no < fd2pageno_[q.fd]
    BY Zenon DEF Allocated
  <2>1. q.fd \in Fds /\ q.page_no \in Nat
    BY Constants
  <2>2. CASE q.fd # fd
    BY Zenon, <2>1, <2>2, <1>a, <1>t
  <2>3. CASE q.fd = fd
    <3>1. fd2pageno_'[fd] = fd2pageno_[fd] + 1
      BY Zenon, <1>a, <1>t
    <3>2. q.page_no # fd2pageno_[fd]
      BY Zenon, <2>3 DEF PageIds
    <3>3. fd2pageno_[fd] \in Nat
      BY <1>t, Constants, SMTT(30)
    <3> QED BY <2>1, <2>3, <3>1, <3>2, <3>3
  <2> QED BY Zenon, <2>2, <2>3
<1> HIDE DEF p
<1>4. /\ CoherentInv' /\ CurrentPage' = [CurrentPage EXCEPT ![p] = Zero]
  <2>1. Zero \in Values /\ DirtyNewPages \in BOOLEAN
    BY Zenon, PoolAssumption
  <2> QED BY Zenon, <2>1, <1>a, <1>1, <1>2, <1>3, InstallCoherent
<1>5. Held[c] = NoPage /\ Held' = [Held EXCEPT ![c] = p]
  BY Zenon, <1>a, <1>t, Constants DEF Held, Install
<1>6. Allocates(c, fd)
  BY Zenon, <1>a, <1>4, <1>5 DEF Allocates, p
<1>7. StoreStep
  BY Zenon, <1>6 DEF StoreStep
<1> QED BY Zenon, <1>4, <1>7

LEMMA FetchHitRefines ==
  ASSUME CoherentInv, SafeInv', NEW c \in Clients, NEW p \in PageIds, FetchHit(c, p)
  PROVE  CoherentInv' /\ StoreStep
<1> DEFINE f == page_table_[p]
<1>t. handle \in [Clients -> Handles]
  BY Zenon, CoherentTypes
<1>a. /\ handle[c] = NoHandle /\ f # NoFrame
      /\ handle' = [handle EXCEPT ![c] = [page |-> p, frame |-> f, dirty |-> FALSE]]
      /\ UNCHANGED <<page_table_, id_, data_, is_dirty_, disk, file_pages, fd2pageno_>>
  BY Zenon DEF FetchHit, disk_vars
<1>1. \A g \in Frames : Clean(g)' => Clean(g)
  BY Zenon, <1>a, <1>t, Constants DEF Clean
<1>2. CoherentInv'
  <2>1. FramesMapped' /\ UncachedIsOnDisk'
    BY Zenon, <1>a DEF CoherentInv, FramesMapped, UncachedIsOnDisk, Allocated
  <2>2. CleanMatchesDisk'
    BY Zenon, <1>a, <1>1 DEF CoherentInv, CleanMatchesDisk
  <2> QED BY Zenon, <2>1, <2>2 DEF CoherentInv
<1>3. CurrentPage' = CurrentPage
  BY Zenon, <1>a DEF CurrentPage
<1>4. Allocated(p)
  BY Zenon, <1>a DEF CoherentInv, SafeInv, CachedAllocated
<1> HIDE DEF f
<1>5. StoreStep
  BY Zenon, <1>a, <1>3, <1>4, AcquireStep
<1> QED BY Zenon, <1>2, <1>5

LEMMA ClientWriteRefines ==
  ASSUME CoherentInv, SafeInv', NEW c \in Clients, NEW v \in Values, ClientWrite(c, v)
  PROVE  CoherentInv' /\ StoreStep
<1> DEFINE f == handle[c].frame
           p == handle[c].page
<1>t. /\ data_ \in [Frames -> Values] /\ handle \in [Clients -> Handles]
      /\ \A q \in PageIds : page_table_[q] # NoFrame =>
            page_table_[q] \in Frames /\ id_[page_table_[q]] = q
  BY Zenon, CoherentTypes
<1>a. /\ handle[c] # NoHandle
      /\ data_' = [data_ EXCEPT ![f] = v]
      /\ handle' = [handle EXCEPT ![c].dirty = TRUE]
      /\ UNCHANGED <<page_table_, id_, is_dirty_, disk, file_pages, fd2pageno_>>
  BY Zenon DEF ClientWrite, disk_vars
<1>f. p \in PageIds /\ p # NoPage /\ f \in Frames /\ page_table_[p] = f
  BY Zenon, <1>a, Constants DEF CoherentInv, SafeInv, HandlesPoint,
     HeldPagesStay
<1>h. /\ handle'[c].frame = f /\ handle'[c].dirty
      /\ \A d \in Clients : handle'[d].page = handle[d].page
      /\ \A d \in Clients : d # c => handle'[d] = handle[d]
  BY <1>a, <1>t DEF Handles
<1> HIDE DEF f, p
<1>1. \A g \in Frames : Clean(g)' => g # f /\ Clean(g)
  <2> SUFFICES ASSUME NEW g \in Frames, Clean(g)' PROVE g # f /\ Clean(g)
    BY Zenon
  <2>1. g # f
    BY Zenon, <1>h DEF Clean
  <2>2. ~is_dirty_[g]
    BY Zenon, <1>a DEF Clean
  <2>3. ASSUME NEW d \in Clients, handle[d].frame = g PROVE ~handle[d].dirty
    <3>1. d # c
      BY Zenon, <2>1, <2>3 DEF f
    <3> QED BY Zenon, <3>1, <2>3, <1>h DEF Clean
  <2> QED BY Zenon, <2>1, <2>2, <2>3 DEF Clean
<1>2. CoherentInv'
  <2>1. FramesMapped' /\ UncachedIsOnDisk'
    BY Zenon, <1>a DEF CoherentInv, FramesMapped, UncachedIsOnDisk, Allocated
  <2>2. CleanMatchesDisk'
    BY Zenon, <1>a, <1>1, <1>t DEF CoherentInv, CleanMatchesDisk
  <2> QED BY Zenon, <2>1, <2>2 DEF CoherentInv
<1>3. CurrentPage' = [CurrentPage EXCEPT ![p] = v]
  <2>1. ASSUME NEW q \in PageIds
        PROVE  CurrentPage'[q] = IF q = p THEN v ELSE CurrentPage[q]
    <3>0. /\ CurrentPage'[q] = IF page_table_[q] # NoFrame
                               THEN data_'[page_table_[q]] ELSE disk[q]
          /\ CurrentPage[q] = IF page_table_[q] # NoFrame
                              THEN data_[page_table_[q]] ELSE disk[q]
      BY <1>a DEF CurrentPage
    <3>1. CASE q = p
      BY Zenon, <3>0, <3>1, <1>a, <1>f, <1>t, Constants
    <3>2. CASE q # p
      <4>1. page_table_[q] # NoFrame => page_table_[q] \in Frames /\ page_table_[q] # f
        BY Zenon, <3>2, <1>t, <1>f, Constants
      <4> QED BY Zenon, <3>0, <3>2, <4>1, <1>a, <1>t
    <3> QED BY Zenon, <3>1, <3>2
  <2> QED BY Zenon, <2>1 DEF CurrentPage
<1>4. Held' = Held /\ Held[c] = p
  BY Zenon, <1>h DEF Held, p
<1>5. Writes(c, v)
  BY Zenon, <1>a, <1>3, <1>4, <1>f DEF Writes
<1>6. StoreStep
  BY Zenon, <1>5 DEF StoreStep
<1> QED BY Zenon, <1>2, <1>6

LEMMA UnpinRefines ==
  ASSUME CoherentInv, SafeInv', NEW c \in Clients, NEW is_dirty \in BOOLEAN,
         UnpinPage(c, is_dirty)
  PROVE  CoherentInv' /\ StoreStep
<1> DEFINE f == handle[c].frame
<1>t. /\ is_dirty_ \in [Frames -> BOOLEAN] /\ handle \in [Clients -> Handles]
  BY Zenon, CoherentTypes
<1>f. handle[c] # NoHandle /\ f \in Frames /\ page_table_[handle[c].page] = f
  BY Zenon, Constants DEF UnpinPage, CoherentInv, SafeInv, HandlesPoint,
     HeldPagesStay
<1>a. /\ handle[c].dirty => is_dirty
      /\ is_dirty_' = [is_dirty_ EXCEPT ![f] = @ \/ is_dirty]
      /\ handle' = [handle EXCEPT ![c] = NoHandle]
      /\ UNCHANGED <<page_table_, id_, data_, disk, file_pages, fd2pageno_>>
  BY Zenon, <1>f DEF UnpinPage, disk_vars
<1>h. /\ handle'[c] = NoHandle
      /\ \A d \in Clients : d # c => handle'[d] = handle[d]
  BY Zenon, <1>a, <1>t
<1>1. ASSUME NEW g \in Frames, Clean(g)' PROVE Clean(g)
  <2>1. ~is_dirty_[g] /\ (g = f => ~is_dirty)
    BY Zenon, <1>1, <1>a, <1>t DEF Clean
  <2>2. ASSUME NEW d \in Clients, handle[d].frame = g PROVE ~handle[d].dirty
    <3>1. CASE d = c
      BY Zenon, <3>1, <2>1, <2>2, <1>a
    <3>2. CASE d # c
      BY Zenon, <3>2, <2>2, <1>1, <1>h DEF Clean
    <3> QED BY Zenon, <3>1, <3>2
  <2> QED BY Zenon, <2>1, <2>2 DEF Clean
<1> HIDE DEF f
<1>2. CoherentInv'
  <2>1. FramesMapped' /\ UncachedIsOnDisk'
    BY Zenon, <1>a DEF CoherentInv, FramesMapped, UncachedIsOnDisk, Allocated
  <2>2. CleanMatchesDisk'
    BY Zenon, <1>a, <1>1 DEF CoherentInv, CleanMatchesDisk
  <2> QED BY Zenon, <2>1, <2>2 DEF CoherentInv
<1>3. CurrentPage' = CurrentPage
  BY Zenon, <1>a DEF CurrentPage
<1>4. Held' = [Held EXCEPT ![c] = NoPage]
  BY Zenon, <1>h, Constants DEF Held
<1>5. Held[c] # NoPage
  BY Zenon, <1>f, HeldPage DEF Held
<1>6. Releases(c)
  BY Zenon, <1>a, <1>3, <1>4, <1>5 DEF Releases
<1>7. StoreStep
  BY Zenon, <1>6 DEF StoreStep
<1> QED BY Zenon, <1>2, <1>7

-----------------------------------------------------------------------------
(* The calls that only move pages to disk, which a page store does not     *)
(* see, and the frames.                                                    *)

\* Steps that touch the disk and the dirty bits only: nothing is visible if
\* frames that end up clean agree with the disk and uncached pages are left alone.
LEMMA DiskStepRefines ==
  ASSUME CoherentInv, SafeInv',
         UNCHANGED <<page_table_, id_, data_, fd2pageno_, handle>>,
         \A fd \in Fds : file_pages'[fd] >= file_pages[fd],
         \A p \in PageIds : page_table_[p] = NoFrame => disk'[p] = disk[p],
         \A f \in Frames : id_[f] # NoPage /\ Clean(f)' =>
            /\ data_[f] = disk'[id_[f]]
            /\ id_[f].page_no < file_pages'[id_[f].fd]
  PROVE  CoherentInv' /\ StoreStep
<1>1. FramesMapped' /\ CleanMatchesDisk'
  BY Zenon DEF CoherentInv, FramesMapped, CleanMatchesDisk
<1>2. UncachedIsOnDisk'
  <2> SUFFICES ASSUME NEW q \in PageIds, Allocated(q)', page_table_'[q] = NoFrame
               PROVE  q.page_no < file_pages'[q.fd]
    BY Zenon DEF UncachedIsOnDisk
  <2>1. q.page_no < file_pages[q.fd]
    BY Zenon DEF CoherentInv, UncachedIsOnDisk, Allocated
  <2>2. q.fd \in Fds /\ q.page_no \in Int
    BY Constants, SMTT(30)
  <2>3. file_pages[q.fd] \in Int /\ file_pages'[q.fd] \in Int
    BY <2>2, Constants, SMTT(30) DEF CoherentInv, SafeInv, TypeOK
  <2> QED BY <2>1, <2>2, <2>3
<1>3. CurrentPage' = CurrentPage
  BY Zenon DEF CurrentPage
<1>4. Held' = Held
  BY Zenon DEF Held
<1> QED BY Zenon, <1>1, <1>2, <1>3, <1>4 DEF CoherentInv, StoreStep

\* A clean frame keeps agreeing with the disk when a file only grows.
LEMMA CleanStays ==
  ASSUME CoherentInv, SafeInv', NEW f \in Frames, id_[f] # NoPage, Clean(f),
         \A fd \in Fds : file_pages'[fd] >= file_pages[fd],
         disk'[id_[f]] = disk[id_[f]]
  PROVE  /\ data_[f] = disk'[id_[f]]
         /\ id_[f].page_no < file_pages'[id_[f].fd]
<1>1. data_[f] = disk[id_[f]] /\ id_[f].page_no < file_pages[id_[f].fd]
  BY Zenon DEF CoherentInv, CleanMatchesDisk
<1>2. id_[f].fd \in Fds /\ id_[f].page_no \in Int
  BY CoherentTypes, Constants, SMTT(30)
<1>3. file_pages[id_[f].fd] \in Int /\ file_pages'[id_[f].fd] \in Int
  <2>1. file_pages \in [Fds -> 0..MaxPages] /\ file_pages' \in [Fds -> 0..MaxPages]
    BY Zenon DEF CoherentInv, SafeInv, TypeOK
  <2> QED BY <1>2, <2>1, SMTT(30)
<1> QED BY <1>1, <1>2, <1>3

\* A failed write of frame f disturbs no clean frame: if f itself is clean, the
\* bytes written are the bytes that were there.
LEMMA FailedWriteRefines ==
  ASSUME CoherentInv, SafeInv', NEW f \in Frames, id_[f] # NoPage,
         FailedWrite(f, id_[f]),
         UNCHANGED <<page_table_, id_, data_, is_dirty_, fd2pageno_, handle>>
  PROVE  CoherentInv' /\ StoreStep
<1>t. /\ disk \in [PageIds -> Values] /\ file_pages \in [Fds -> 0..MaxPages]
      /\ \A g \in Frames : id_[g] # NoPage =>
            id_[g] \in PageIds /\ page_table_[id_[g]] = g
  BY Zenon, CoherentTypes
<1>1. PICK v \in TornPages(f, disk[id_[f]]) : disk' = [disk EXCEPT ![id_[f]] = v]
  BY Zenon DEF FailedWrite
<1>2. file_pages' = file_pages
  BY Zenon DEF FailedWrite
<1>3. \A fd \in Fds : file_pages'[fd] >= file_pages[fd]
  BY <1>2, <1>t, Constants, SMTT(30)
<1>4. \A p \in PageIds : page_table_[p] = NoFrame => disk'[p] = disk[p]
  BY <1>1, <1>t, Constants
<1>5. ASSUME NEW g \in Frames, id_[g] # NoPage, Clean(g)'
      PROVE  /\ data_[g] = disk'[id_[g]]
             /\ id_[g].page_no < file_pages'[id_[g].fd]
  <2>1. Clean(g)
    BY Zenon, <1>5 DEF Clean
  <2>2. disk'[id_[g]] = disk[id_[g]]
    <3>1. CASE g = f
      <4>1. data_[f] = disk[id_[f]]
        BY Zenon, <2>1, <3>1 DEF CoherentInv, CleanMatchesDisk
      <4>2. v = disk[id_[f]]
        BY Zenon, <4>1, <1>1 DEF TornPages
      <4> QED BY Zenon, <4>2, <3>1, <1>1, <1>t
    <3>2. CASE g # f
      BY Zenon, <3>2, <1>5, <1>1, <1>t
    <3> QED BY Zenon, <3>1, <3>2
  <2> QED BY Zenon, <2>1, <2>2, <1>3, <1>5, CleanStays
<1> QED BY Zenon, <1>3, <1>4, <1>5, DiskStepRefines

LEMMA VictimWriteErrorRefines ==
  ASSUME CoherentInv, SafeInv', HasVictim, VictimWriteError
  PROVE  CoherentInv' /\ StoreStep
<1>1. /\ is_dirty_[Victim] /\ FailedWrite(Victim, id_[Victim])
      /\ UNCHANGED <<page_table_, id_, data_, is_dirty_, fd2pageno_, handle>>
  BY Zenon DEF VictimWriteError, page_vars
<1>2. Victim \in Frames
  BY Zenon, VictimFacts DEF CoherentInv
<1>3. id_[Victim] # NoPage
  BY Zenon, <1>1, <1>2 DEF CoherentInv, SafeInv, DirtyHasPage
<1> QED BY Zenon, <1>1, <1>2, <1>3, FailedWriteRefines

LEMMA FlushPageRefines ==
  ASSUME CoherentInv, SafeInv', NEW p \in PageIds, FlushPage(p) \/ FlushWriteError(p)
  PROVE  CoherentInv' /\ StoreStep
<1> DEFINE f == page_table_[p]
<1>t. /\ disk \in [PageIds -> Values] /\ file_pages \in [Fds -> 0..MaxPages]
      /\ is_dirty_ \in [Frames -> BOOLEAN]
      /\ \A g \in Frames : id_[g] # NoPage =>
            id_[g] \in PageIds /\ page_table_[id_[g]] = g
  BY Zenon, CoherentTypes
<1>f. f \in Frames /\ id_[f] = p /\ p # NoPage /\ f # NoFrame
  BY Zenon, CoherentTypes, Constants DEF FlushPage, FlushWriteError
<1>1. CASE FlushPage(p)
  <2>a. /\ disk' = [disk EXCEPT ![p] = data_[f]]
        /\ file_pages' = [file_pages EXCEPT ![p.fd] = Longer(@, p)]
        /\ is_dirty_' = [is_dirty_ EXCEPT ![f] = FALSE]
        /\ UNCHANGED <<page_table_, id_, data_, fd2pageno_, handle>>
    BY Zenon, <1>1 DEF FlushPage
  <2> HIDE DEF f
  <2>0. p.fd \in Fds /\ p.page_no \in Int
    BY Constants
  <2>1. \A fd \in Fds : file_pages[fd] \in Int
    BY <1>t, Constants
  <2>2. /\ \A fd \in Fds : file_pages'[fd] >= file_pages[fd]
        /\ p.page_no < file_pages'[p.fd]
    BY <2>a, <2>0, <2>1, <1>t DEF Longer
  <2>3. \A q \in PageIds : page_table_[q] = NoFrame => disk'[q] = disk[q]
    <3>1. page_table_[p] # NoFrame
      BY Zenon, <1>f DEF f
    <3> QED BY Zenon, <3>1, <2>a, <1>t
  <2>4. ASSUME NEW g \in Frames, id_[g] # NoPage, Clean(g)'
        PROVE  /\ data_[g] = disk'[id_[g]]
               /\ id_[g].page_no < file_pages'[id_[g].fd]
    <3>1. CASE g = f
      BY Zenon, <3>1, <2>2, <2>a, <1>f, <1>t
    <3>2. CASE g # f
      <4>1. Clean(g)
        BY Zenon, <2>4, <3>2, <2>a, <1>t DEF Clean
      <4>2. id_[g] \in PageIds /\ id_[g] # p
        BY Zenon, <2>4, <3>2, <1>t DEF f
      <4>3. disk'[id_[g]] = disk[id_[g]]
        BY Zenon, <4>2, <2>a, <1>t
      <4> QED BY Zenon, <4>1, <4>3, <2>2, <2>4, CleanStays
    <3> QED BY Zenon, <3>1, <3>2
  <2> QED BY Zenon, <2>a, <2>2, <2>3, <2>4, DiskStepRefines
<1>2. CASE FlushWriteError(p)
  <2>a. /\ FailedWrite(f, p)
        /\ UNCHANGED <<page_table_, id_, data_, is_dirty_, fd2pageno_, handle>>
    BY Zenon, <1>2 DEF FlushWriteError, page_vars
  <2> HIDE DEF f
  <2> QED BY Zenon, <2>a, <1>f, FailedWriteRefines
<1> QED BY Zenon, <1>1, <1>2

LEMMA DeletePageRefines ==
  ASSUME CoherentInv, SafeInv', NEW p \in PageIds, DeletePage(p)
  PROVE  CoherentInv' /\ StoreStep
<1> DEFINE f == page_table_[p]
<1>t. /\ page_table_ \in [PageIds -> Frames \cup {NoFrame}]
      /\ id_ \in [Frames -> PageIds \cup {NoPage}] /\ data_ \in [Frames -> Values]
      /\ is_dirty_ \in [Frames -> BOOLEAN] /\ file_pages \in [Fds -> 0..MaxPages]
      /\ \A g \in Frames : id_[g] # NoPage =>
            id_[g] \in PageIds /\ page_table_[id_[g]] = g
      /\ \A q \in PageIds : page_table_[q] # NoFrame =>
            page_table_[q] \in Frames /\ id_[page_table_[q]] = q
  BY Zenon, CoherentTypes
<1>a. /\ f # NoFrame /\ pin_count_[f] = 0
      /\ disk' = DiskAfter(f) /\ file_pages' = FilesAfter(f)
      /\ page_table_' = [page_table_ EXCEPT ![p] = NoFrame]
      /\ id_' = [id_ EXCEPT ![f] = NoPage]
      /\ data_' = [data_ EXCEPT ![f] = Zero]
      /\ is_dirty_' = [is_dirty_ EXCEPT ![f] = FALSE]
      /\ fd2pageno_' = fd2pageno_ /\ handle' = handle
  BY Zenon DEF DeletePage
<1>f. f \in Frames /\ id_[f] = p /\ p # NoPage
  BY Zenon, <1>a, <1>t, Constants
<1>u. \A c \in Clients : handle[c].frame # f
  BY Zenon, <1>a, <1>f, Unheld DEF CoherentInv
<1>w. /\ \A q \in PageIds : disk'[q] = IF q = p THEN data_[f] ELSE disk[q]
      /\ \A fd \in Fds : file_pages'[fd] >= file_pages[fd]
      /\ p.page_no < file_pages'[p.fd]
  BY <1>a, <1>f, <1>u, WriteBackFacts, SMTT(30)
<1>p. page_table_[p] = f
  BY Zenon
<1> HIDE DEF f
<1>1. FramesMapped'
  <2> SUFFICES ASSUME NEW g \in Frames, id_'[g] # NoPage PROVE page_table_'[id_'[g]] = g
    BY Zenon DEF FramesMapped
  <2>1. g # f /\ id_'[g] = id_[g]
    BY Zenon, <1>a, <1>t
  <2>2. id_[g] \in PageIds /\ page_table_[id_[g]] = g /\ id_[g] # p
    BY Zenon, <2>1, <1>t, <1>p
  <2> QED BY Zenon, <2>1, <2>2, <1>a, <1>t
<1>2. UncachedIsOnDisk'
  <2> SUFFICES ASSUME NEW q \in PageIds, Allocated(q)', page_table_'[q] = NoFrame
               PROVE  q.page_no < file_pages'[q.fd]
    BY Zenon DEF UncachedIsOnDisk
  <2>1. CASE q = p
    BY Zenon, <2>1, <1>w
  <2>2. CASE q # p
    <3>1. page_table_[q] = NoFrame /\ Allocated(q)
      BY Zenon, <2>2, <1>a, <1>t DEF Allocated
    <3>2. q.page_no < file_pages[q.fd]
      BY Zenon, <3>1 DEF CoherentInv, UncachedIsOnDisk
    <3>3. q.fd \in Fds /\ q.page_no \in Int
      BY Constants
    <3>0. file_pages \in [Fds -> 0..MaxPages] /\ file_pages' \in [Fds -> 0..MaxPages]
      BY Zenon DEF CoherentInv, SafeInv, TypeOK
    <3>4. file_pages[q.fd] \in Int /\ file_pages'[q.fd] \in Int
      BY <3>0, <3>3
    <3>5. file_pages'[q.fd] >= file_pages[q.fd]
      BY Zenon, <3>3, <1>w
    <3> QED BY <3>2, <3>3, <3>4, <3>5
  <2> QED BY Zenon, <2>1, <2>2
<1>3. CleanMatchesDisk'
  <2> SUFFICES ASSUME NEW g \in Frames, id_'[g] # NoPage, Clean(g)'
               PROVE  /\ data_'[g] = disk'[id_'[g]]
                      /\ id_'[g].page_no < file_pages'[id_'[g].fd]
    BY Zenon DEF CleanMatchesDisk
  <2>1. g # f /\ id_'[g] = id_[g] /\ data_'[g] = data_[g] /\ is_dirty_'[g] = is_dirty_[g]
    BY Zenon, <1>a, <1>t
  <2>2. id_[g] \in PageIds /\ id_[g] # p
    BY Zenon, <2>1, <1>t, <1>p
  <2>3. Clean(g) /\ disk'[id_[g]] = disk[id_[g]]
    BY Zenon, <2>1, <2>2, <1>a, <1>w DEF Clean
  <2>4. data_[g] = disk'[id_[g]] /\ id_[g].page_no < file_pages'[id_[g].fd]
    BY Zenon, <2>1, <2>3, <1>w, CleanStays
  <2> QED BY Zenon, <2>1, <2>4
<1>4. CurrentPage' = CurrentPage
  <2>1. ASSUME NEW q \in PageIds PROVE CurrentPage'[q] = CurrentPage[q]
    <3>0. /\ CurrentPage'[q] = IF page_table_'[q] # NoFrame
                               THEN data_'[page_table_'[q]] ELSE disk'[q]
          /\ CurrentPage[q] = IF page_table_[q] # NoFrame
                              THEN data_[page_table_[q]] ELSE disk[q]
      BY Zenon DEF CurrentPage
    <3>1. CASE q = p
      BY Zenon, <3>0, <3>1, <1>a, <1>p, <1>t, <1>w
    <3>2. CASE q # p
      <4>1. page_table_'[q] = page_table_[q] /\ disk'[q] = disk[q]
        BY Zenon, <3>2, <1>a, <1>t, <1>w
      <4>2. page_table_[q] # NoFrame => page_table_[q] \in Frames /\ page_table_[q] # f
        BY Zenon, <3>2, <1>t, <1>f
      <4> QED BY Zenon, <3>0, <4>1, <4>2, <1>a, <1>t
    <3> QED BY Zenon, <3>1, <3>2
  <2> QED BY Zenon, <2>1 DEF CurrentPage
<1>5. Held' = Held
  BY Zenon, <1>a DEF Held
<1> QED BY Zenon, <1>1, <1>2, <1>3, <1>4, <1>5, <1>a DEF CoherentInv, StoreStep

\* With every page in one frame, flush_all_pages writes each frame's contents to
\* its own page and touches no other.
LEMMA FlushedPageFacts ==
  ASSUME CoherentInv, NEW fd \in Fds, NEW k \in Nat
  PROVE  /\ \A f \in FramesOf(fd, k) : FlushedPage(fd, k, id_[f]) = data_[f]
         /\ \A p \in PageIds : (\A f \in FramesOf(fd, k) : id_[f] # p) =>
               FlushedPage(fd, k, p) = disk[p]
<1>1. ASSUME NEW f \in FramesOf(fd, k) PROVE FlushedPage(fd, k, id_[f]) = data_[f]
  <2> DEFINE S == {g \in FramesOf(fd, k) : id_[g] = id_[f]}
  <2>1. \A g \in FramesOf(fd, k) : g \in Frames /\ id_[g] # NoPage
    BY Zenon DEF FramesOf
  <2>2. S = {f}
    BY <2>1, CoherentTypes
  <2>3. {f} \subseteq 0..PoolSize /\ {f} # {} /\ PoolSize \in Nat
    BY <2>1, Constants
  <2>4. Max({f}) \in {f}
    BY Zenon, <2>3, MaxOfBounded
  <2>5. FlushedPage(fd, k, id_[f]) = IF S = {} THEN disk[id_[f]] ELSE data_[Max(S)]
    BY Zenon DEF FlushedPage
  <2> HIDE DEF S
  <2> QED BY Zenon, <2>2, <2>4, <2>5
<1>2. ASSUME NEW p \in PageIds, \A f \in FramesOf(fd, k) : id_[f] # p
      PROVE  FlushedPage(fd, k, p) = disk[p]
  <2>1. {f \in FramesOf(fd, k) : id_[f] = p} = {}
    BY Zenon, <1>2
  <2> QED BY Zenon, <2>1 DEF FlushedPage
<1> QED BY Zenon, <1>1, <1>2

\* The file covers every page flushed so far.
LEMMA FlushedFilesFacts ==
  ASSUME CoherentInv, NEW fd \in Fds, NEW k \in Nat, FlushedFrames(fd, k)
  PROVE  /\ \A e \in Fds : file_pages'[e] >= file_pages[e]
         /\ \A f \in FramesOf(fd, k) : id_[f].page_no < file_pages'[id_[f].fd]
<1> DEFINE S == {id_[f].page_no + 1 : f \in FramesOf(fd, k)} \cup {file_pages[fd]}
<1>t. file_pages \in [Fds -> 0..MaxPages]
  BY Zenon, CoherentTypes
<1>1. file_pages' = [file_pages EXCEPT ![fd] = Max(S)]
  BY Zenon DEF FlushedFrames
<1>2. ASSUME NEW f \in FramesOf(fd, k)
      PROVE  id_[f].page_no \in 0..(MaxPages - 1) /\ id_[f].fd = fd
  <2>1. id_[f] \in PageIds /\ id_[f].fd = fd
    BY Zenon, CoherentTypes DEF FramesOf
  <2> QED BY Zenon, <2>1, Constants
<1>3. S \subseteq 0..MaxPages /\ file_pages[fd] \in S
  <2>1. \A f \in FramesOf(fd, k) : id_[f].page_no + 1 \in 0..MaxPages
    BY <1>2, Constants, SMTT(30)
  <2>2. file_pages[fd] \in 0..MaxPages
    BY Zenon, <1>t
  <2> QED BY Zenon, <2>1, <2>2
<1>4. \A f \in FramesOf(fd, k) : id_[f].page_no + 1 \in S
  BY Zenon
<1> HIDE DEF S
<1>5. Max(S) \in S /\ \A y \in S : y <= Max(S)
  <2>1. S # {} /\ MaxPages \in Nat
    BY Zenon, <1>3, Constants
  <2> QED BY Zenon, <2>1, <1>3, MaxOfBounded
<1>6. Max(S) \in Int /\ file_pages'[fd] = Max(S)
  <2>1. Max(S) \in 0..MaxPages
    BY Zenon, <1>3, <1>5
  <2>2. file_pages'[fd] = Max(S)
    BY Zenon, <1>1, <1>t
  <2> QED BY <2>1, <2>2, Constants
<1>7. ASSUME NEW e \in Fds PROVE file_pages'[e] >= file_pages[e]
  <2>1. file_pages[e] \in Int
    BY <1>t, Constants
  <2>2. CASE e = fd
    BY Zenon, <2>1, <2>2, <1>3, <1>5, <1>6
  <2>3. CASE e # fd
    BY <2>1, <2>3, <1>1, <1>t, SMTT(30)
  <2> QED BY Zenon, <2>2, <2>3
<1>8. ASSUME NEW f \in FramesOf(fd, k) PROVE id_[f].page_no < file_pages'[id_[f].fd]
  <2>1. id_[f].page_no + 1 <= Max(S) /\ id_[f].page_no \in Int
    BY <1>2, <1>4, <1>5, Constants, SMTT(30)
  <2> QED BY <2>1, <1>2, <1>6, SMTT(30)
<1> QED BY Zenon, <1>7, <1>8

LEMMA FlushAllRefines ==
  ASSUME CoherentInv, SafeInv', NEW fd \in Fds, FlushAllPages(fd)
  PROVE  CoherentInv' /\ StoreStep
<1> DEFINE F == FramesOf(fd, PoolSize)
<1>k. PoolSize \in Nat
  BY Zenon, Constants
<1>a. /\ disk' = [p \in PageIds |-> FlushedPage(fd, PoolSize, p)]
      /\ FlushedFrames(fd, PoolSize)
      /\ is_dirty_' = [f \in Frames |-> is_dirty_[f] /\ f \notin F]
      /\ UNCHANGED <<page_table_, id_, data_, fd2pageno_, handle>>
  BY Zenon DEF FlushAllPages, FlushedFrames
<1>t. \A g \in Frames : id_[g] # NoPage => id_[g] \in PageIds /\ page_table_[id_[g]] = g
  BY Zenon, CoherentTypes
<1>f. /\ \A f \in F : f \in Frames /\ id_[f] # NoPage
      /\ \A f \in F : FlushedPage(fd, PoolSize, id_[f]) = data_[f]
      /\ \A p \in PageIds : (\A f \in F : id_[f] # p) =>
            FlushedPage(fd, PoolSize, p) = disk[p]
  BY Zenon, <1>k, FlushedPageFacts DEF FramesOf
<1>g. /\ \A e \in Fds : file_pages'[e] >= file_pages[e]
      /\ \A f \in F : id_[f].page_no < file_pages'[id_[f].fd]
  BY Zenon, <1>a, <1>k, FlushedFilesFacts
<1> HIDE DEF F
<1>1. \A p \in PageIds : page_table_[p] = NoFrame => disk'[p] = disk[p]
  <2> SUFFICES ASSUME NEW p \in PageIds, page_table_[p] = NoFrame
               PROVE  disk'[p] = disk[p]
    BY Zenon
  <2>1. \A f \in F : id_[f] # p
    BY <1>f, <1>t, Constants, SMTT(30)
  <2> QED BY Zenon, <2>1, <1>a, <1>f
<1>2. ASSUME NEW g \in Frames, id_[g] # NoPage, Clean(g)'
      PROVE  /\ data_[g] = disk'[id_[g]]
             /\ id_[g].page_no < file_pages'[id_[g].fd]
  <2>1. CASE g \in F
    BY Zenon, <2>1, <1>2, <1>a, <1>f, <1>g, <1>t
  <2>2. CASE g \notin F
    <3>1. Clean(g)
      BY Zenon, <1>2, <2>2, <1>a DEF Clean
    <3>2. ASSUME NEW f \in F, id_[f] = id_[g]
          PROVE  FALSE
      <4>1. page_table_[id_[f]] = f
        BY Zenon, <1>f, <1>t
      <4>2. page_table_[id_[g]] = g
        BY Zenon, <1>2, <1>t
      <4> QED BY Zenon, <4>1, <4>2, <3>2, <2>2
    <3>3. disk'[id_[g]] = disk[id_[g]]
      BY Zenon, <3>2, <1>2, <1>a, <1>f, <1>t
    <3> QED BY Zenon, <3>1, <3>3, <1>2, <1>g, CleanStays
  <2> QED BY Zenon, <2>1, <2>2
<1> QED BY Zenon, <1>a, <1>g, <1>1, <1>2, DiskStepRefines

LEMMA FlushAllErrorRefines ==
  ASSUME CoherentInv, SafeInv', NEW fd \in Fds, NEW k \in Frames,
         FlushAllWriteError(fd, k)
  PROVE  CoherentInv' /\ StoreStep
<1> DEFINE F == FramesOf(fd, k)
<1>k. k \in Nat
  BY Zenon, Constants
<1>a. /\ FlushedFrames(fd, k)
      /\ is_dirty_' = [f \in Frames |-> is_dirty_[f] /\ f \notin F]
      /\ UNCHANGED <<page_table_, id_, data_, fd2pageno_, handle>>
      /\ id_[k] # NoPage
  BY Zenon DEF FlushAllWriteError, FlushedFrames, FramesOf
<1>v. PICK v \in TornPages(k, FlushedPage(fd, k, id_[k])) :
        disk' = [p \in PageIds |-> IF p = id_[k] THEN v ELSE FlushedPage(fd, k, p)]
  BY Zenon DEF FlushAllWriteError
<1>t. \A g \in Frames : id_[g] # NoPage => id_[g] \in PageIds /\ page_table_[id_[g]] = g
  BY Zenon, CoherentTypes
<1>f. /\ \A f \in F : f \in Frames /\ id_[f] # NoPage /\ f # k
      /\ \A f \in F : FlushedPage(fd, k, id_[f]) = data_[f]
      /\ \A p \in PageIds : (\A f \in F : id_[f] # p) => FlushedPage(fd, k, p) = disk[p]
  <2>1. \A f \in F : f \in Frames /\ id_[f] # NoPage /\ f < k
    BY Zenon DEF FramesOf
  <2>2. \A f \in F : f # k
    BY <2>1, <1>k
  <2> QED BY Zenon, <1>k, <2>1, <2>2, FlushedPageFacts
<1>g. /\ \A e \in Fds : file_pages'[e] >= file_pages[e]
      /\ \A f \in F : id_[f].page_no < file_pages'[id_[f].fd]
  BY Zenon, <1>a, <1>k, FlushedFilesFacts
<1> HIDE DEF F
<1>1. \A p \in PageIds : page_table_[p] = NoFrame => disk'[p] = disk[p]
  <2> SUFFICES ASSUME NEW p \in PageIds, page_table_[p] = NoFrame
               PROVE  disk'[p] = disk[p]
    BY Zenon
  <2>0. page_table_[p] \notin Frames
    BY Zenon, Constants
  <2>1. (\A f \in F : id_[f] # p) /\ p # id_[k]
    <3>1. ASSUME NEW f \in Frames, id_[f] # NoPage
          PROVE  id_[f] # p
      <4>1. page_table_[id_[f]] \in Frames
        BY Zenon, <3>1, <1>t
      <4> QED BY Zenon, <4>1, <2>0
    <3>2. \A f \in F : id_[f] # p
      BY Zenon, <3>1, <1>f
    <3>3. p # id_[k]
      BY Zenon, <3>1, <1>a
    <3> QED BY Zenon, <3>2, <3>3
  <2> QED BY Zenon, <2>1, <1>v, <1>f
<1>2. ASSUME NEW g \in Frames, id_[g] # NoPage, Clean(g)'
      PROVE  /\ data_[g] = disk'[id_[g]]
             /\ id_[g].page_no < file_pages'[id_[g].fd]
  <2>1. CASE g \in F
    <3>1. id_[g] # id_[k] /\ id_[g] \in PageIds
      <4>1. id_[g] \in PageIds /\ page_table_[id_[g]] = g
        BY Zenon, <1>2, <1>t
      <4>2. page_table_[id_[k]] = k
        BY Zenon, <1>a, <1>t
      <4>3. g # k
        BY Zenon, <2>1, <1>f
      <4> QED BY Zenon, <4>1, <4>2, <4>3
    <3> QED BY Zenon, <3>1, <2>1, <1>v, <1>f, <1>g
  <2>2. CASE g \notin F
    <3>1. Clean(g)
      BY Zenon, <1>2, <2>2, <1>a DEF Clean
    <3>2. ASSUME NEW f \in F, id_[f] = id_[g]
          PROVE  FALSE
      <4>1. page_table_[id_[f]] = f
        BY Zenon, <1>f, <1>t
      <4>2. page_table_[id_[g]] = g
        BY Zenon, <1>2, <1>t
      <4> QED BY Zenon, <4>1, <4>2, <3>2, <2>2
    <3>3. FlushedPage(fd, k, id_[g]) = disk[id_[g]]
      BY Zenon, <3>2, <1>2, <1>f, <1>t
    <3>4. disk'[id_[g]] = disk[id_[g]]
      <4>1. CASE g = k
        <5>1. data_[k] = disk[id_[k]]
          BY Zenon, <4>1, <3>1, <1>a DEF CoherentInv, CleanMatchesDisk
        <5>2. v = disk[id_[k]]
          BY Zenon, <5>1, <4>1, <3>3, <1>v DEF TornPages
        <5> QED BY Zenon, <5>2, <4>1, <1>2, <1>v, <1>t
      <4>2. CASE g # k
        <5>1. id_[g] # id_[k] /\ id_[g] \in PageIds
          BY Zenon, <4>2, <1>2, <1>a, <1>t
        <5> QED BY Zenon, <5>1, <3>3, <1>v
      <4> QED BY Zenon, <4>1, <4>2
    <3> QED BY Zenon, <3>1, <3>4, <1>2, <1>g, CleanStays
  <2> QED BY Zenon, <2>1, <2>2
<1> QED BY Zenon, <1>a, <1>g, <1>1, <1>2, DiskStepRefines

\* Every allocated page that is not cached is on disk, so read_page succeeds.
LEMMA NoReadError ==
  ASSUME CoherentInv, NEW c \in Clients, NEW p \in PageIds
  PROVE  ~FetchReadError(c, p)
<1> SUFFICES ASSUME FetchReadError(c, p) PROVE FALSE
  BY Zenon
<1>1. /\ HasVictim /\ Allocated(p) /\ page_table_[p] = NoFrame
      /\ p.page_no >= FilesAfter(Victim)[p.fd]
  BY Zenon DEF FetchReadError
<1>2. Victim \in Frames /\ \A d \in Clients : handle[d].frame # Victim
  BY Zenon, <1>1, VictimFacts DEF CoherentInv
<1>3. p.fd \in Fds /\ p.page_no \in Int
  BY Constants
<1>4. /\ FilesAfter(Victim)[p.fd] >= file_pages[p.fd]
      /\ FilesAfter(Victim)[p.fd] \in Int /\ file_pages[p.fd] \in Int
  <2>1. /\ FilesAfter(Victim) \in [Fds -> 0..MaxPages]
        /\ \A fd \in Fds : FilesAfter(Victim)[fd] >= file_pages[fd]
    BY Zenon, <1>2, WriteBackFacts
  <2>2. file_pages \in [Fds -> 0..MaxPages] /\ MaxPages \in Nat
    BY Zenon, CoherentTypes, Constants
  <2> QED BY <2>1, <2>2, <1>3
<1>5. p.page_no < file_pages[p.fd]
  BY Zenon, <1>1 DEF CoherentInv, UncachedIsOnDisk
<1> QED BY <1>1, <1>3, <1>4, <1>5, SMTT(30)

-----------------------------------------------------------------------------
LEMMA InitCoherent == Init => CoherentInv
<1> SUFFICES ASSUME Init PROVE CoherentInv
  BY Zenon
<1>1. SafeInv
  BY Zenon, InitSafe
<1>2. FramesMapped /\ CleanMatchesDisk
  BY Zenon DEF Init, FramesMapped, CleanMatchesDisk
<1>3. UncachedIsOnDisk
  <2> SUFFICES ASSUME NEW p \in PageIds, Allocated(p) PROVE FALSE
    BY Zenon DEF UncachedIsOnDisk
  <2>1. p.fd \in Fds /\ p.page_no \in 0..(MaxPages - 1) /\ MaxPages \in Nat
    BY Zenon, Constants
  <2>2. p.page_no < 0
    BY Zenon, <2>1 DEF Init, Allocated
  <2> QED BY <2>1, <2>2
<1> QED BY Zenon, <1>1, <1>2, <1>3 DEF CoherentInv

LEMMA NextCoherent ==
  ASSUME DirtyNewPages, CoherentInv, [Next]_vars
  PROVE  CoherentInv' /\ StoreStep
<1>s. SafeInv'
  BY Zenon, NextSafe DEF CoherentInv
<1>1. ASSUME NEW c \in Clients, NEW p \in PageIds,
             \/ FetchHit(c, p) \/ FetchMiss(c, p)
             \/ FetchReadError(c, p) \/ FetchWriteError(c, p)
      PROVE  CoherentInv' /\ StoreStep
  <2>1. FetchWriteError(c, p) => HasVictim /\ VictimWriteError
    BY Zenon DEF FetchWriteError
  <2>2. ~FetchReadError(c, p)
    BY Zenon, NoReadError
  <2> QED BY Zenon, <1>1, <1>s, <2>1, <2>2, FetchHitRefines, FetchMissRefines,
             VictimWriteErrorRefines
<1>2. ASSUME NEW c \in Clients, NEW fd \in Fds,
             NewPage(c, fd) \/ NewPageWriteError(c, fd)
      PROVE  CoherentInv' /\ StoreStep
  <2>1. NewPageWriteError(c, fd) => HasVictim /\ VictimWriteError
    BY Zenon DEF NewPageWriteError
  <2> QED BY Zenon, <1>2, <1>s, <2>1, NewPageRefines, VictimWriteErrorRefines
<1>3. ASSUME NEW c \in Clients, NEW v \in Values, ClientWrite(c, v)
      PROVE  CoherentInv' /\ StoreStep
  BY Zenon, <1>3, <1>s, ClientWriteRefines
<1>4. ASSUME NEW c \in Clients, NEW is_dirty \in BOOLEAN, UnpinPage(c, is_dirty)
      PROVE  CoherentInv' /\ StoreStep
  BY Zenon, <1>4, <1>s, UnpinRefines
<1>5. ASSUME NEW p \in PageIds, FlushPage(p) \/ FlushWriteError(p) \/ DeletePage(p)
      PROVE  CoherentInv' /\ StoreStep
  BY Zenon, <1>5, <1>s, FlushPageRefines, DeletePageRefines
<1>6. ASSUME NEW fd \in Fds, FlushAllPages(fd)
      PROVE  CoherentInv' /\ StoreStep
  BY Zenon, <1>6, <1>s, FlushAllRefines
<1>7. ASSUME NEW fd \in Fds, NEW k \in Frames, FlushAllWriteError(fd, k)
      PROVE  CoherentInv' /\ StoreStep
  BY Zenon, <1>7, <1>s, FlushAllErrorRefines
<1>8. CASE UNCHANGED vars
  BY Zenon, <1>8, <1>s DEF vars, page_vars, disk_vars, CoherentInv,
     FramesMapped,
     CleanMatchesDisk, Clean, UncachedIsOnDisk, Allocated, StoreStep, CurrentPage, Held
<1> QED BY Zenon, <1>1, <1>2, <1>3, <1>4, <1>5, <1>6, <1>7, <1>8 DEF Next

\* The comment of fetch_page holds when new pages are unpinned dirty: an
\* allocated page that is not cached lies within its file on disk.
THEOREM UncachedPagesOnDisk ==
  ASSUME DirtyNewPages
  PROVE  Spec => []UncachedIsOnDisk
<1>1. CoherentInv /\ [Next]_vars => CoherentInv'
  BY Zenon, NextCoherent
<1>2. CoherentInv => UncachedIsOnDisk
  BY Zenon DEF CoherentInv
<1>3. Init => CoherentInv
  BY Zenon, InitCoherent
<1> QED BY <1>1, <1>2, <1>3, PTL DEF Spec

-----------------------------------------------------------------------------
\* Lists and pin counts after a step that gives away the victim.
LEMMA InstallKeepsFrames ==
  ASSUME CoherentInv, NoFrameLost, HasVictim, NEW c, NEW p, NEW v, NEW owes,
         Install(c, Victim, p, v, owes)
  PROVE  NoFrameLost'
<1> DEFINE f == Victim
<1>1. /\ f \in Frames /\ Range(FreeAfter) = Range(free_list_) \ {f}
      /\ LRUAfter \in Seq(Frames) /\ IsInjective(LRUAfter)
      /\ Range(LRUlist_) \subseteq Range(LRUAfter) \cup {f}
  BY Zenon, VictimFacts DEF CoherentInv
<1>2. /\ free_list_' = FreeAfter /\ LRUlist_' = AfterPin(LRUAfter, f)
      /\ pin_count_' = [pin_count_ EXCEPT ![f] = 1]
  BY Zenon DEF Install
<1>3. pin_count_ \in [Frames -> Nat]
  BY Zenon DEF CoherentInv, SafeInv, TypeOK
<1> HIDE DEF f
<1>4. Range(LRUlist_') = Range(LRUAfter) \ {f}
  BY <1>1, <1>2, AfterPinProperties
<1> QED BY <1>1, <1>2, <1>3, <1>4 DEF NoFrameLost

LEMMA UnpinKeepsFrames ==
  ASSUME CoherentInv, NoFrameLost, NEW c \in Clients, NEW is_dirty, UnpinPage(c, is_dirty)
  PROVE  NoFrameLost'
<1> DEFINE f == page_table_[handle[c].page]
<1>a. /\ handle[c] # NoHandle /\ f # NoFrame
      /\ pin_count_' = [pin_count_ EXCEPT ![f] = @ - 1]
      /\ LRUlist_' = IF pin_count_[f] = 1
                     THEN AfterUnpin(LRUlist_, f, PoolSize) ELSE LRUlist_
      /\ free_list_' = free_list_
  BY Zenon DEF UnpinPage
<1>t. /\ pin_count_ \in [Frames -> Nat] /\ LRUlist_ \in Seq(Frames)
      /\ IsInjective(LRUlist_)
  BY Zenon DEF CoherentInv, SafeInv, TypeOK, ListsInjective
<1>f. f \in Frames /\ f \notin Range(LRUlist_)
  BY Zenon, <1>a, CoherentTypes DEF CoherentInv, SafeInv, HandlesPoint,
     HeldPagesStay
<1> HIDE DEF f
<1>1. Len(LRUlist_) < PoolSize
  <2>1. IsFiniteSet(Frames) /\ Cardinality(Frames) = PoolSize
    BY Zenon, Constants
  <2> QED BY Zenon, <2>1, <1>t, <1>f, InjectiveLength
<1>2. Range(PushFront(f, LRUlist_)) = Range(LRUlist_) \cup {f}
  BY <1>t, <1>f, PushFrontProperties, SMTT(30)
<1>3. AfterUnpin(LRUlist_, f, PoolSize) = PushFront(f, LRUlist_)
  <2>1. ~(Len(LRUlist_) >= PoolSize)
    BY <1>1, <1>t, Constants
  <2> QED BY Zenon, <2>1, <1>f DEF AfterUnpin
<1>4. ASSUME NEW g \in Frames, pin_count_'[g] = 0
      PROVE  g \in Range(free_list_') \cup Range(LRUlist_')
  <2>1. CASE g = f
    <3>1. pin_count_[f] = 1
      BY <1>4, <2>1, <1>a, <1>t, <1>f
    <3> QED BY Zenon, <3>1, <2>1, <1>a, <1>2, <1>3
  <2>2. CASE g # f
    <3>1. g \in Range(free_list_) \cup Range(LRUlist_)
      BY Zenon, <1>4, <2>2, <1>a, <1>t DEF NoFrameLost
    <3> QED BY Zenon, <3>1, <1>a, <1>2, <1>3
  <2> QED BY Zenon, <2>1, <2>2
<1> QED BY Zenon, <1>4 DEF NoFrameLost

\* With dirty new pages and a disk that accepts every write, an unpinned frame
\* is always available: fetch_page and new_page return nullptr only when every
\* frame is pinned, and the replacer never refuses the frame unpin_page offers.
THEOREM FramesNeverLost ==
  ASSUME DirtyNewPages, ~WriteFaults
  PROVE  Spec => []NoFrameLost
<1>1. Init => CoherentInv /\ NoFrameLost
  <2> SUFFICES ASSUME Init PROVE NoFrameLost
    BY Zenon, InitCoherent
  <2> DEFINE l == [i \in 1..PoolSize |-> i - 1]
  <2>1. l \in Seq(Frames) /\ Len(l) = PoolSize /\ \A i \in 1..PoolSize : l[i] = i - 1
    BY Constants
  <2>2. free_list_ = l
    BY Zenon DEF Init
  <2> HIDE DEF l
  <2>3. ASSUME NEW f \in Frames PROVE f \in Range(l)
    <3>1. f + 1 \in 1..PoolSize /\ (f + 1) - 1 = f
      BY Constants
    <3>2. l[f + 1] = f
      BY Zenon, <3>1, <2>1
    <3> QED BY <3>1, <3>2, <2>1, SeqValues
  <2> QED BY Zenon, <2>2, <2>3 DEF NoFrameLost
<1>2. CoherentInv /\ NoFrameLost /\ [Next]_vars => CoherentInv' /\ NoFrameLost'
  <2> SUFFICES ASSUME CoherentInv, NoFrameLost, [Next]_vars PROVE NoFrameLost'
    BY Zenon, NextCoherent
  <2>v. HasVictim => ~VictimWriteError
    BY Zenon DEF VictimWriteError, FailedWrite
  <2>1. ASSUME NEW c \in Clients, NEW p \in PageIds, FetchHit(c, p)
        PROVE  NoFrameLost'
    <3> DEFINE f == page_table_[p]
    <3>1. /\ f \in Frames /\ pin_count_ \in [Frames -> Nat]
          /\ LRUlist_ \in Seq(Frames) /\ IsInjective(LRUlist_)
      BY Zenon, <2>1, CoherentTypes DEF FetchHit, CoherentInv, SafeInv,
         TypeOK, ListsInjective
    <3>2. /\ pin_count_' = [pin_count_ EXCEPT ![f] = @ + 1]
          /\ LRUlist_' = AfterPin(LRUlist_, f) /\ free_list_' = free_list_
      BY Zenon, <2>1 DEF FetchHit
    <3> HIDE DEF f
    <3>3. Range(LRUlist_') = Range(LRUlist_) \ {f}
      BY Zenon, <3>1, <3>2, AfterPinProperties
    <3> QED BY <3>1, <3>2, <3>3 DEF NoFrameLost
  <2>2. ASSUME NEW c \in Clients, NEW p \in PageIds,
               FetchMiss(c, p) \/ FetchReadError(c, p) \/ FetchWriteError(c, p)
        PROVE  NoFrameLost'
    <3>1. FetchMiss(c, p)
      BY Zenon, <2>2, <2>v, NoReadError DEF FetchWriteError
    <3> QED BY Zenon, <3>1, InstallKeepsFrames DEF FetchMiss
  <2>3. ASSUME NEW c \in Clients, NEW fd \in Fds,
               NewPage(c, fd) \/ NewPageWriteError(c, fd)
        PROVE  NoFrameLost'
    <3>1. NewPage(c, fd)
      BY Zenon, <2>3, <2>v DEF NewPageWriteError
    <3> QED BY Zenon, <3>1, InstallKeepsFrames DEF NewPage
  <2>4. ASSUME NEW c \in Clients, NEW v \in Values, ClientWrite(c, v)
        PROVE  NoFrameLost'
    BY Zenon, <2>4 DEF ClientWrite, NoFrameLost
  <2>5. ASSUME NEW c \in Clients, NEW is_dirty \in BOOLEAN, UnpinPage(c, is_dirty)
        PROVE  NoFrameLost'
    BY Zenon, <2>5, UnpinKeepsFrames
  <2>6. ASSUME NEW p \in PageIds, FlushPage(p) \/ FlushWriteError(p) PROVE NoFrameLost'
    BY Zenon, <2>6 DEF FlushPage, FlushWriteError, page_vars, NoFrameLost
  <2>7. ASSUME NEW p \in PageIds, DeletePage(p) PROVE NoFrameLost'
    <3> DEFINE f == page_table_[p]
    <3>1. /\ f \in Frames /\ f \notin Range(free_list_) /\ free_list_ \in Seq(Frames)
          /\ IsInjective(free_list_)
      <4>1. f # NoFrame /\ page_table_ \in [PageIds -> Frames \cup {NoFrame}]
        BY Zenon, <2>7 DEF DeletePage, CoherentInv, SafeInv, TypeOK
      <4>2. f \in Frames /\ id_[f] = p /\ \A g \in Range(free_list_) : id_[g] = NoPage
        BY Zenon, <4>1 DEF CoherentInv, SafeInv, TableMatchesFrames
      <4>3. free_list_ \in Seq(Frames) /\ IsInjective(free_list_)
        BY Zenon DEF CoherentInv, SafeInv, TypeOK, ListsInjective
      <4> QED BY Zenon, <4>2, <4>3, Constants
    <3>2. /\ free_list_' = Append(free_list_, f)
          /\ LRUlist_' = LRUlist_ /\ pin_count_' = pin_count_
      BY Zenon, <2>7 DEF DeletePage
    <3> HIDE DEF f
    <3>3. Range(free_list_') = Range(free_list_) \cup {f}
      BY <3>1, <3>2, AppendNewProperties
    <3> QED BY Zenon, <3>2, <3>3 DEF NoFrameLost
  <2>8. ASSUME NEW fd \in Fds,
               FlushAllPages(fd) \/ \E k \in Frames : FlushAllWriteError(fd, k)
        PROVE  NoFrameLost'
    BY Zenon, <2>8 DEF FlushAllPages, FlushAllWriteError, FlushedFrames,
       NoFrameLost
  <2>9. CASE UNCHANGED vars
    BY Zenon, <2>9 DEF vars, page_vars, NoFrameLost
  <2> QED BY Zenon, <2>1, <2>2, <2>3, <2>4, <2>5, <2>6, <2>7, <2>8,
             <2>9 DEF Next
<1> QED BY <1>1, <1>2, PTL DEF Spec

-----------------------------------------------------------------------------
(* These steps are those of PageStore under the refinement mapping.        *)

LEMMA SameNames ==
  /\ Pages!PageIds = PageIds /\ Pages!NoPage = NoPage
  /\ [c \in Clients |-> handle[c].page] = Held
BY Zenon DEF Pages!PageIds, PageIds, Pages!NoPage, NoPage, Held

LEMMA StoreStepMaps ==
  ASSUME StoreStep
  PROVE  [Pages!Next]_(Pages!vars)
<1>1. ASSUME NEW c \in Clients, NEW p \in PageIds, Acquires(c, p)
      PROVE  Pages!Next
  <2>1. Pages!Acquire(c, p)
    BY Zenon, <1>1 DEF Acquires, Allocated, Held, NoPage, Pages!Acquire,
       Pages!NoPage
  <2> QED BY Zenon, <2>1, SameNames DEF Pages!Next
<1>2. ASSUME NEW c \in Clients, NEW fd \in Fds, Allocates(c, fd)
      PROVE  Pages!Next
  <2>1. Pages!Allocate(c, fd)
    BY Zenon, <1>2 DEF Allocates, Held, NoPage, Pages!Allocate, Pages!NoPage
  <2> QED BY Zenon, <2>1 DEF Pages!Next
<1>3. ASSUME NEW c \in Clients, NEW v \in Values, Writes(c, v)
      PROVE  Pages!Next
  <2>1. Pages!Write(c, v)
    BY Zenon, <1>3 DEF Writes, Held, NoPage, Pages!Write, Pages!NoPage
  <2> QED BY Zenon, <2>1 DEF Pages!Next
<1>4. ASSUME NEW c \in Clients, Releases(c)
      PROVE  Pages!Next
  <2>1. Pages!Release(c)
    BY Zenon, <1>4 DEF Releases, Held, NoPage, Pages!Release, Pages!NoPage
  <2> QED BY Zenon, <2>1 DEF Pages!Next
<1>5. CASE UNCHANGED <<CurrentPage, fd2pageno_, Held>>
  BY Zenon, <1>5 DEF Held, Pages!vars
<1> QED BY Zenon, <1>1, <1>2, <1>3, <1>4, <1>5 DEF StoreStep

LEMMA InitMaps == Init => Pages!Init
<1> SUFFICES ASSUME Init PROVE Pages!Init
  BY Zenon
<1>1. CurrentPage = [p \in PageIds |-> Zero]
  BY Zenon DEF Init, CurrentPage
<1>2. [c \in Clients |-> handle[c].page] = [c \in Clients |-> NoPage]
  BY Zenon, Constants DEF Init
<1> QED BY Zenon, <1>1, <1>2 DEF Init, Pages!Init, Pages!PageIds,
           Pages!NoPage, PageIds, NoPage

\* The buffer pool is a page store that never forgets: eviction, write-back,
\* flushing, deletion and failing writes are invisible to the clients.
THEOREM PoolImplementsPageStore ==
  ASSUME DirtyNewPages
  PROVE  Spec => ImplementsPageStore
<1>1. CoherentInv /\ [Next]_vars => CoherentInv'
  BY Zenon, NextCoherent
<1>2. CoherentInv /\ [Next]_vars => [Pages!Next]_(Pages!vars)
  BY Zenon, NextCoherent, StoreStepMaps
<1>3. Init => CoherentInv /\ Pages!Init
  BY Zenon, InitCoherent, InitMaps
<1> QED BY <1>1, <1>2, <1>3, PTL DEF Spec, ImplementsPageStore, Pages!Spec
=============================================================================
