------------------------------ MODULE LRUList ------------------------------
(***************************************************************************)
(* What the three operations of src/src/replacer/lru_replacer.cpp do to    *)
(* LRUlist_.  The list is a sequence, front first: unpin() pushes at the   *)
(* front, victim() takes from the back, pin() erases wherever the frame    *)
(* stands.  LRUReplacer adds the hash map; BufferPool uses these operators *)
(* inside its own latched operations.                                      *)
(***************************************************************************)
EXTENDS Sequences, FiniteSetsExt

\* std::list::push_front, and erase of the node at position i.
PushFront(f, l) == <<f>> \o l
Erase(l, i) == SubSeq(l, 1, i - 1) \o SubSeq(l, i + 1, Len(l))

\* The place of frame f in list l: what the iterator stored in LRUhash_ denotes.
PositionOf(l, f) == CHOOSE i \in 1..Len(l) : l[i] = f

\* LRUReplacer::victim on a non-empty list: the frame it returns (back) ...
VictimFrame(l) == l[Len(l)]

\* ... and the list it leaves (pop_back).
AfterVictim(l) == SubSeq(l, 1, Len(l) - 1)

\* Faulty variants, each a slip this code could have had; the runs use them to
\* show that their properties can fail.
AfterPinFront(l, f) == IF f \in Range(l) THEN Tail(l) ELSE l

\* LRUReplacer::pin: erase f when it is listed, otherwise nothing.
AfterPin(l, f) ==
    IF f \in Range(l) THEN Erase(l, PositionOf(l, f)) ELSE l

AfterUnpinEarlyFull(l, f, max_size_) ==
    IF f \in Range(l) \/ Len(l) >= max_size_ - 1 THEN l ELSE PushFront(f, l)

AfterUnpinBack(l, f, max_size_) ==
    IF f \in Range(l) \/ Len(l) >= max_size_ THEN l ELSE Append(l, f)

\* LRUReplacer::unpin: a listed frame keeps its place, a full list drops the
\* request, otherwise f becomes the most recent entry.
AfterUnpin(l, f, max_size_) ==
    IF f \in Range(l) \/ Len(l) >= max_size_ THEN l ELSE PushFront(f, l)
=============================================================================
