---------------------------- MODULE LRUReplacer ----------------------------
(***************************************************************************)
(* src/src/replacer/lru_replacer.{h,cpp}.  Every operation runs under      *)
(* latch_, so each is one action whatever thread calls it.                 *)
(*                                                                         *)
(* LRUhash_ maps a frame to its node in LRUlist_.  A node is identified by *)
(* the frame it holds, so the map is represented by its set of keys; that  *)
(* the iterators are valid is HashMatchesList.                             *)
(***************************************************************************)
EXTENDS LRUList, FiniteSets

CONSTANTS Frames,      \* frame ids the callers use
          max_size_,   \* the capacity given to the constructor
          MaxOps       \* bound on the ghost clock

ASSUME ReplacerAssumption == max_size_ \in Nat /\ MaxOps \in Nat

VARIABLES LRUlist_, LRUhash_,
          now,         \* ghost: number of calls so far
          since        \* ghost: call at which a frame last became evictable

vars == <<LRUlist_, LRUhash_, now, since>>

Init ==
    /\ LRUlist_ = <<>>
    /\ LRUhash_ = {}
    /\ now = 0
    /\ since = [f \in Frames |-> 0]

Tick == now < MaxOps /\ now' = now + 1

\* victim(): false (nothing changes) when the list is empty.
victim ==
    /\ LRUlist_ # <<>>
    /\ LRUlist_' = AfterVictim(LRUlist_)
    /\ LRUhash_' = LRUhash_ \ {VictimFrame(LRUlist_)}
    /\ Tick /\ UNCHANGED since

pin(f) ==
    /\ IF f \in LRUhash_
         THEN /\ LRUlist_' = AfterPin(LRUlist_, f)
              /\ LRUhash_' = LRUhash_ \ {f}
         ELSE UNCHANGED <<LRUlist_, LRUhash_>>
    /\ Tick /\ UNCHANGED since

unpin(f) ==
    /\ IF f \in LRUhash_ \/ Len(LRUlist_) >= max_size_
         THEN UNCHANGED <<LRUlist_, LRUhash_, since>>
         ELSE /\ LRUlist_' = AfterUnpin(LRUlist_, f, max_size_)
              /\ LRUhash_' = LRUhash_ \cup {f}
              /\ since' = [since EXCEPT ![f] = now + 1]
    /\ Tick

Next == victim \/ \E f \in Frames : pin(f) \/ unpin(f)

Spec == Init /\ [][Next]_vars

-----------------------------------------------------------------------------
\* The list and the map hold frame ids, and the ghosts are call numbers.
TypeOK ==
    /\ LRUlist_ \in Seq(Frames)
    /\ LRUhash_ \subseteq Frames
    /\ now \in 0..MaxOps
    /\ since \in [Frames -> 0..MaxOps]

\* The hash map knows exactly the listed frames, each listed once, so every
\* iterator it holds is valid: pin() never erases through a dangling iterator
\* and unpin() never lists a frame a second time.
HashMatchesList ==
    /\ Range(LRUlist_) = LRUhash_
    /\ IsInjective(LRUlist_)

\* The list is ordered by how long its frames have been evictable, so the
\* frame victim() takes from the back is the least recently unpinned one,
\* whatever pins in the middle of the list and repeated unpins came before.
VictimIsLeastRecent ==
    \A i, j \in 1..Len(LRUlist_) :
        i < j => since[LRUlist_[i]] > since[LRUlist_[j]]
=============================================================================
