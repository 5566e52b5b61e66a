----------------------------- MODULE BufferPool -----------------------------
(***************************************************************************)
(* src/src/storage/buffer_pool_manager.{h,cpp} with the part of            *)
(* disk_manager.cpp it calls and its LRU replacer, under any number of     *)
(* concurrent clients.  Every BufferPoolManager operation holds latch_     *)
(* from its first to its last statement, so each is one action; a client   *)
(* changes the bytes of a page it holds without any latch (ClientWrite).   *)
(*                                                                         *)
(* A call that returns nullptr or false leaves the pool as it was: it is a *)
(* stuttering step, and its condition is the negation of a guard below.    *)
(*                                                                         *)
(* Definitions without a comment that precede a commented one of the same  *)
(* parameters are faulty variants of it (TableKeepingOld, ...): slips the  *)
(* code could have had, used to show that a property can fail.  Next never *)
(* uses them.                                                              *)
(***************************************************************************)
EXTENDS LRUList, FiniteSets

CONSTANTS Clients,        \* outstanding Page* pointers of the callers
          Fds,            \* open files
          MaxPages,       \* bound on the number of pages of a file
          Values,         \* page contents told apart
          Zero,           \* the contents of a zero-filled page
          PoolSize,       \* pool_size_
          DirtyNewPages,  \* callers unpin a page they got from new_page dirty
          WriteFaults     \* write_page may fail, having written anything

ASSUME PoolAssumption ==
    /\ IsFiniteSet(Clients)
    /\ Fds \subseteq Nat
    /\ MaxPages \in Nat
    /\ PoolSize \in Nat \ {0}
    /\ Zero \in Values
    /\ DirtyNewPages \in BOOLEAN
    /\ WriteFaults \in BOOLEAN

PageIds == [fd : Fds, page_no : 0..(MaxPages - 1)]
NoPage  == [fd |-> -1, page_no |-> -1]     \* page_no = INVALID_PAGE_ID
Frames  == 0..(PoolSize - 1)
NoFrame == -1

Handles  == [page : PageIds \cup {NoPage}, frame : Frames \cup {NoFrame},
             dirty : BOOLEAN]
NoHandle == [page |-> NoPage, frame |-> NoFrame, dirty |-> FALSE]

VARIABLES
    page_table_,   \* PageId -> frame, NoFrame when the page is not cached
    id_, data_, is_dirty_, pin_count_,   \* the fields of Page, by frame
    free_list_,    \* unused frames, front first
    LRUlist_,      \* evictable frames, most recent first
    disk,          \* the files' contents; a hole reads as zeroes
    file_pages,    \* the files' lengths, in pages
    fd2pageno_,    \* next page number to hand out, per file
    handle         \* what a client holds: the page, where it points, and
                   \* whether it owes an unpin with is_dirty = true

page_vars == <<id_, data_, is_dirty_, pin_count_>>
disk_vars == <<disk, file_pages>>
vars == <<page_table_, page_vars, free_list_, LRUlist_, disk_vars,
          fd2pageno_, handle>>

Init ==
    /\ page_table_ = [p \in PageIds |-> NoFrame]
    /\ id_ = [f \in Frames |-> NoPage]
    /\ data_ = [f \in Frames |-> Zero]
    /\ is_dirty_ = [f \in Frames |-> FALSE]
    /\ pin_count_ = [f \in Frames |-> 0]
    /\ free_list_ = [i \in 1..PoolSize |-> i - 1]
    /\ LRUlist_ = <<>>
    /\ disk = [p \in PageIds |-> Zero]
    /\ file_pages = [fd \in Fds |-> 0]
    /\ fd2pageno_ = [fd \in Fds |-> 0]
    /\ handle = [c \in Clients |-> NoHandle]

-----------------------------------------------------------------------------
(* find_victim_page: a free frame if there is one, else the LRU victim.    *)

HasVictim == free_list_ # <<>> \/ LRUlist_ # <<>>

Victim == IF free_list_ # <<>> THEN Head(free_list_) ELSE VictimFrame(LRUlist_)

FreeAfter == IF free_list_ # <<>> THEN Tail(free_list_) ELSE free_list_

LRUAfter == IF free_list_ # <<>> THEN LRUlist_ ELSE AfterVictim(LRUlist_)

(* DiskManager::write_page of frame f, done only when it is dirty.         *)

DiskAfter(f) ==
    IF is_dirty_[f] THEN [disk EXCEPT ![id_[f]] = data_[f]] ELSE disk

Longer(n, p) == IF n > p.page_no THEN n ELSE p.page_no + 1

FilesAfter(f) ==
    IF is_dirty_[f]
    THEN [file_pages EXCEPT ![id_[f].fd] = Longer(@, id_[f])]
    ELSE file_pages

(* A failing write_page(p) of frame f throws.  It may have replaced some   *)
(* of the bytes on disk, d, which shows only where the two differ; the     *)
(* file is not known to have grown.                                        *)
TornPages(f, d) == IF d = data_[f] THEN {d} ELSE Values

FailedWrite(f, p) ==
    /\ WriteFaults
    /\ \E v \in TornPages(f, disk[p]) : disk' = [disk EXCEPT ![p] = v]
    /\ UNCHANGED file_pages

TableKeepingOld(f) == page_table_

(* page_table_ once frame f has given up its page.                         *)
TableWithout(f) ==
    [p \in PageIds |-> IF p = id_[f] THEN NoFrame ELSE page_table_[p]]

(* Frame f, already written back, becomes page p with contents v, pinned   *)
(* once and handed to client c.                                            *)
Install(c, f, p, v, owes) ==
    /\ page_table_' = [TableWithout(f) EXCEPT ![p] = f]
    /\ id_' = [id_ EXCEPT ![f] = p]
    /\ data_' = [data_ EXCEPT ![f] = v]
    /\ is_dirty_' = [is_dirty_ EXCEPT ![f] = FALSE]
    /\ pin_count_' = [pin_count_ EXCEPT ![f] = 1]
    /\ free_list_' = FreeAfter
    /\ LRUlist_' = AfterPin(LRUAfter, f)
    /\ handle' = [handle EXCEPT ![c] = [page |-> p, frame |-> f, dirty |-> owes]]

(* The write-back of the victim throws: the frame has left its list, its   *)
(* page stays cached and dirty.                                            *)
VictimWriteError ==
    /\ is_dirty_[Victim]
    /\ FailedWrite(Victim, id_[Victim])
    /\ free_list_' = FreeAfter
    /\ LRUlist_' = LRUAfter
    /\ UNCHANGED <<page_table_, page_vars, fd2pageno_, handle>>

-----------------------------------------------------------------------------
Allocated(p) == p.page_no < fd2pageno_[p.fd]

FetchHitStillEvictable(c, p) ==
    LET f == page_table_[p] IN
    /\ handle[c] = NoHandle
    /\ f # NoFrame
    /\ pin_count_' = [pin_count_ EXCEPT ![f] = @ + 1]
    /\ handle' = [handle EXCEPT ![c] = [page |-> p, frame |-> f, dirty |-> FALSE]]
    /\ UNCHANGED <<page_table_, id_, data_, is_dirty_, free_list_, LRUlist_,
                   disk_vars, fd2pageno_>>

(* fetch_page, page cached: pin it where it is.                            *)
FetchHit(c, p) ==
    LET f == page_table_[p] IN
    /\ handle[c] = NoHandle
    /\ f # NoFrame
    /\ pin_count_' = [pin_count_ EXCEPT ![f] = @ + 1]
    /\ LRUlist_' = AfterPin(LRUlist_, f)
    /\ handle' = [handle EXCEPT ![c] = [page |-> p, frame |-> f, dirty |-> FALSE]]
    /\ UNCHANGED <<page_table_, id_, data_, is_dirty_, free_list_, disk_vars,
                   fd2pageno_>>

(* fetch_page, page not cached: evict, write back, read, install.          *)
FetchMiss(c, p) ==
    LET f == Victim IN
    /\ handle[c] = NoHandle
    /\ Allocated(p) /\ page_table_[p] = NoFrame
    /\ HasVictim
    /\ p.page_no < FilesAfter(f)[p.fd]
    /\ disk' = DiskAfter(f)
    /\ file_pages' = FilesAfter(f)
    /\ Install(c, f, p, DiskAfter(f)[p], FALSE)
    /\ UNCHANGED fd2pageno_

(* fetch_page when read_page throws (the page lies beyond the end of the   *)
(* file): the victim has left its list and lost its page, but the frame    *)
(* still carries the old PageId and contents.                              *)
FetchReadError(c, p) ==
    LET f == Victim IN
    /\ handle[c] = NoHandle
    /\ Allocated(p) /\ page_table_[p] = NoFrame
    /\ HasVictim
    /\ p.page_no >= FilesAfter(f)[p.fd]
    /\ disk' = DiskAfter(f)
    /\ file_pages' = FilesAfter(f)
    /\ is_dirty_' = [is_dirty_ EXCEPT ![f] = FALSE]
    /\ page_table_' = TableWithout(f)
    /\ free_list_' = FreeAfter
    /\ LRUlist_' = LRUAfter
    /\ UNCHANGED <<id_, data_, pin_count_, fd2pageno_, handle>>

FetchWriteError(c, p) ==
    /\ handle[c] = NoHandle
    /\ Allocated(p) /\ page_table_[p] = NoFrame
    /\ HasVictim
    /\ VictimWriteError

(* new_page: evict, write back, allocate the next page number, zero-fill.  *)
NewPage(c, fd) ==
    LET f == Victim
        p == [fd |-> fd, page_no |-> fd2pageno_[fd]] IN
    /\ handle[c] = NoHandle
    /\ fd2pageno_[fd] < MaxPages
    /\ HasVictim
    /\ disk' = DiskAfter(f)
    /\ file_pages' = FilesAfter(f)
    /\ fd2pageno_' = [fd2pageno_ EXCEPT ![fd] = @ + 1]
    /\ Install(c, f, p, Zero, DirtyNewPages)

NewPageWriteError(c, fd) ==
    /\ handle[c] = NoHandle
    /\ fd2pageno_[fd] < MaxPages
    /\ HasVictim
    /\ VictimWriteError

(* The client changes the page through its pointer and from then on owes   *)
(* an unpin with is_dirty = true.                                          *)
ClientWrite(c, v) ==
    /\ handle[c] # NoHandle
    /\ data_' = [data_ EXCEPT ![handle[c].frame] = v]
    /\ handle' = [handle EXCEPT ![c].dirty = TRUE]
    /\ UNCHANGED <<page_table_, id_, is_dirty_, pin_count_, free_list_,
                   LRUlist_, disk_vars, fd2pageno_>>

UnpinOverwritingDirty(c, is_dirty) ==
    LET f == page_table_[handle[c].page] IN
    /\ handle[c] # NoHandle
    /\ handle[c].dirty => is_dirty
    /\ f # NoFrame /\ pin_count_[f] > 0
    /\ pin_count_' = [pin_count_ EXCEPT ![f] = @ - 1]
    /\ LRUlist_' = IF pin_count_[f] = 1
                   THEN AfterUnpin(LRUlist_, f, PoolSize) ELSE LRUlist_
    /\ is_dirty_' = [is_dirty_ EXCEPT ![f] = is_dirty]
    /\ handle' = [handle EXCEPT ![c] = NoHandle]
    /\ UNCHANGED <<page_table_, id_, data_, free_list_, disk_vars, fd2pageno_>>

(* unpin_page(p, is_dirty) by a client that holds p.                       *)
UnpinPage(c, is_dirty) ==
    LET f == page_table_[handle[c].page] IN
    /\ handle[c] # NoHandle
    /\ handle[c].dirty => is_dirty
    /\ f # NoFrame /\ pin_count_[f] > 0
    /\ pin_count_' = [pin_count_ EXCEPT ![f] = @ - 1]
    /\ LRUlist_' = IF pin_count_[f] = 1
                   THEN AfterUnpin(LRUlist_, f, PoolSize) ELSE LRUlist_
    /\ is_dirty_' = [is_dirty_ EXCEPT ![f] = @ \/ is_dirty]
    /\ handle' = [handle EXCEPT ![c] = NoHandle]
    /\ UNCHANGED <<page_table_, id_, data_, free_list_, disk_vars, fd2pageno_>>

(* flush_page: write the cached page, pinned or not, dirty or not.         *)
FlushPage(p) ==
    LET f == page_table_[p] IN
    /\ f # NoFrame
    /\ disk' = [disk EXCEPT ![p] = data_[f]]
    /\ file_pages' = [file_pages EXCEPT ![p.fd] = Longer(@, p)]
    /\ is_dirty_' = [is_dirty_ EXCEPT ![f] = FALSE]
    /\ UNCHANGED <<page_table_, id_, data_, pin_count_, free_list_, LRUlist_,
                   fd2pageno_, handle>>

(* flush_page and delete_page throw out of write_page with the pool as it  *)
(* was; delete_page writes only a dirty page nobody has pinned.            *)
FlushWriteError(p) ==
    /\ page_table_[p] # NoFrame
    /\ FailedWrite(page_table_[p], p)
    /\ UNCHANGED <<page_table_, page_vars, free_list_, LRUlist_, fd2pageno_,
                   handle>>

DeleteWithoutWriteBack(p) ==
    LET f == page_table_[p] IN
    /\ f # NoFrame
    /\ pin_count_[f] = 0
    /\ page_table_' = [page_table_ EXCEPT ![p] = NoFrame]
    /\ id_' = [id_ EXCEPT ![f] = NoPage]
    /\ data_' = [data_ EXCEPT ![f] = Zero]
    /\ is_dirty_' = [is_dirty_ EXCEPT ![f] = FALSE]
    /\ free_list_' = Append(free_list_, f)
    /\ UNCHANGED <<pin_count_, LRUlist_, disk_vars, fd2pageno_, handle>>

(* delete_page: write back, forget the page, return the frame to the free  *)
(* list.  The frame also stays in the replacer's list.                     *)
DeletePage(p) ==
    LET f == page_table_[p] IN
    /\ f # NoFrame
    /\ pin_count_[f] = 0
    /\ disk' = DiskAfter(f)
    /\ file_pages' = FilesAfter(f)
    /\ page_table_' = [page_table_ EXCEPT ![p] = NoFrame]
    /\ id_' = [id_ EXCEPT ![f] = NoPage]
    /\ data_' = [data_ EXCEPT ![f] = Zero]
    /\ is_dirty_' = [is_dirty_ EXCEPT ![f] = FALSE]
    /\ free_list_' = Append(free_list_, f)
    /\ UNCHANGED <<pin_count_, LRUlist_, fd2pageno_, handle>>

(* The frames below index k that belong to file fd.                        *)
FramesOf(fd, k) == {f \in Frames : f < k /\ id_[f] # NoPage /\ id_[f].fd = fd}

(* Page p on disk once flush_all_pages(fd) has passed frames 0..k-1 in     *)
(* index order: of two frames carrying the same PageId the later one wins. *)
FlushedPage(fd, k, p) ==
    LET S == {f \in FramesOf(fd, k) : id_[f] = p} IN
    IF S = {} THEN disk[p] ELSE data_[Max(S)]

(* What else those k iterations change.                                    *)
FlushedFrames(fd, k) ==
    /\ file_pages' =
         LET S == {id_[f].page_no + 1 : f \in FramesOf(fd, k)} IN
         [file_pages EXCEPT ![fd] = Max(S \cup {@})]
    /\ is_dirty_' = [f \in Frames |-> is_dirty_[f] /\ f \notin FramesOf(fd, k)]
    /\ UNCHANGED <<page_table_, id_, data_, pin_count_, free_list_, LRUlist_,
                   fd2pageno_, handle>>

FlushAllPages(fd) ==
    /\ disk' = [p \in PageIds |-> FlushedPage(fd, PoolSize, p)]
    /\ FlushedFrames(fd, PoolSize)

(* flush_all_pages when the write of frame k throws.                       *)
FlushAllWriteError(fd, k) ==
    /\ WriteFaults
    /\ k \in FramesOf(fd, PoolSize)
    /\ \E v \in TornPages(k, FlushedPage(fd, k, id_[k])) :
          disk' = [p \in PageIds |->
                      IF p = id_[k] THEN v ELSE FlushedPage(fd, k, p)]
    /\ FlushedFrames(fd, k)

Next ==
    \/ \E c \in Clients :
          \/ \E p \in PageIds : \/ FetchHit(c, p)
                                \/ FetchMiss(c, p)
                                \/ FetchReadError(c, p)
                                \/ FetchWriteError(c, p)
          \/ \E fd \in Fds : NewPage(c, fd) \/ NewPageWriteError(c, fd)
          \/ \E v \in Values : ClientWrite(c, v)
          \/ \E is_dirty \in BOOLEAN : UnpinPage(c, is_dirty)
    \/ \E p \in PageIds : FlushPage(p) \/ FlushWriteError(p) \/ DeletePage(p)
    \/ \E fd \in Fds : \/ FlushAllPages(fd)
                      \/ \E k \in Frames : FlushAllWriteError(fd, k)

Spec == Init /\ [][Next]_vars

-----------------------------------------------------------------------------
(* Frames, pages and counters in range: in particular no file grows past   *)
(* the pages that were allocated for it.                                   *)
TypeOK ==
    /\ page_table_ \in [PageIds -> Frames \cup {NoFrame}]
    /\ id_ \in [Frames -> PageIds \cup {NoPage}]
    /\ data_ \in [Frames -> Values]
    /\ is_dirty_ \in [Frames -> BOOLEAN]
    /\ pin_count_ \in [Frames -> Nat]
    /\ free_list_ \in Seq(Frames)
    /\ LRUlist_ \in Seq(Frames)
    /\ disk \in [PageIds -> Values]
    /\ file_pages \in [Fds -> 0..MaxPages]
    /\ fd2pageno_ \in [Fds -> 0..MaxPages]
    /\ handle \in [Clients -> Handles]

Holders(f) == {c \in Clients : handle[c].frame = f}

(* A pointer handed out stays good: as long as a client holds a page, that *)
(* page is cached in the very frame the client points to, the frame is     *)
(* counted as pinned once per holder, and neither find_victim_page source  *)
(* can return it.  In particular unpin_page never refuses a holder.        *)
HeldPagesStay ==
    /\ \A c \in Clients : handle[c] # NoHandle =>
          /\ page_table_[handle[c].page] = handle[c].frame
          /\ handle[c].frame \notin Range(free_list_) \cup Range(LRUlist_)
    /\ \A f \in Frames : pin_count_[f] = Cardinality(Holders(f))

(* No two entries of page_table_ share a frame, and a frame the victim     *)
(* search can return is either unmapped or mapped under its own id_: erasing*)
(* the victim's id_ never hides somebody else's page.                      *)
TableMatchesFrames ==
    /\ \A p \in PageIds : page_table_[p] # NoFrame => id_[page_table_[p]] = p
    /\ \A f \in Range(free_list_) : id_[f] = NoPage
    /\ \A f \in Range(LRUlist_) : id_[f] # NoPage => page_table_[id_[f]] = f

(* fetch_page and new_page give up (nullptr) only when every frame is      *)
(* pinned: no frame is ever in neither list and unpinned.                  *)
NoFrameLost ==
    \A f \in Frames :
        pin_count_[f] = 0 => f \in Range(free_list_) \cup Range(LRUlist_)

(* "If the page table does not know page_id (that is, the page is on       *)
(* disk)": the comment of fetch_page, buffer_pool_manager.cpp:52.          *)
UncachedIsOnDisk ==
    \A p \in PageIds :
        Allocated(p) /\ page_table_[p] = NoFrame => p.page_no < file_pages[p.fd]

(* The current contents of a page: the frame if it is cached, else disk.   *)
CurrentPage ==
    [p \in PageIds |->
        IF page_table_[p] # NoFrame THEN data_[page_table_[p]] ELSE disk[p]]
=============================================================================
