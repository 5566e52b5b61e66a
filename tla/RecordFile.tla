----------------------------- MODULE RecordFile -----------------------------
(***************************************************************************)
(* One table's data file, used by one thread at a time:                    *)
(* src/src/record/rm_file_handle.{h,cpp}, rm_scan.cpp, bitmap.h and        *)
(* RmManager::open_file/close_file.                                        *)
(*                                                                         *)
(* The pages live in the buffer pool, which keeps their contents whatever  *)
(* it evicts (module PageStore, implemented by BufferPool); what it does   *)
(* not hide is its capacity, so the pins each call leaves behind are kept  *)
(* in pins.  A call that finds no frame dereferences nullptr.              *)
(*                                                                         *)
(* Definitions without a comment that precede one of the same parameters   *)
(* (FilledAtCount, ...) are faulty variants of it, used to show that a     *)
(* property can fail; Next never uses them.                                *)
(***************************************************************************)
EXTENDS Sequences, FiniteSetsExt

CONSTANTS MaxPages,   \* bound on num_pages (the header page included)
          N,          \* file_hdr_.num_records_per_page
          Values,     \* record contents told apart
          Zero,       \* the contents of a zero-filled slot
          NoRecord,   \* get_record's nullptr
          PoolSize,   \* frames the buffer pool has for this file
          MaxPins     \* bound on the pins left on one page

ASSUME FileAssumption ==
    /\ MaxPages \in Nat \ {0}
    /\ N \in Nat \ {0}
    /\ PoolSize \in Nat \ {0}
    /\ MaxPins \in Nat
    /\ Zero \in Values

RM_NO_PAGE == -1
RM_FIRST_RECORD_PAGE == 1

PageNos == RM_FIRST_RECORD_PAGE..(MaxPages - 1)
Slots   == 0..(N - 1)
Rids    == [page_no : PageNos, slot_no : Slots]

Outdated == <<>>     \* any header but the handle's

FileHdrs == [num_pages : 1..MaxPages, first_free_page_no : PageNos \cup {RM_NO_PAGE}]
PageType == [next_free_page_no : PageNos \cup {RM_NO_PAGE}, num_records : Int,
             bitmap : SUBSET Slots, slots : [Slots -> Values]]

VARIABLES
    file_hdr_,     \* the handle's copy of the header
    disk_hdr,      \* the header page on disk; nobody reads it while the file is open
    is_open,       \* the file is open (RmManager::open_file)
    fd2pageno_,    \* DiskManager's next page number for the file
    page,          \* the data pages
    pins,          \* pins left on each page by completed calls
    alive,         \* FALSE once a nullptr page has been dereferenced
    result         \* what the last record call returned

file_vars == <<file_hdr_, disk_hdr, is_open, fd2pageno_>>
vars == <<file_vars, page, pins, alive, result>>

Void == <<"void">>

(* A page as new_page (zero-filled) and create_new_page_handle leave it.   *)
EmptyPage == [next_free_page_no |-> RM_NO_PAGE, num_records |-> 0,
              bitmap |-> {}, slots |-> [i \in Slots |-> Zero]]

(* RmManager::create_file wrote the header; the file has just been opened. *)
Init ==
    /\ file_hdr_ = [num_pages |-> 1, first_free_page_no |-> RM_NO_PAGE]
    /\ disk_hdr = Outdated
    /\ is_open = TRUE
    /\ fd2pageno_ = 1
    /\ page = [p \in PageNos |-> EmptyPage]
    /\ pins = [p \in PageNos |-> 0]
    /\ alive = TRUE
    /\ result = Void

-----------------------------------------------------------------------------
(* Bitmap::first_bit(false): the lowest clear bit, max_n when there is none.*)
FirstClear(bm) ==
    CHOOSE i \in 0..N : /\ i \notin bm
                        /\ \A j \in 0..(i - 1) : j \in bm

(* The buffer pool has the page pinned already, or a frame to give.        *)
PinnedPages == {p \in PageNos : pins[p] > 0}
CanFetch(p) == p \in PinnedPages \/ Cardinality(PinnedPages) < PoolSize

(* fetch_page_handle(p) for a valid page number, when the pool returns     *)
(* nullptr: RmPageHandle's constructor dereferences it.                    *)
NullPage ==
    /\ alive' = FALSE
    /\ UNCHANGED <<file_vars, page, pins, result>>

(* The call returns without unpinning page p.                              *)
LeavePinned(p) == pins[p] < MaxPins /\ pins' = [pins EXCEPT ![p] = @ + 1]

(* The page number is in range: otherwise fetch_page_handle throws         *)
(* PageNotExistError and nothing changes.                                  *)
Ready(p) == alive /\ is_open /\ p < file_hdr_.num_pages

-----------------------------------------------------------------------------
FilledAtCount(pg, v) ==
    [pg EXCEPT !.slots[pg.num_records] = v,
               !.bitmap = @ \cup {FirstClear(pg.bitmap)}, !.num_records = @ + 1]

(* Steps 2 to 6 of insert_record on page contents pg, numbered p.          *)
Filled(pg, v) ==
    LET s == FirstClear(pg.bitmap) IN
    [pg EXCEPT !.slots[s] = v, !.bitmap = @ \cup {s}, !.num_records = @ + 1]

FirstFreeAfterInsert(p, pg) ==
    IF pg.num_records + 1 = N THEN pg.next_free_page_no ELSE p

(* insert_record, first_free_page_no # RM_NO_PAGE: use that page.          *)
InsertIntoFree(v) ==
    LET p == file_hdr_.first_free_page_no IN
    /\ p # RM_NO_PAGE
    /\ Ready(p) /\ CanFetch(p)
    /\ page' = [page EXCEPT ![p] = Filled(@, v)]
    /\ file_hdr_' = [file_hdr_ EXCEPT
                        !.first_free_page_no = FirstFreeAfterInsert(p, page[p])]
    /\ result' = <<"rid", [page_no |-> p, slot_no |-> FirstClear(page[p].bitmap)]>>
    /\ UNCHANGED <<disk_hdr, is_open, fd2pageno_, pins, alive>>

(* insert_record, no free page: create_new_page_handle appends one.        *)
InsertIntoNew(v) ==
    LET p == fd2pageno_ IN
    /\ alive /\ is_open
    /\ file_hdr_.first_free_page_no = RM_NO_PAGE
    /\ Cardinality(PinnedPages) < PoolSize
    /\ p < MaxPages
    /\ page' = [page EXCEPT ![p] = Filled(EmptyPage, v)]
    /\ fd2pageno_' = fd2pageno_ + 1
    /\ file_hdr_' = [num_pages |-> file_hdr_.num_pages + 1,
                     first_free_page_no |-> FirstFreeAfterInsert(p, EmptyPage)]
    /\ result' = <<"rid", [page_no |-> p, slot_no |-> 0]>>
    /\ UNCHANGED <<disk_hdr, is_open, pins, alive>>

(* insert_record when the pool has no frame for the page it wants.         *)
InsertNullPage ==
    LET p == file_hdr_.first_free_page_no IN
    /\ alive /\ is_open
    /\ IF p = RM_NO_PAGE THEN Cardinality(PinnedPages) >= PoolSize
                         ELSE ~CanFetch(p)
    /\ NullPage

DeleteAlwaysRelinks(rid) ==
    LET p == rid.page_no IN
    /\ Ready(p) /\ CanFetch(p)
    /\ rid.slot_no \in page[p].bitmap
    /\ page' = [page EXCEPT
                   ![p].bitmap = @ \ {rid.slot_no},
                   ![p].num_records = @ - 1,
                   ![p].next_free_page_no = file_hdr_.first_free_page_no]
    /\ file_hdr_' = [file_hdr_ EXCEPT !.first_free_page_no = p]
    /\ result' = Void
    /\ UNCHANGED <<disk_hdr, is_open, fd2pageno_, pins, alive>>

(* delete_record of a record: clear the bit; a page that was full becomes  *)
(* the head of the free list (release_page_handle).                        *)
DeleteRecord(rid) ==
    LET p == rid.page_no
        was_full == page[p].num_records = N IN
    /\ Ready(p) /\ CanFetch(p)
    /\ rid.slot_no \in page[p].bitmap
    /\ page' = [page EXCEPT
                   ![p].bitmap = @ \ {rid.slot_no},
                   ![p].num_records = @ - 1,
                   ![p].next_free_page_no =
                       IF was_full THEN file_hdr_.first_free_page_no ELSE @]
    /\ file_hdr_' = [file_hdr_ EXCEPT
                        !.first_free_page_no = IF was_full THEN p ELSE @]
    /\ result' = Void
    /\ UNCHANGED <<disk_hdr, is_open, fd2pageno_, pins, alive>>

UpdateRecord(rid, v) ==
    LET p == rid.page_no IN
    /\ Ready(p) /\ CanFetch(p)
    /\ rid.slot_no \in page[p].bitmap
    /\ page' = [page EXCEPT ![p].slots[rid.slot_no] = v]
    /\ result' = Void
    /\ UNCHANGED <<file_vars, pins, alive>>

(* delete_record and update_record of a slot that holds no record: the     *)
(* early return skips unpin_page.                                          *)
TouchMissing(rid) ==
    LET p == rid.page_no IN
    /\ Ready(p) /\ CanFetch(p)
    /\ rid.slot_no \notin page[p].bitmap
    /\ LeavePinned(p)
    /\ result' = Void
    /\ UNCHANGED <<file_vars, page, alive>>

(* get_record (and is_record, which only looks at the bit): neither unpins *)
(* the page it fetched.                                                    *)
GetRecord(rid) ==
    LET p == rid.page_no IN
    /\ Ready(p) /\ CanFetch(p)
    /\ LeavePinned(p)
    /\ result' = <<"value", IF rid.slot_no \in page[p].bitmap
                            THEN page[p].slots[rid.slot_no] ELSE NoRecord>>
    /\ UNCHANGED <<file_vars, page, alive>>

(* Any of the above on a page the pool cannot provide.                     *)
AccessNullPage(rid) ==
    /\ Ready(rid.page_no) /\ ~CanFetch(rid.page_no)
    /\ NullPage

(* RmManager::close_file writes the header and flushes the pages.          *)
CloseFile ==
    /\ alive /\ is_open
    /\ disk_hdr' = file_hdr_
    /\ is_open' = FALSE
    /\ UNCHANGED <<file_hdr_, fd2pageno_, page, pins, alive, result>>

OpenOneShort ==
    /\ alive /\ ~is_open
    /\ file_hdr_' = disk_hdr
    /\ fd2pageno_' = Max({1, disk_hdr.num_pages - 1})
    /\ is_open' = TRUE
    /\ disk_hdr' = Outdated
    /\ UNCHANGED <<page, pins, alive, result>>

(* RmManager::open_file: the handle reads the header back and restarts the *)
(* page counter.  The next insert makes the header on disk outdated.       *)
OpenFile ==
    /\ alive /\ ~is_open
    /\ file_hdr_' = disk_hdr
    /\ fd2pageno_' = disk_hdr.num_pages
    /\ is_open' = TRUE
    /\ disk_hdr' = Outdated
    /\ UNCHANGED <<page, pins, alive, result>>

Next ==
    \/ \E v \in Values : InsertIntoFree(v) \/ InsertIntoNew(v)
    \/ InsertNullPage
    \/ \E rid \in Rids : \/ DeleteRecord(rid) \/ TouchMissing(rid)
                         \/ GetRecord(rid) \/ AccessNullPage(rid)
                         \/ \E v \in Values : UpdateRecord(rid, v)
    \/ CloseFile
    \/ OpenFile

Spec == Init /\ [][Next]_vars

-----------------------------------------------------------------------------
(* Page numbers, bits and counts in range: first_bit(false) is never asked *)
(* for a slot of a full page, which would be slot number N.                *)
TypeOK ==
    /\ file_hdr_ \in FileHdrs
    /\ disk_hdr \in FileHdrs \cup {Outdated}
    /\ is_open \in BOOLEAN
    /\ fd2pageno_ \in 1..MaxPages
    /\ page \in [PageNos -> PageType]
    /\ pins \in [PageNos -> Nat]
    /\ alive \in BOOLEAN

UsedPages == {p \in PageNos : p < file_hdr_.num_pages}
OpenPages == {p \in UsedPages : page[p].num_records < N}

IsFreeChain(ch) ==
    /\ IsInjective(ch)
    /\ Range(ch) = OpenPages
    /\ file_hdr_.first_free_page_no = IF ch = <<>> THEN RM_NO_PAGE ELSE ch[1]
    /\ \A i \in 1..Len(ch) :
          page[ch[i]].next_free_page_no =
              IF i = Len(ch) THEN RM_NO_PAGE ELSE ch[i + 1]

(* The list that starts at first_free_page_no and follows next_free_page_no*)
(* is finite and visits every page with a free slot, once, and no full     *)
(* page: no insert overfills a page, and no freed space is forgotten.      *)
FreeListExact ==
    \E n \in 0..(MaxPages - 1) : \E ch \in [1..n -> PageNos] : IsFreeChain(ch)

(* The count in a page header, which decides when a page is full, is the   *)
(* number of bits set in its bitmap, which decides where a record goes; the*)
(* pages are numbered as the DiskManager will number the next one.         *)
CountsAgree ==
    /\ \A p \in UsedPages :
          page[p].num_records = Cardinality(page[p].bitmap)
    /\ fd2pageno_ = file_hdr_.num_pages

Records ==
    [r \in {q \in Rids : /\ q.page_no < file_hdr_.num_pages
                         /\ q.slot_no \in page[q.page_no].bitmap}
        |-> page[r.page_no].slots[r.slot_no]]

Table == INSTANCE RecordTable WITH records <- Records

(* The file implements RecordTable, closing and reopening included: an     *)
(* insert never takes the slot of a live record, and no call touches a     *)
(* record it is not about.                                                 *)
ImplementsTable == Table!Spec

(* "After every fetch of a page it must be released (unpin), otherwise the *)
(* buffer pool runs out", lab2-scripts, on the record layer.               *)
PagesReleased == \A p \in PageNos : pins[p] = 0
=============================================================================
