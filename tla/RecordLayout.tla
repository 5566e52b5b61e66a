---------------------------- MODULE RecordLayout ----------------------------
(***************************************************************************)
(* The layout of a data page: RmManager::create_file computes how many     *)
(* records a page holds from the record size (src/src/record/rm_manager.h),*)
(* RmPageHandle places page header, bitmap and slots from what it computed *)
(* (rm_file_handle.h), and Bitmap addresses the bits (bitmap.h).           *)
(*                                                                         *)
(* CountWithoutReserve is a faulty variant of num_records, never used.     *)
(***************************************************************************)
EXTENDS Integers

CONSTANTS PAGE_SIZE,
          SIZEOF_FILE_HDR,      \* sizeof(RmFileHdr)
          SIZEOF_PAGE_HDR,      \* sizeof(RmPageHdr)
          OFFSET_PAGE_HDR,      \* Page::OFFSET_PAGE_HDR
          RM_MAX_RECORD_SIZE

BITMAP_WIDTH == 8

ASSUME LayoutAssumption ==
    /\ PAGE_SIZE \in Nat /\ SIZEOF_FILE_HDR \in Nat /\ SIZEOF_PAGE_HDR \in Nat
    /\ OFFSET_PAGE_HDR \in Nat /\ RM_MAX_RECORD_SIZE \in Nat
    /\ SIZEOF_FILE_HDR < PAGE_SIZE
    /\ OFFSET_PAGE_HDR + SIZEOF_PAGE_HDR <= SIZEOF_FILE_HDR

\* The record sizes create_file accepts; others throw InvalidRecordSizeError.
RecordSizes == 1..RM_MAX_RECORD_SIZE

CountWithoutReserve(size) ==
    (BITMAP_WIDTH * PAGE_SIZE + 1) \div (1 + size * BITMAP_WIDTH)

\* num_records_per_page for records of that size.
num_records(size) ==
    (BITMAP_WIDTH * (PAGE_SIZE - 1 - SIZEOF_FILE_HDR) + 1) \div (1 + size * BITMAP_WIDTH)

\* The fields of RmFileHdr that stay as create_file wrote them.
FileHdr(size) ==
    [record_size |-> size,
     num_records_per_page |-> num_records(size),
     bitmap_size |-> (num_records(size) + BITMAP_WIDTH - 1) \div BITMAP_WIDTH]

\* Where a page handle made from header h finds the bitmap, slot i and the
\* byte of the bitmap with the bit of slot i.
BitmapStart == OFFSET_PAGE_HDR + SIZEOF_PAGE_HDR
SlotStart(h, i) == BitmapStart + h.bitmap_size + i * h.record_size
get_bucket(i) == BitmapStart + i \div BITMAP_WIDTH

\* With header h, slot i lies inside the page and behind the bitmap, and its
\* bit inside the bitmap.
SlotFits(h, i) ==
    /\ SlotStart(h, i) + h.record_size <= PAGE_SIZE
    /\ get_bucket(i) < SlotStart(h, 0)
=============================================================================
