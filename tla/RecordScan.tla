----------------------------- MODULE RecordScan -----------------------------
(***************************************************************************)
(* A table scan (RmScan, src/src/record/rm_scan.cpp) while other threads   *)
(* call the record file.  Nothing keeps them apart, so they may come       *)
(* between any two iterations of the loop of RmScan::next; each record     *)
(* call and each iteration is taken as one step.                           *)
(*                                                                         *)
(* StartSlotIncluded and SlotKept are faulty variants, not used by         *)
(* ScanNext.                                                               *)
(***************************************************************************)
EXTENDS RecordFile

VARIABLES
    rid_,       \* the cursor; slot_no = -1 in front of a page
    searching,  \* the loop of next() is running
    unmet       \* history: records in the file ever since the scan began that
                \* it has not stopped at

scan_vars == <<rid_, searching, unmet>>

ScanEnd == [page_no |-> RM_NO_PAGE, slot_no |-> -1]

is_end == rid_ = ScanEnd

ScanInit ==
    /\ Init
    /\ rid_ = ScanEnd
    /\ searching = FALSE
    /\ unmet = {}

StartSlotIncluded(bm, curr) ==
    Min({i \in bm : i >= curr} \cup {N})

(* Bitmap::next_bit(true, bm, N, curr).                                    *)
next_bit(bm, curr) == Min({i \in bm : i > curr} \cup {N})

(* The constructor: stand in front of the first page and call next().      *)
RmScanStart ==
    /\ alive /\ is_open
    /\ ~searching /\ is_end
    /\ rid_' = [page_no |-> RM_FIRST_RECORD_PAGE, slot_no |-> -1]
    /\ searching' = TRUE
    /\ unmet' = DOMAIN Records
    /\ UNCHANGED vars

(* next() is called again, only on a scan that is not at its end.          *)
RmScanNext ==
    /\ alive
    /\ ~searching /\ ~is_end
    /\ searching' = TRUE
    /\ UNCHANGED <<vars, rid_, unmet>>

SlotKept(p) == [page_no |-> p + 1, slot_no |-> 0]

FrontOf(p) == [page_no |-> p + 1, slot_no |-> -1]

(* One iteration of the loop in next().                                    *)
SearchPage ==
    LET slot == next_bit(page[rid_.page_no].bitmap, rid_.slot_no)
        here == [rid_ EXCEPT !.slot_no = slot] IN
    /\ searching
    /\ Ready(rid_.page_no) /\ CanFetch(rid_.page_no)
    /\ IF slot < N
       THEN rid_' = here /\ searching' = FALSE /\ unmet' = unmet \ {here}
       ELSE rid_' = FrontOf(rid_.page_no) /\ UNCHANGED <<searching, unmet>>
    /\ UNCHANGED vars

(* The pool has no frame for the page.                                     *)
SearchNullPage ==
    /\ searching
    /\ Ready(rid_.page_no) /\ ~CanFetch(rid_.page_no)
    /\ NullPage
    /\ UNCHANGED scan_vars

SearchPastEnd ==
    /\ alive
    /\ searching
    /\ rid_.page_no >= file_hdr_.num_pages
    /\ rid_' = ScanEnd
    /\ searching' = FALSE
    /\ UNCHANGED <<vars, unmet>>

(* Another thread's record call; the file is closed only when nobody scans *)
(* it.                                                                     *)
OtherThread ==
    /\ Next
    /\ ~is_end => is_open'
    /\ unmet' = unmet \cap DOMAIN Records'
    /\ UNCHANGED <<rid_, searching>>

ScanNext ==
    \/ RmScanStart \/ RmScanNext \/ SearchPage \/ SearchNullPage \/ SearchPastEnd
    \/ OtherThread

ScanSpec == ScanInit /\ [][ScanNext]_<<vars, scan_vars>>

-----------------------------------------------------------------------------
(* A scan that has reached its end has stopped at every record that was in *)
(* the file from the scan's first to its last step, whatever was inserted  *)
(* and deleted around it meanwhile.                                        *)
ScanComplete == is_end => unmet = {}

Before(q, r) ==
    \/ q.page_no < r.page_no
    \/ q.page_no = r.page_no /\ q.slot_no < r.slot_no

(* The cursor only moves forward, so the scan stops at no record id twice, *)
(* even when an id is freed and given to a new record.                     *)
ScanAscends ==
    [][(searching /\ (~searching' \/ rid_' # rid_)) =>
          rid_' = ScanEnd \/ Before(rid_, rid_')]_scan_vars
=============================================================================
