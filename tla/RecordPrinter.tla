--------------------------- MODULE RecordPrinter ---------------------------
(***************************************************************************)
(* src/src/record_printer.h writing a result into the send buffer of a     *)
(* client (Context::data_send_, offset_ and ellipsis_), as select_from,    *)
(* show_tables and desc_table use it: a separator, the captions, a         *)
(* separator, the records, a separator and, for a SELECT, the record count.*)
(* A line goes out in pieces, one per column and one for its end; a piece  *)
(* is kept as its length.                                                  *)
(*                                                                         *)
(* PutUpToEnd, PutWhenItFits and CellUnmarked are faulty variants of the   *)
(* definitions that follow them, never used by Next.                       *)
(***************************************************************************)
EXTENDS Naturals

CONSTANTS BUFFER_LENGTH,
          RECORD_COUNT_LENGTH,
          ColCounts,     \* numbers of columns
          MaxRecords,    \* bound on the number of records printed
          Digits(_)      \* std::to_string(n).length()

ASSUME PrinterAssumption ==
    /\ BUFFER_LENGTH \in Nat /\ RECORD_COUNT_LENGTH \in Nat
    /\ RECORD_COUNT_LENGTH < BUFFER_LENGTH
    /\ ColCounts \subseteq Nat \ {0}      \* the constructor's assert
    /\ MaxRecords \in Nat
    /\ \A n \in 0..MaxRecords :
          Digits(n) \in Nat /\ 26 + Digits(n) <= RECORD_COUNT_LENGTH

CELL == 19      \* "| " + COL_WIDTH + " ", or "+" and COL_WIDTH + 2 dashes
LINE_END == 2   \* "|\n" or "+\n"
MARK == 8       \* "... ...\n"
COUNT == 18     \* "Total record(s): " and the newline

VARIABLES
    num_cols,
    offset_,
    ellipsis_,
    line,      \* which line is being printed, or "done"
    col,       \* pieces of the line done
    num_rec,   \* records printed
    dropped    \* some piece did not go into the buffer

vars == <<num_cols, offset_, ellipsis_, line, col, num_rec, dropped>>

Init ==
    /\ num_cols \in ColCounts
    /\ offset_ = 0
    /\ ellipsis_ = FALSE
    /\ line = "top"
    /\ col = 0
    /\ num_rec = 0
    /\ dropped = FALSE

Fits(len) == ~ellipsis_ /\ offset_ + RECORD_COUNT_LENGTH + len < BUFFER_LENGTH

PutUpToEnd(len, marks) ==
    IF ~ellipsis_ /\ offset_ + len <= BUFFER_LENGTH
    THEN offset_' = offset_ + len /\ UNCHANGED <<ellipsis_, dropped>>
    ELSE /\ ellipsis_' = (ellipsis_ \/ marks)
         /\ dropped' = TRUE
         /\ UNCHANGED offset_

PutWhenItFits(len, marks) ==
    IF offset_ + RECORD_COUNT_LENGTH + len < BUFFER_LENGTH
    THEN offset_' = offset_ + len /\ UNCHANGED <<ellipsis_, dropped>>
    ELSE /\ ellipsis_' = (ellipsis_ \/ marks)
         /\ dropped' = TRUE
         /\ UNCHANGED offset_

(* One piece, copied if it fits; the pieces that set ellipsis_ otherwise   *)
(* are all but the end of a record.                                        *)
Put(len, marks) ==
    IF Fits(len)
    THEN offset_' = offset_ + len /\ UNCHANGED <<ellipsis_, dropped>>
    ELSE /\ ellipsis_' = (ellipsis_ \/ marks)
         /\ dropped' = TRUE
         /\ UNCHANGED offset_

Lines == {"top", "captions", "middle", "record", "bottom"}
Separators == {"top", "middle", "bottom"}

(* The line that follows, by the callers of RecordPrinter.                 *)
Follows(l) ==
    CASE l = "top" -> {"captions"}
      [] l = "captions" -> {"middle"}
      [] l \in {"middle", "record"} ->
            {"bottom"} \cup IF num_rec' < MaxRecords THEN {"record"} ELSE {}
      [] l = "bottom" -> {"count", "done"}

CellUnmarked ==
    /\ line \in Lines /\ col < num_cols
    /\ Put(CELL, FALSE)
    /\ col' = col + 1
    /\ UNCHANGED <<num_cols, line, num_rec>>

(* The body of the loop over the columns, in both kinds of line.           *)
PrintCell ==
    /\ line \in Lines /\ col < num_cols
    /\ Put(CELL, TRUE)
    /\ col' = col + 1
    /\ UNCHANGED <<num_cols, line, num_rec>>

(* The end of a line, and what the caller prints next.                     *)
PrintLineEnd ==
    /\ line \in Lines /\ col = num_cols
    /\ Put(LINE_END, line \in Separators)
    /\ col' = 0
    /\ num_rec' = IF line = "record" THEN num_rec + 1 ELSE num_rec
    /\ line' \in Follows(line)
    /\ UNCHANGED num_cols

print_record_count ==
    /\ line = "count"
    /\ offset_' = offset_ + (IF ellipsis_ THEN MARK ELSE 0) + COUNT + Digits(num_rec)
    /\ line' = "done"
    /\ UNCHANGED <<num_cols, ellipsis_, col, num_rec, dropped>>

Next == PrintCell \/ PrintLineEnd \/ print_record_count

Spec == Init /\ [][Next]_vars

-----------------------------------------------------------------------------
(* The counters in range: a line has as many cells as the table columns.   *)
TypeOK ==
    /\ num_cols \in ColCounts
    /\ offset_ \in Nat
    /\ ellipsis_ \in BOOLEAN
    /\ line \in Lines \cup {"count", "done"}
    /\ col \in 0..num_cols
    /\ num_rec \in 0..MaxRecords
    /\ dropped \in BOOLEAN

(* Nothing is copied past the end of data_send_, and the client_handler's  *)
(* write of offset + 1 bytes, the terminator included, stays inside it.    *)
FitsBuffer == offset_ + 1 <= BUFFER_LENGTH

(* A result that lost a piece is marked: when the record count is printed  *)
(* ellipsis_ is set, although the end of a record, which may be the first  *)
(* piece that does not fit, does not set it.                               *)
TruncationMarked == dropped /\ line \in {"count", "done"} => ellipsis_

(* What the client sees is a prefix of the result: once a piece has been   *)
(* dropped, no later and shorter piece is copied behind the gap.           *)
PrefixOnly == [][dropped /\ line # "count" => offset_' = offset_]_vars
=============================================================================
