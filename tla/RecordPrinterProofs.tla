------------------------ MODULE RecordPrinterProofs ------------------------
(***************************************************************************)
(* The printer never leaves its buffer, for every buffer length, reserve   *)
(* and number of columns, as long as the reserve holds the count line.     *)
(***************************************************************************)
EXTENDS RecordPrinter, TLAPS

(* The inductive invariant.  Before the count line the reserve is intact.  *)
(* A dropped piece that did not set ellipsis_ was the end of a record: the *)
(* next line has not begun, and no cell will fit any more.                 *)
Unmarked == dropped /\ ~ellipsis_

IInv ==
    /\ TypeOK
    /\ line # "done" => offset_ + RECORD_COUNT_LENGTH < BUFFER_LENGTH
    /\ line = "done" => offset_ < BUFFER_LENGTH
    /\ line = "record" => num_rec < MaxRecords
    /\ Unmarked => /\ col = 0
                   /\ line \in {"middle", "record", "bottom"}
                   /\ offset_ + RECORD_COUNT_LENGTH + LINE_END >= BUFFER_LENGTH

LEMMA InitIInv == Init => IInv
<1> SUFFICES ASSUME Init PROVE IInv
  OBVIOUS
<1>1. TypeOK
  <2>1. num_cols \in ColCounts /\ 0 \in 0..num_cols /\ 0 \in 0..MaxRecords
    BY PrinterAssumption DEF Init
  <2>2. "top" \in Lines
    BY DEF Lines
  <2> QED
    BY ZenonT(30), <2>1, <2>2 DEF Init, TypeOK
<1>2. ~Unmarked
  BY DEF Init, Unmarked
<1> QED
  BY <1>1, <1>2, PrinterAssumption DEF Init, IInv

(* A piece that is not copied leaves the buffer as it is.                  *)
LEMMA Refused ==
  ASSUME NEW len, NEW marks, Put(len, marks), ~Fits(len)
  PROVE  offset_' = offset_ /\ dropped' = TRUE /\ ellipsis_' = (ellipsis_ \/ marks)
  BY DEF Put

(* After a piece dropped without a mark no cell fits.                      *)
LEMMA NoCellBehindGap == IInv /\ dropped => ~Fits(CELL)
  BY PrinterAssumption DEF IInv, TypeOK, Unmarked, Fits, CELL, LINE_END

LEMMA CellStep == IInv /\ PrintCell => IInv'
<1> SUFFICES ASSUME IInv, PrintCell PROVE IInv'
  OBVIOUS
<1>1. num_cols \in Nat /\ col' \in 0..num_cols
  BY PrinterAssumption DEF IInv, TypeOK, PrintCell
<1>2. CASE Fits(CELL)
  <2>1. ~dropped
    BY <1>2, NoCellBehindGap
  <2>2. offset_' = offset_ + CELL /\ UNCHANGED <<ellipsis_, dropped>>
    BY <1>2 DEF PrintCell, Put
  <2>3. ~Unmarked'
    BY <2>1, <2>2 DEF Unmarked
  <2>4. offset_' \in Nat /\ offset_' + RECORD_COUNT_LENGTH < BUFFER_LENGTH
    BY <1>2, <2>2, PrinterAssumption DEF Fits, IInv, TypeOK, CELL
  <2> QED
    BY <1>1, <2>2, <2>3, <2>4, PrinterAssumption DEF PrintCell, IInv, TypeOK,
       Lines
<1>3. CASE ~Fits(CELL)
  <2>1. offset_' = offset_ /\ dropped' = TRUE /\ ellipsis_' = TRUE
    BY ZenonT(30), <1>3, Refused DEF PrintCell
  <2>2. ~Unmarked'
    BY <2>1 DEF Unmarked
  <2> QED
    BY <1>1, <2>1, <2>2, PrinterAssumption DEF PrintCell, IInv, TypeOK, Lines
<1> QED
  BY <1>2, <1>3

LEMMA LineEndStep == IInv /\ PrintLineEnd => IInv'
<1> SUFFICES ASSUME IInv, PrintLineEnd PROVE IInv'
  OBVIOUS
<1>1. num_cols \in Nat \ {0} /\ ~Unmarked
  BY PrinterAssumption DEF IInv, TypeOK, PrintLineEnd
<1>2. num_rec' \in 0..MaxRecords
  BY PrinterAssumption DEF IInv, TypeOK, PrintLineEnd
<1>3. /\ line' \in Lines \cup {"count", "done"}
      /\ line' = "record" => num_rec' < MaxRecords
      /\ line \notin Separators => line' \in {"middle", "record", "bottom"}
  BY DEF PrintLineEnd, Follows, Lines, Separators
<1>4. CASE Fits(LINE_END)
  BY <1>1, <1>2, <1>3, <1>4, PrinterAssumption
  DEF PrintLineEnd, Put, Fits, IInv, TypeOK, Unmarked, LINE_END
<1>5. CASE ~Fits(LINE_END)
  <2>1. /\ offset_' = offset_ /\ dropped' = TRUE
        /\ ellipsis_' = (ellipsis_ \/ line \in Separators)
    BY <1>5 DEF PrintLineEnd, Put
  <2>2. ~ellipsis_ => offset_ + RECORD_COUNT_LENGTH + LINE_END >= BUFFER_LENGTH
    BY <1>5, PrinterAssumption DEF Fits, IInv, TypeOK, LINE_END
  <2>3. Unmarked' => ~ellipsis_ /\ line \notin Separators
    BY ZenonT(30), <2>1 DEF Unmarked
  <2>4. ellipsis_' \in BOOLEAN
    BY <2>1
  <2>5. TypeOK'
    BY <1>1, <1>2, <1>3, <2>1, <2>4 DEF PrintLineEnd, IInv, TypeOK
  <2>6. Unmarked' => /\ col' = 0
                     /\ line' \in {"middle", "record", "bottom"}
                     /\ offset_' + RECORD_COUNT_LENGTH + LINE_END >= BUFFER_LENGTH
    <3>1. offset_' = offset_ /\ col' = 0
      BY <2>1 DEF PrintLineEnd
    <3> QED
      BY <1>3, <2>2, <2>3, <3>1
  <2>7. line # "done"
    BY DEF PrintLineEnd, Lines
  <2> QED
    BY <1>3, <2>1, <2>5, <2>6, <2>7, PrinterAssumption DEF IInv, TypeOK
<1> QED
  BY <1>4, <1>5

LEMMA CountStep == IInv /\ print_record_count => IInv'
  BY PrinterAssumption
  DEF print_record_count, IInv, TypeOK, Unmarked, Lines, MARK, COUNT

LEMMA StepIInv == IInv /\ [Next]_vars => IInv'
<1>1. IInv /\ UNCHANGED vars => IInv'
  BY DEF IInv, TypeOK, Unmarked, vars, Lines
<1> QED
  BY <1>1, CellStep, LineEndStep, CountStep DEF Next

LEMMA Inductive == Spec => []IInv
  BY InitIInv, StepIInv, PTL DEF Spec

(* Every counter of the printer stays in its range.                        *)
THEOREM PrinterTyped == Spec => []TypeOK
<1>1. IInv => TypeOK
  BY DEF IInv
<1> QED
  BY <1>1, Inductive, PTL

(* No memcpy of RecordPrinter and no write of client_handler passes the    *)
(* end of data_send_.                                                      *)
THEOREM PrinterFits == Spec => []FitsBuffer
<1>1. IInv => FitsBuffer
  BY PrinterAssumption DEF IInv, TypeOK, FitsBuffer
<1> QED
  BY <1>1, Inductive, PTL

(* A truncated result is announced as such by the record count.            *)
THEOREM PrinterMarks == Spec => []TruncationMarked
<1>1. IInv => TruncationMarked
  BY DEF IInv, TypeOK, Unmarked, TruncationMarked
<1> QED
  BY <1>1, Inductive, PTL

(* The client gets a prefix of the result: nothing is copied behind a gap. *)
THEOREM PrinterPrefix == Spec => PrefixOnly
<1>1. IInv /\ [Next]_vars => [dropped /\ line # "count" => offset_' = offset_]_vars
  <2> SUFFICES ASSUME IInv, Next, dropped, line # "count" PROVE offset_' = offset_
    BY DEF vars
  <2>1. CASE PrintCell
    BY <2>1, NoCellBehindGap DEF PrintCell, Put
  <2>2. CASE PrintLineEnd
    <3>1. ellipsis_
      BY <2>2, PrinterAssumption DEF PrintLineEnd, IInv, TypeOK, Unmarked
    <3> QED
      BY <2>2, <3>1 DEF PrintLineEnd, Put, Fits
  <2> QED
    BY ZenonT(30), <2>1, <2>2 DEF Next, print_record_count
<1> QED
  BY <1>1, Inductive, PTL DEF Spec, PrefixOnly
=============================================================================
