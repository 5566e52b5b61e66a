-------------------------- MODULE MCRecordPrinter --------------------------
\* The printer with the real buffer and enough records to fill it.
EXTENDS RecordPrinter

RECURSIVE MC_Digits(_)
MC_Digits(n) == IF n < 10 THEN 1 ELSE 1 + MC_Digits(n \div 10)
=============================================================================
