--------------------------- MODULE ScannerTables ----------------------------
(***************************************************************************)
(* The automaton of src/src/parser/lex.yy.cpp, the generated scanner that  *)
(* is compiled, entry by entry: states 1..157, character classes 0..68.    *)
(***************************************************************************)
EXTENDS Integers, Sequences

\* A C array: indices start at 0.
LOCAL ZeroBased(s) == [i \in 0..(Len(s) - 1) |-> s[i + 1]]

YY_END_OF_BUFFER == 48
JAM_BASE == 306       \* yy_base of the states that no character leaves
FIRST_TEMPLATE == 154 \* from here on states are templates, read through yy_meta

\* The rule a state accepts, 0 for none.
yy_accept == ZeroBased(<<
    0, 0, 0, 0, 0, 48, 46, 6, 7, 7, 46, 41, 46, 46, 46, 43, 41, 41, 42, 42,
    42, 42, 42, 42, 42, 42, 42, 42, 42, 42, 42, 42, 42, 42, 42, 3, 4, 6, 7,
    0, 45, 43, 5, 1, 44, 39, 40, 38, 42, 42, 42, 42, 42, 36, 42, 42, 42, 42,
    42, 42, 42, 42, 42, 42, 42, 42, 42, 42, 42, 42, 42, 42, 42, 2, 5, 44,
    42, 31, 37, 42, 42, 42, 42, 42, 42, 42, 42, 42, 42, 42, 42, 42, 27, 42,
    42, 42, 42, 25, 42, 42, 42, 42, 42, 42, 42, 28, 42, 42, 42, 17, 16, 33,
    42, 22, 34, 42, 42, 19, 32, 42, 42, 42, 8, 42, 42, 42, 42, 11, 9, 42,
    42, 42, 29, 30, 42, 35, 42, 42, 15, 42, 42, 23, 10, 14, 21, 18, 42, 26,
    13, 24, 20, 42, 12, 0>>)

\* The class of a character, by its code; from 128 on it is 1.
yy_ec == ZeroBased(<<
    0, 1, 1, 1, 1, 1, 1, 1, 1, 2, 3, 1, 1, 4, 1, 1, 1, 1, 1, 1, 1, 1, 1, 1,
    1, 1, 1, 1, 1, 1, 1, 1, 2, 1, 1, 1, 1, 1, 1, 5, 6, 7, 8, 9, 10, 11, 12,
    13, 14, 14, 14, 14, 14, 14, 14, 14, 14, 14, 1, 15, 16, 17, 18, 1, 1, 19,
    20, 21, 22, 23, 24, 25, 26, 27, 28, 29, 30, 31, 32, 33, 34, 35, 36, 37,
    38, 39, 40, 41, 42, 43, 35, 1, 1, 1, 1, 44, 1, 45, 46, 47, 48, 49, 50,
    51, 52, 53, 54, 55, 56, 57, 58, 59, 60, 35, 61, 62, 63, 64, 65, 66, 67,
    68, 35, 1, 1, 1, 1, 1>>)

\* The class a template uses for a class.
yy_meta == ZeroBased(<<
    0, 1, 1, 2, 1, 1, 1, 1, 1, 1, 1, 1, 1, 1, 3, 1, 1, 1, 1, 3, 3, 3, 3, 3,
    3, 3, 3, 3, 3, 3, 3, 3, 3, 3, 3, 3, 3, 3, 3, 3, 3, 3, 3, 3, 3, 3, 3, 3,
    3, 3, 3, 3, 3, 3, 3, 3, 3, 3, 3, 3, 3, 3, 3, 3, 3, 3, 3, 3, 3>>)

\* Where the row of a state starts in yy_nxt, and the state whose row to try next.
yy_base == ZeroBased(<<
    0, 0, 0, 281, 280, 287, 306, 284, 306, 279, 274, 306, 261, 58, 265, 59,
    57, 238, 50, 54, 50, 55, 38, 54, 0, 58, 56, 59, 58, 62, 75, 80, 66, 87,
    87, 306, 176, 139, 306, 88, 306, 116, 0, 306, 75, 306, 306, 306, 0, 84,
    98, 102, 104, 0, 112, 102, 111, 105, 103, 110, 105, 107, 114, 131, 118,
    125, 118, 120, 118, 132, 132, 126, 142, 306, 0, 71, 136, 0, 0, 148, 145,
    153, 166, 163, 166, 154, 152, 173, 164, 162, 175, 176, 167, 170, 180,
    174, 182, 0, 166, 178, 190, 177, 181, 181, 188, 0, 196, 189, 195, 0, 0,
    0, 198, 0, 0, 195, 202, 0, 0, 203, 220, 222, 0, 222, 209, 225, 227, 0,
    0, 215, 228, 231, 0, 0, 218, 0, 238, 221, 223, 242, 230, 0, 0, 0, 0, 0,
    247, 0, 0, 0, 0, 241, 0, 306, 296, 299, 76, 302>>)

yy_def == ZeroBased(<<
    0, 153, 1, 154, 154, 153, 153, 153, 153, 153, 155, 153, 153, 153, 153,
    153, 153, 153, 156, 156, 156, 156, 156, 156, 156, 156, 156, 156, 156,
    156, 156, 156, 156, 156, 156, 153, 153, 153, 153, 155, 153, 153, 157,
    153, 153, 153, 153, 153, 156, 156, 156, 156, 156, 156, 156, 156, 156,
    156, 156, 156, 156, 156, 156, 156, 156, 156, 156, 156, 156, 156, 156,
    156, 156, 153, 157, 153, 156, 156, 156, 156, 156, 156, 156, 156, 156,
    156, 156, 156, 156, 156, 156, 156, 156, 156, 156, 156, 156, 156, 156,
    156, 156, 156, 156, 156, 156, 156, 156, 156, 156, 156, 156, 156, 156,
    156, 156, 156, 156, 156, 156, 156, 156, 156, 156, 156, 156, 156, 156,
    156, 156, 156, 156, 156, 156, 156, 156, 156, 156, 156, 156, 156, 156,
    156, 156, 156, 156, 156, 156, 156, 156, 156, 156, 156, 156, 0, 153, 153,
    153, 153>>)

\* The next state, guarded by yy_chk.
yy_nxt == ZeroBased(<<
    0, 6, 7, 8, 9, 10, 11, 11, 11, 12, 11, 13, 11, 14, 15, 11, 16, 11, 17,
    18, 19, 20, 21, 22, 23, 24, 25, 26, 27, 24, 24, 24, 24, 28, 24, 24, 29,
    30, 31, 32, 33, 34, 24, 24, 6, 18, 19, 20, 21, 22, 23, 24, 25, 26, 27,
    24, 24, 24, 24, 28, 24, 29, 30, 31, 32, 33, 34, 24, 24, 42, 49, 44, 41,
    41, 45, 46, 54, 52, 57, 48, 59, 62, 50, 55, 60, 75, 56, 51, 63, 75, 61,
    58, 64, 40, 65, 66, 49, 53, 67, 69, 70, 68, 54, 52, 57, 59, 71, 62, 50,
    55, 60, 56, 51, 72, 63, 61, 58, 76, 64, 65, 77, 66, 53, 78, 67, 69, 70,
    68, 44, 79, 41, 80, 71, 81, 82, 83, 85, 86, 87, 72, 88, 37, 84, 76, 89,
    93, 77, 94, 95, 78, 96, 98, 99, 90, 100, 79, 101, 80, 97, 81, 82, 83,
    85, 86, 87, 102, 88, 84, 91, 92, 89, 93, 103, 94, 95, 104, 96, 98, 99,
    90, 100, 105, 101, 97, 106, 107, 108, 109, 110, 73, 111, 102, 112, 91,
    92, 113, 114, 103, 115, 116, 117, 104, 118, 119, 120, 121, 105, 122,
    123, 124, 106, 107, 108, 109, 110, 111, 125, 126, 112, 127, 128, 113,
    114, 129, 115, 116, 117, 130, 118, 119, 120, 121, 122, 131, 123, 124,
    132, 133, 134, 135, 136, 125, 126, 137, 127, 138, 128, 139, 140, 129,
    141, 143, 130, 142, 144, 47, 145, 146, 131, 147, 148, 132, 133, 134,
    135, 149, 136, 150, 151, 137, 152, 138, 139, 43, 140, 41, 141, 143, 142,
    40, 144, 145, 38, 146, 147, 148, 37, 153, 36, 36, 153, 149, 150, 153,
    151, 153, 152, 35, 35, 35, 39, 39, 39, 74, 153, 74, 5, 153, 153, 153,
    153, 153, 153, 153, 153, 153, 153, 153, 153, 153, 153, 153, 153, 153,
    153, 153, 153, 153, 153, 153, 153, 153, 153, 153, 153, 153, 153, 153,
    153, 153, 153, 153, 153, 153, 153, 153, 153, 153, 153, 153, 153, 153,
    153, 153, 153, 153, 153, 153, 153, 153, 153, 153, 153, 153, 153, 153,
    153, 153, 153, 153, 153, 153, 153, 153, 153>>)

yy_chk == ZeroBased(<<
    0, 1, 1, 1, 1, 1, 1, 1, 1, 1, 1, 1, 1, 1, 1, 1, 1, 1, 1, 1, 1, 1, 1, 1,
    1, 1, 1, 1, 1, 1, 1, 1, 1, 1, 1, 1, 1, 1, 1, 1, 1, 1, 1, 1, 1, 1, 1, 1,
    1, 1, 1, 1, 1, 1, 1, 1, 1, 1, 1, 1, 1, 1, 1, 1, 1, 1, 1, 1, 1, 13, 18,
    15, 13, 15, 16, 16, 20, 19, 21, 156, 22, 25, 18, 20, 23, 75, 20, 18, 26,
    44, 23, 21, 27, 39, 28, 29, 18, 19, 30, 31, 32, 30, 20, 19, 21, 22, 33,
    25, 18, 20, 23, 20, 18, 34, 26, 23, 21, 49, 27, 28, 50, 29, 19, 51, 30,
    31, 32, 30, 41, 52, 41, 54, 33, 55, 56, 57, 58, 59, 60, 34, 61, 37, 57,
    49, 62, 64, 50, 65, 66, 51, 67, 68, 69, 63, 70, 52, 71, 54, 67, 55, 56,
    57, 58, 59, 60, 72, 61, 57, 63, 63, 62, 64, 76, 65, 66, 79, 67, 68, 69,
    63, 70, 80, 71, 67, 81, 82, 83, 84, 85, 36, 86, 72, 87, 63, 63, 88, 89,
    76, 90, 91, 92, 79, 93, 94, 95, 96, 80, 98, 99, 100, 81, 82, 83, 84, 85,
    86, 101, 102, 87, 103, 104, 88, 89, 106, 90, 91, 92, 107, 93, 94, 95,
    96, 98, 108, 99, 100, 112, 115, 116, 119, 120, 101, 102, 121, 103, 123,
    104, 124, 125, 106, 126, 130, 107, 129, 131, 17, 134, 136, 108, 137,
    138, 112, 115, 116, 119, 139, 120, 140, 146, 121, 151, 123, 124, 14,
    125, 12, 126, 130, 129, 10, 131, 134, 9, 136, 137, 138, 7, 5, 4, 3, 0,
    139, 140, 0, 146, 0, 151, 154, 154, 154, 155, 155, 155, 157, 0, 157,
    153, 153, 153, 153, 153, 153, 153, 153, 153, 153, 153, 153, 153, 153,
    153, 153, 153, 153, 153, 153, 153, 153, 153, 153, 153, 153, 153, 153,
    153, 153, 153, 153, 153, 153, 153, 153, 153, 153, 153, 153, 153, 153,
    153, 153, 153, 153, 153, 153, 153, 153, 153, 153, 153, 153, 153, 153,
    153, 153, 153, 153, 153, 153, 153, 153, 153, 153, 153, 153, 153>>)
=============================================================================
