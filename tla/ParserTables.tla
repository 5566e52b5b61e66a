---------------------------- MODULE ParserTables ----------------------------
(***************************************************************************)
(* The LALR(1) tables of src/src/parser/yacc.tab.cpp, the generated parser *)
(* that is compiled, entry by entry.  States are 0..126, rules 0..69,      *)
(* symbols 0..79 of which the first 51 are tokens.                         *)
(***************************************************************************)
EXTENDS Integers, Sequences

\* A C array: indices start at 0.
ZeroBased(s) == [i \in 0..(Len(s) - 1) |-> s[i + 1]]

YYFINAL == 39
YYLAST == 112
YYNTOKENS == 51
YYNRULES == 69
YYNSTATES == 127
YYPACT_NINF == -75

\* The names of the symbols, tokens first; a token is known by its name.
yytname == ZeroBased(<<
    "end of file", "error", "invalid token", "SHOW", "TABLES", "CREATE",
    "TABLE", "DROP", "DESC", "INSERT", "INTO", "VALUES", "DELETE", "FROM",
    "ASC", "ORDER", "BY", "WHERE", "UPDATE", "SET", "SELECT", "INT", "CHAR",
    "FLOAT", "INDEX", "AND", "JOIN", "EXIT", "HELP", "TXN_BEGIN",
    "TXN_COMMIT", "TXN_ABORT", "TXN_ROLLBACK", "ORDER_BY", "LEQ", "NEQ",
    "GEQ", "T_EOF", "IDENTIFIER", "VALUE_STRING", "VALUE_INT",
    "VALUE_FLOAT", ";", "(", ")", ",", ".", "=", "<", ">", "*", "$accept",
    "start", "stmt", "txnStmt", "dbStmt", "ddl", "dml", "fieldList",
    "colNameList", "field", "type", "valueList", "value", "condition",
    "optWhereClause", "whereClause", "col", "colList", "op", "expr",
    "setClauses", "setClause", "selector", "tableList", "opt_order_clause",
    "order_clause", "opt_asc_desc", "tbName", "colName">>)

\* Where the row of a state starts in yytable.
yypact == ZeroBased(<<
    42, 21, 5, 8, -2, 32, 31, -2, -26, -75, -75, -75, -75, -75, -75, -75,
    52, 6, -75, -75, -75, -75, -75, -2, -2, -2, -2, -75, -75, -2, -2, 34,
    13, -75, -75, 16, 55, 39, -75, -75, -75, 43, 44, -75, 45, 78, 73, 53,
    54, -2, 53, 53, 53, 53, 50, 54, -75, -75, -4, -75, 51, -75, -7, -75,
    -75, -11, -75, -5, 22, -75, 33, 24, -75, 74, 48, 53, -75, 24, -2, -2,
    85, -75, 53, -75, 58, -75, -75, -75, 53, -75, -75, -75, -75, 36, -75,
    54, -75, -75, -75, -75, -75, -75, 17, -75, -75, -75, -75, 86, -75, -75,
    63, -75, -75, 24, -75, -75, -75, -75, 54, 60, -75, 1, -75, -75, -75,
    -75, -75>>)

\* The rule a state reduces by when its row has no entry; 0 is an error.
yydefact == ZeroBased(<<
    0, 0, 0, 0, 0, 0, 0, 0, 0, 4, 3, 10, 11, 12, 13, 5, 0, 0, 9, 6, 7, 8,
    14, 0, 0, 0, 0, 68, 17, 0, 0, 0, 69, 57, 44, 58, 0, 0, 43, 1, 2, 0, 0,
    16, 0, 0, 38, 0, 0, 0, 0, 0, 0, 0, 0, 0, 21, 69, 38, 54, 0, 45, 38, 59,
    42, 0, 24, 0, 0, 26, 0, 0, 40, 39, 0, 0, 22, 0, 0, 0, 63, 15, 0, 29, 0,
    31, 28, 18, 0, 19, 36, 34, 35, 0, 32, 0, 50, 49, 51, 46, 47, 48, 0, 55,
    56, 61, 60, 0, 23, 25, 0, 27, 20, 0, 41, 52, 53, 37, 0, 0, 33, 67, 62,
    30, 66, 65, 64>>)

\* Where the column of a nonterminal starts in yytable, and its default.
yypgoto == ZeroBased(<<
    -75, -75, -75, -75, -75, -75, -75, -75, 56, 23, -75, -75, -74, 11, -27,
    -75, -8, -75, -75, -75, -75, 37, -75, -75, -75, -75, -75, -3, -45>>)

yydefgoto == ZeroBased(<<
    0, 16, 17, 18, 19, 20, 21, 65, 68, 66, 86, 93, 94, 72, 56, 73, 74, 35,
    102, 117, 58, 59, 36, 62, 108, 122, 126, 37, 38>>)

\* Shifts (positive) and reductions (negative), guarded by yycheck.
yytable == ZeroBased(<<
    34, 28, 60, 104, 31, 64, 67, 69, 69, 124, 55, 23, 32, 55, 25, 125, 83,
    84, 85, 78, 41, 42, 43, 44, 33, 22, 45, 46, 115, 24, 60, 76, 26, 81, 82,
    80, 27, 67, 79, 120, 61, 75, 29, 111, 30, 1, 63, 2, 40, 3, 4, 5, 39, 47,
    6, 32, 90, 91, 92, -68, 7, 48, 8, 90, 91, 92, 87, 88, 49, 9, 10, 11, 12,
    13, 14, 105, 106, 89, 88, 15, 112, 113, 96, 97, 98, 50, 51, 52, 53, 54,
    55, 57, 32, 71, 116, 99, 100, 101, 77, 95, 107, 110, 118, 119, 123, 109,
    114, 0, 0, 70, 121, 0, 103>>)

yycheck == ZeroBased(<<
    8, 4, 47, 77, 7, 50, 51, 52, 53, 8, 17, 6, 38, 17, 6, 14, 21, 22, 23,
    26, 23, 24, 25, 26, 50, 4, 29, 30, 102, 24, 75, 58, 24, 44, 45, 62, 38,
    82, 45, 113, 48, 45, 10, 88, 13, 3, 49, 5, 42, 7, 8, 9, 0, 19, 12, 38,
    39, 40, 41, 46, 18, 45, 20, 39, 40, 41, 44, 45, 13, 27, 28, 29, 30, 31,
    32, 78, 79, 44, 45, 37, 44, 45, 34, 35, 36, 46, 43, 43, 43, 11, 17, 38,
    38, 43, 102, 47, 48, 49, 47, 25, 15, 43, 16, 40, 44, 82, 95, -1, -1, 53,
    118, -1, 75>>)

\* The left-hand side of a rule, and the length of its right-hand side.
yyr1 == ZeroBased(<<
    0, 51, 52, 52, 52, 52, 53, 53, 53, 53, 54, 54, 54, 54, 55, 56, 56, 56,
    56, 56, 57, 57, 57, 57, 58, 58, 59, 59, 60, 61, 61, 61, 62, 62, 63, 63,
    63, 64, 65, 65, 66, 66, 67, 67, 68, 68, 69, 69, 69, 69, 69, 69, 70, 70,
    71, 71, 72, 73, 73, 74, 74, 74, 75, 75, 76, 77, 77, 77, 78, 79>>)

yyr2 == ZeroBased(<<
    0, 2, 2, 1, 1, 1, 1, 1, 1, 1, 1, 1, 1, 1, 2, 6, 3, 2, 6, 6, 7, 4, 5, 6,
    1, 3, 1, 3, 2, 1, 4, 1, 1, 3, 1, 1, 1, 3, 0, 2, 1, 3, 3, 1, 1, 3, 1, 1,
    1, 1, 1, 1, 1, 1, 1, 3, 3, 1, 1, 1, 3, 3, 3, 0, 2, 1, 1, 0, 1, 1>>)
=============================================================================
