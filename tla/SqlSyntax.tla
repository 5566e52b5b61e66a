----------------------------- MODULE SqlSyntax ------------------------------
(***************************************************************************)
(* The language as the two sources of the front end state it, independent  *)
(* of the generated tables: the patterns of lex.l and the rules of yacc.y. *)
(***************************************************************************)
EXTENDS Integers, Sequences, TLC

-----------------------------------------------------------------------------
(* lex.l.  Characters are strings of length one; patterns are caseless.    *)

At(s, i) == SubSeq(s, i, i)
CharsOf(s) == {At(s, i) : i \in 1..Len(s)}
From(s, i) == SubSeq(s, i, Len(s))

LowerCase == "abcdefghijklmnopqrstuvwxyz"
UpperCase == "ABCDEFGHIJKLMNOPQRSTUVWXYZ"
alpha == CharsOf(LowerCase) \cup CharsOf(UpperCase)
digit == CharsOf("0123456789")
single_op == CharsOf(";(),*=><.")

SameLetter(c, d) ==
    \/ c = d
    \/ \E i \in 1..26 : c = At(UpperCase, i) /\ d = At(LowerCase, i)
Caseless(s, word) ==
    Len(s) = Len(word) /\ \A i \in 1..Len(s) : SameLetter(At(s, i), At(word, i))

identifier(s) ==
    s # "" /\ At(s, 1) \in alpha /\ CharsOf(s) \subseteq alpha \cup digit \cup {"_"}

Unsigned(s) == IF s # "" /\ At(s, 1) \in {"+", "-"} THEN From(s, 2) ELSE s
value_int(s) == Unsigned(s) # "" /\ CharsOf(Unsigned(s)) \subseteq digit
value_float(s) ==
    LET u == Unsigned(s) IN
    \E i \in 2..Len(u) :
        /\ At(u, i) = "."
        /\ CharsOf(SubSeq(u, 1, i - 1)) \cup CharsOf(From(u, i + 1)) \subseteq digit
value_string(s) ==
    /\ Len(s) >= 2 /\ At(s, 1) = "'" /\ At(s, Len(s)) = "'"
    /\ "'" \notin CharsOf(SubSeq(s, 2, Len(s) - 1))
line_comment(s) ==
    Len(s) >= 2 /\ SubSeq(s, 1, 2) = "--" /\ "\n" \notin CharsOf(s)
white_space(s) == s # "" /\ CharsOf(s) \subseteq {" ", "\t"}

\* The words of rules 8 to 40.
Words == <<
    "show", "begin", "commit", "abort", "rollback", "tables", "create", "table", "drop",
    "desc", "insert", "into", "values", "delete", "from", "where", "update", "set",
    "select", "int", "char", "float", "index", "and", "join", "exit", "help", "order",
    "by", "asc", ">=", "<=", "<>">>

CommentRules == {2, 3, 4, 47}
InitialRules == (1..47) \ (2..4)

\* The rules whose pattern the text s matches.
RulesMatching(s) ==
    {n \in 8..40 : Caseless(s, Words[n - 7])} \cup
    {p[1] : p \in {q \in {
        <<1, s = "/*">>,
        <<2, s = "*/">>,
        <<3, Len(s) = 1 /\ s # "*">>,
        <<4, s = "*">>,
        <<5, line_comment(s)>>,
        <<6, white_space(s)>>,
        <<7, s \in {"\r", "\n", "\r\n"}>>,
        <<41, s \in single_op>>,
        <<42, identifier(s)>>,
        <<43, value_int(s)>>,
        <<44, value_float(s)>>,
        <<45, value_string(s)>>,
        <<46, Len(s) = 1 /\ s # "\n">>,
        <<47, Len(s) = 1>>} : q[2]}}

\* Of the given rules, n is the one that takes the first len characters of s:
\* none matches more, none before it matches as much.
TakesLongest(rules, n, s, len) ==
    LET matching(k) == rules \cap RulesMatching(SubSeq(s, 1, k)) IN
    /\ n \in matching(len)
    /\ \A m \in matching(len) : n <= m
    /\ \A k \in (len + 1)..Len(s) : matching(k) = {}

-----------------------------------------------------------------------------
(* yacc.y, alternatives as sequences of symbols.                           *)

StatementRules == [
    start |-> {<<"stmt", ";">>, <<"HELP">>, <<"EXIT">>, <<"T_EOF">>},
    stmt |-> {<<"dbStmt">>, <<"ddl">>, <<"dml">>, <<"txnStmt">>},
    txnStmt |-> {<<"TXN_BEGIN">>, <<"TXN_COMMIT">>, <<"TXN_ABORT">>, <<"TXN_ROLLBACK">>},
    dbStmt |-> {<<"SHOW", "TABLES">>},
    ddl |-> {<<"CREATE", "TABLE", "tbName", "(", "fieldList", ")">>,
             <<"DROP", "TABLE", "tbName">>, <<"DESC", "tbName">>,
             <<"CREATE", "INDEX", "tbName", "(", "colNameList", ")">>,
             <<"DROP", "INDEX", "tbName", "(", "colNameList", ")">>},
    dml |-> {<<"INSERT", "INTO", "tbName", "VALUES", "(", "valueList", ")">>,
             <<"DELETE", "FROM", "tbName", "optWhereClause">>,
             <<"UPDATE", "tbName", "SET", "setClauses", "optWhereClause">>,
             <<"SELECT", "selector", "FROM", "tableList", "optWhereClause",
               "opt_order_clause">>}]

ListRules == [
    fieldList |-> {<<"field">>, <<"fieldList", ",", "field">>},
    colNameList |-> {<<"colName">>, <<"colNameList", ",", "colName">>},
    field |-> {<<"colName", "type">>},
    type |-> {<<"INT">>, <<"CHAR", "(", "VALUE_INT", ")">>, <<"FLOAT">>},
    valueList |-> {<<"value">>, <<"valueList", ",", "value">>},
    value |-> {<<"VALUE_INT">>, <<"VALUE_FLOAT">>, <<"VALUE_STRING">>},
    condition |-> {<<"col", "op", "expr">>},
    optWhereClause |-> {<<>>, <<"WHERE", "whereClause">>},
    whereClause |-> {<<"condition">>, <<"whereClause", "AND", "condition">>},
    col |-> {<<"tbName", ".", "colName">>, <<"colName">>},
    colList |-> {<<"col">>, <<"colList", ",", "col">>}]

ClauseRules == [
    op |-> {<<"=">>, <<"<">>, <<">">>, <<"NEQ">>, <<"LEQ">>, <<"GEQ">>},
    expr |-> {<<"value">>, <<"col">>},
    setClauses |-> {<<"setClause">>, <<"setClauses", ",", "setClause">>},
    setClause |-> {<<"colName", "=", "value">>},
    selector |-> {<<"*">>, <<"colList">>},
    tableList |-> {<<"tbName">>, <<"tableList", ",", "tbName">>,
                   <<"tableList", "JOIN", "tbName">>},
    opt_order_clause |-> {<<"ORDER", "BY", "order_clause">>, <<>>},
    order_clause |-> {<<"col", "opt_asc_desc">>},
    opt_asc_desc |-> {<<"ASC">>, <<"DESC">>, <<>>},
    tbName |-> {<<"IDENTIFIER">>},
    colName |-> {<<"IDENTIFIER">>}]

Grammar == StatementRules @@ ListRules @@ ClauseRules

\* A list rule calls itself on the left: X is any other alternative of it,
\* then any number of the tails that follow the call.
LeftRecursive(X, alt) == alt # <<>> /\ alt[1] = X
Bases(X) == {alt \in Grammar[X] : ~LeftRecursive(X, alt)}
Tails(X) == {Tail(alt) : alt \in {a \in Grammar[X] : LeftRecursive(X, a)}}
MoreOf == [X \in DOMAIN Grammar |-> X \o "..."]
ListOf(more) == {X \in DOMAIN Grammar : MoreOf[X] = more}

\* What is still to be read, as a sequence of symbols, developed until it
\* starts with a token.
RECURSIVE Developed(_)
Developed(rest) ==
    IF rest = <<>> THEN {<<>>}
    ELSE LET X == Head(rest) IN
         IF X \in DOMAIN Grammar
         THEN UNION {Developed(alt \o (IF Tails(X) = {} THEN <<>> ELSE <<MoreOf[X]>>)
                                   \o Tail(rest)) : alt \in Bases(X)}
         ELSE IF ListOf(X) # {}
         THEN Developed(Tail(rest)) \cup
              UNION {UNION {Developed(t \o rest) : t \in Tails(L)} : L \in ListOf(X)}
         ELSE {rest}

\* The ways to go on: at the start of a statement, and after a token.
AtStart == Developed(<<"start">>)
AfterToken(ways, token) ==
    UNION {Developed(Tail(w)) : w \in {v \in ways : v # <<>> /\ v[1] = token}}
LegalTokens(ways) == {w[1] : w \in ways \ {<<>>}}
=============================================================================
