------------------------------ MODULE FrontEnd ------------------------------
(***************************************************************************)
(* A statement from its text to its syntax tree: what client_handler in    *)
(* src/src/rmdb.cpp does under buffer_mutex, with the scanner and the      *)
(* parser it calls, and the call that is made of the tree (module          *)
(* Dispatch).  Statements follow one another for ever, from any            *)
(* clients (module Server has the threads and the lock); the scanner's     *)
(* statics and parse_tree live on from one to the next.                    *)
(*                                                                         *)
(* The texts are all those made of pieces: a style says which k-th pieces  *)
(* there are, and where the scanner must stand for it to be tried.  A      *)
(* piece is chosen when the scanner needs it.                              *)
(***************************************************************************)
EXTENDS Parser, Scanner, SqlSyntax, Dispatch

CONSTANTS
    Styles,           \* names of the kinds of text
    Opens(_),         \* the start state a style is tried in
    Pieces(_, _)      \* the possible k-th pieces of a style

VARIABLES
    locked,      \* a thread is between lock and unlock of buffer_mutex
    style,       \* of the text in the buffer
    typed,       \* its number of pieces
    tokens,      \* history: the tokens shifted, as <<name, text>>
    ways,        \* history: what yacc.y allows after these tokens
    turns,       \* history: matches, shifts and reductions made for this statement
    opened       \* history: a comment mark /* was in the text of a statement since
                 \* the scanner last stood outside comments after one

history == <<tokens, ways, opened>>
front_vars == <<parser_vars, scanner_vars, locked, style, typed, turns, history>>

FrontInit ==
    /\ ParserInit
    /\ ScannerInit
    /\ locked = FALSE
    /\ style = ""
    /\ typed = 0
    /\ tokens = <<>>
    /\ ways = {}
    /\ turns = 0
    /\ opened = FALSE

BeginStatement ==
    /\ ~locked
    /\ locked' = TRUE
    /\ \E s \in Styles : Opens(s) = yy_start /\ style' = s
    /\ typed' = 0
    /\ yy_scan_string
    /\ EnterYyparse
    /\ tokens' = <<>>
    /\ ways' = AtStart
    /\ turns' = 0
    /\ UNCHANGED opened

\* The text the client sent.
TypePiece ==
    /\ WantsToken /\ MoreText
    /\ \E piece \in Pieces(style, typed + 1) : Reveal(piece)
    /\ typed' = typed + 1
    /\ UNCHANGED <<parser_vars, locked, style, turns, history>>

TypeEnd ==
    /\ WantsToken /\ MoreText
    /\ EndOfText
    /\ UNCHANGED <<parser_vars, locked, style, typed, turns, history>>

\* A turn of yylex's loop; a rule that returns ends the call.
Yylex ==
    /\ WantsToken
    /\ MatchNext
    /\ LET text == SubSeq(current_buffer.text, yytext_ptr', yy_c_buf_p' - 1) IN
       IF ReturnsToken(yy_act')
       THEN /\ yychar' = TokenOf(yy_act', text)
            /\ yylval' = ValueOf(yy_act', text, yylval)
       ELSE UNCHANGED <<yychar, yylval>>
    /\ turns' = turns + 1
    /\ UNCHANGED <<yyss, yyvs, yyarg, yyresult, parse_tree, locked, style, typed, history>>

ShiftToken ==
    /\ Shift
    /\ tokens' = Append(tokens, <<yychar, yytext>>)
    /\ ways' = AfterToken(ways, yychar)
    /\ turns' = turns + 1
    /\ UNCHANGED <<scanner_vars, locked, style, typed, opened>>

ParserStep ==
    /\ Reduce \/ Accept \/ SyntaxError
    /\ turns' = turns + 1
    /\ UNCHANGED <<scanner_vars, locked, style, typed, history>>

HasMark(text, mark) == \E i \in 1..(Len(text) - 1) : SubSeq(text, i, i + 1) = mark

\* After yyparse (and do_analyze, if there is a tree to analyse).
EndStatement ==
    /\ locked /\ yyresult # Running
    /\ yy_delete_buffer
    /\ locked' = FALSE
    /\ opened' = (yy_start # INITIAL /\ (opened \/ HasMark(current_buffer.text, "/*")))
    /\ turns' = 0
    /\ UNCHANGED <<parser_vars, style, typed, tokens, ways>>

FrontNext ==
    \/ BeginStatement
    \/ TypePiece
    \/ TypeEnd
    \/ Yylex
    \/ ShiftToken
    \/ ParserStep
    \/ EndStatement

FrontSpec == FrontInit /\ [][FrontNext]_front_vars

-----------------------------------------------------------------------------
Accepted == locked /\ yyresult = 0
Refused == locked /\ yyresult = 1

\* The scanner's automaton, run from its tables and backed up where it jams,
\* takes what lex.l says: at every match the longest text that any rule of
\* the start condition matches, by the first rule that matches it; and it
\* reports the end of the text only when nothing is left of it.
LongestMatch ==
    (yyresult = Running /\ yy_act # 0) =>
        LET rest == From(current_buffer.text, yytext_ptr)
            len == yy_c_buf_p - yytext_ptr IN
        IF yy_act = YY_END_OF_BUFFER THEN rest = "" /\ current_buffer.eof
        ELSE TakesLongest(IF yy_act = 1 \/ (yy_start = INITIAL /\ yy_act # 2)
                          THEN InitialRules ELSE CommentRules,
                          yy_act, rest, len)

\* The parser accepts exactly the statements of yacc.y, and refuses another
\* at the first token that no statement continues with: the default
\* reductions made before the error is seen never shift a wrong token.
AgreesWithGrammar ==
    /\ Accepted => <<>> \in ways
    /\ Refused => yychar \notin LegalTokens(ways)
    /\ yyresult = Running => ways # {}
    /\ yyresult # 2

\* The tokens that a syntax error message says were expected are tokens the
\* statement could have gone on with.
ExpectedWereLegal ==
    Refused => \A i \in 2..Len(yyarg) : yyarg[i] \in LegalTokens(ways)

\* A statement that is accepted without a word of it being read (parse_tree is
\* null and the client gets an empty answer) has none, outside comments: a
\* text without comment marks has no letter, digit or operator.  The one
\* exception is a scanner that stands in a comment which an earlier statement
\* opened and did not close: nothing resets the start condition, and the
\* statement is swallowed.
OnlyCommentsSwallow ==
    (Accepted /\ tokens[1][1] = "T_EOF") =>
        LET text == current_buffer.text IN
        \/ opened
        \/ HasMark(text, "/*") \/ HasMark(text, "--")
        \/ CharsOf(text) \cap (alpha \cup digit \cup single_op) = {}

\* Every statement comes to its end, whatever its text, and frees buffer_mutex
\* for the other clients: the turns of the scanner and the parser are bounded
\* by the characters it has.  There is no empty match that repeats, and no
\* round of reductions that consumes nothing.
TurnsPerCharacter == 4
TurnsBounded == turns <= TurnsPerCharacter * (Len(current_buffer.text) + 2)

-----------------------------------------------------------------------------
(* What a call says, as tokens: <<name>>, or <<name, value>>.              *)

SeparatedBy(token, seqs) ==
    FlattenSeq([i \in 1..Len(seqs) |-> IF i = 1 THEN seqs[1] ELSE <<<<token>>>> \o seqs[i]])
Each(Said(_), seq) == [i \in 1..Len(seq) |-> Said(seq[i])]
Parenthesised(seq) == <<<<"(">>>> \o seq \o <<<<")">>>>
Say(words) == [i \in DOMAIN words |-> <<words[i]>>]

NameSaid(name) == <<<<"IDENTIFIER", name>>>>
ColSaid(c) ==
    (IF c.tab_name = "" THEN <<>> ELSE NameSaid(c.tab_name) \o Say(<<".">>))
        \o NameSaid(c.col_name)
ValueToken == [TYPE_INT |-> "VALUE_INT", TYPE_FLOAT |-> "VALUE_FLOAT",
               TYPE_STRING |-> "VALUE_STRING"]
ValueSaid(v) == <<<<ValueToken[v.type], v.val>>>>
TypeToken == [TYPE_INT |-> "INT", TYPE_FLOAT |-> "FLOAT", TYPE_STRING |-> "CHAR"]
FieldSaid(f) ==
    NameSaid(f.name) \o Say(<<TypeToken[f.type]>>)
        \o (IF f.type = "TYPE_STRING" THEN Parenthesised(<<<<"VALUE_INT", f.len>>>>) ELSE <<>>)
OpToken == [OP_EQ |-> "=", OP_LT |-> "<", OP_GT |-> ">", OP_NE |-> "NEQ", OP_LE |-> "LEQ",
            OP_GE |-> "GEQ"]
CondSaid(c) ==
    ColSaid(c.lhs_col) \o Say(<<OpToken[c.op]>>)
        \o (IF c.is_rhs_val THEN ValueSaid(c.rhs) ELSE ColSaid(c.rhs))
SetSaid(s) == ColSaid(s.lhs) \o Say(<<"=">>) \o ValueSaid(s.rhs)
WhereSaid(conds) ==
    IF conds = <<>> THEN <<>> ELSE Say(<<"WHERE">>) \o SeparatedBy("AND", Each(CondSaid, conds))

SelectSaid(sel_cols, joins) ==
    Say(<<"SELECT">>)
        \o (IF sel_cols = AllColumns THEN Say(<<"*">>)
            ELSE SeparatedBy(",", Each(ColSaid, sel_cols)))
        \o Say(<<"FROM">>) \o SeparatedBy(",", Each(NameSaid, joins.tables))
        \o WhereSaid(joins.conds)

DmlSaid(e) ==
    CASE e.class = "InsertExecutor" ->
            Say(<<"INSERT", "INTO">>) \o NameSaid(e.tab_name) \o Say(<<"VALUES">>)
                \o Parenthesised(SeparatedBy(",", Each(ValueSaid, e.values)))
      [] e.class = "DeleteExecutor" ->
            Say(<<"DELETE", "FROM">>) \o NameSaid(e.tab_name) \o WhereSaid(e.scan.conds)
      [] e.class = "UpdateExecutor" ->
            Say(<<"UPDATE">>) \o NameSaid(e.tab_name) \o Say(<<"SET">>)
                \o SeparatedBy(",", Each(SetSaid, e.set_clauses)) \o WhereSaid(e.scan.conds)
      [] e.class = "ProjectionExecutor" -> SelectSaid(e.sel_cols, e.prev)

PlainCall == [show_tables |-> <<"SHOW", "TABLES">>, set_txn_mode |-> <<"TXN_BEGIN">>,
              commit |-> <<"TXN_COMMIT">>, abort |-> <<"TXN_ABORT">>]
TableCall == [drop_table |-> <<"DROP", "TABLE">>, desc_table |-> <<"DESC">>,
              create_table |-> <<"CREATE", "TABLE">>, create_index |-> <<"CREATE", "INDEX">>,
              drop_index |-> <<"DROP", "INDEX">>]
CallSaid(c) ==
    CASE c.call \in DOMAIN PlainCall -> Say(PlainCall[c.call])
      [] c.call \in DOMAIN TableCall ->
            Say(TableCall[c.call]) \o NameSaid(c.args[1])
                \o (IF Len(c.args) = 1 THEN <<>>
                    ELSE Parenthesised(SeparatedBy(",",
                        IF c.call = "create_table" THEN Each(FieldSaid, c.args[2])
                        ELSE Each(NameSaid, c.args[2]))))
      [] c.call \in {"run_dml", "select_from"} -> DmlSaid(c.args[1])

\* The ways to say a sort plan.  It does not tell ASC from nothing, it has the
\* table its column was found in and not the qualifier that was written, and it
\* has no column when no table of FROM has one of the name in the clause.
SortSaid(sort, clause) ==
    {Say(<<"ORDER", "BY">>)
        \o ColSaid(TabCol(clause.tab_name,
                          IF sort.sel_col = TabCol("", "") THEN clause.col_name
                          ELSE sort.sel_col.col_name))
        \o Say(dir) : dir \in IF sort.is_desc THEN {<<"DESC">>} ELSE {<<"ASC">>, <<>>}}

\* A token and its text stand for what is said.  JOIN between tables says what
\* a comma says, ROLLBACK what ABORT says.
StandsFor(token, said) ==
    CASE said[1] = "," -> token[1] \in {",", "JOIN"}
      [] said[1] = "TXN_ABORT" -> token[1] \in {"TXN_ABORT", "TXN_ROLLBACK"}
      [] said[1] = "VALUE_INT" -> token[1] = said[1] /\
            token[2] \in {ToString(said[2]), "+" \o ToString(said[2])}
      [] said[1] = "VALUE_FLOAT" -> token[1] = said[1] /\
            token[2] = said[2].whole \o "." \o said[2].fraction
      [] said[1] = "VALUE_STRING" -> token[1] = said[1] /\ token[2] = "'" \o said[2] \o "'"
      [] said[1] = "IDENTIFIER" -> token[1] = said[1] /\ token[2] = said[2]
      [] OTHER -> token[1] = said[1]

\* The ways to say what is done with a tree; of a SELECT with ORDER BY, what was
\* planned, as the process ends before anything is done.
Sayings(tree) ==
    LET call == Performed(tree)
        projection == Planned(tree).subplan
        sort == projection.subplan IN
    CASE call.call = "help_info" -> {Say(<<"HELP">>)}
      [] call.call = "crash" ->
            {SelectSaid(projection.sel_cols, sort.subplan) \o order \o Say(<<";">>) :
                order \in SortSaid(sort, tree.order.cols)}
      [] OTHER -> {CallSaid(call) \o Say(<<";">>)}

Says(tree, sequence) ==
    \E said \in Sayings(tree) :
        /\ Len(sequence) = Len(said)
        /\ \A i \in 1..Len(said) : StandsFor(sequence[i], said[i])

\* What client_handler does is what the statement that was read says: the call
\* that analyser, planner, portal and QlManager make of its tree, written out
\* again, is the same tokens in the same order with the same names and values.
\* No clause is dropped, and none is left over from another rule or statement,
\* though every rule starts from a copy of $1 and an empty rule from whatever
\* its slot of the value stack held.  A SELECT with ORDER BY is not performed;
\* its plan says what was read, the direction and the name of the sort column
\* included where a table of FROM has such a column.  Its qualifier is lost, and
\* a name that no table has is not refused: of those nothing is said.
TreeSaysStatement ==
    Accepted =>
        IF parse_tree = Null THEN tokens \in {<<<<"EXIT", tokens[1][2]>>>>, <<<<"T_EOF", "">>>>}
        ELSE parse_tree # OldTree /\ Says(parse_tree, tokens)
=============================================================================
