------------------------------- MODULE Parser -------------------------------
(***************************************************************************)
(* yyparse, src/src/parser/yacc.tab.cpp: the table-driven driver and the   *)
(* semantic actions, one TLA+ action per turn of the driver.  The stacks   *)
(* are local to a call; parse_tree is the global of ast.cpp.               *)
(*                                                                         *)
(* A token is known by its name in yytname.  yyvs keeps what was popped:   *)
(* an empty rule starts from the slot above the top of the stack, whatever *)
(* was left there.  Locations are left out.                                *)
(***************************************************************************)
EXTENDS ParserTables, Ast, SequencesExt

YYINITDEPTH == 200
YYEMPTY == "empty"
Running == -1
OldTree == Node("the tree of an earlier statement")

VARIABLES
    yyss,        \* the state stack, bottom first; yyssp is its end
    yyvs,        \* the array of semantic values, popped ones included
    yychar,      \* the lookahead token, or YYEMPTY
    yylval,      \* the semantic value the scanner writes
    yyarg,       \* what the error message names: the offender, then what was expected
    yyresult,    \* Running, 0 accepted, 1 syntax error, 2 out of stack
    parse_tree

parser_vars == <<yyss, yyvs, yychar, yylval, yyarg, yyresult, parse_tree>>

ParserInit ==
    /\ yyss = <<0>>
    /\ yyvs = <<SemValue>>
    /\ yychar = YYEMPTY
    /\ yylval = SemValue
    /\ yyarg = <<>>
    /\ yyresult = 0
    /\ parse_tree = Null

\* A call of yyparse: fresh locals.
EnterYyparse ==
    /\ yyss' = <<0>>
    /\ yyvs' = <<SemValue>>
    /\ yychar' = YYEMPTY
    /\ yylval' = SemValue
    /\ yyarg' = <<>>
    /\ yyresult' = Running
    /\ parse_tree' = IF parse_tree = Null THEN Null ELSE OldTree

yystate == Last(yyss)

\* The symbol number of a token name.
SymbolOf == [t \in {yytname[i] : i \in 0..(YYNTOKENS - 1)} |->
                CHOOSE i \in 0..(YYNTOKENS - 1) : yytname[i] = t]
YYTRANSLATE(token) == SymbolOf[token]

\* Faulty variant: yycheck is not asked whose entry it is.
InRowUnchecked(yyn, x) == yyn + x \in 0..YYLAST

\* The entry of symbol x in a row that starts at yyn, if it has one.
InRow(yyn, x) == yyn + x \in 0..YYLAST /\ yycheck[yyn + x] = x

\* yybackup: whether the state decides without a lookahead.
ByDefault == yypact[yystate] = YYPACT_NINF

\* A token is read when the state needs one and none is there.
WantsToken == yyresult = Running /\ ~ByDefault /\ yychar = YYEMPTY

\* What to do: n > 0 shift and go to state n, n < 0 reduce by rule -n, 0 error.
Decision ==
    IF ByDefault THEN -yydefact[yystate]
    ELSE LET yyn == yypact[yystate]
             yytoken == YYTRANSLATE(yychar) IN
         IF InRow(yyn, yytoken) THEN yytable[yyn + yytoken] ELSE -yydefact[yystate]

Decides == yyresult = Running /\ ~WantsToken

\* *++yyvsp = value, with depth slots below.
PutValue(depth, value) ==
    IF depth < Len(yyvs) THEN [yyvs EXCEPT ![depth + 1] = value] ELSE Append(yyvs, value)

\* yynewstate, yysetstate: the stack cannot be extended.
Push(stack, state) ==
    /\ yyss' = Append(stack, state)
    /\ yyresult' = IF Len(stack) + 1 >= YYINITDEPTH THEN 2
                   ELSE IF state = YYFINAL THEN 0 ELSE Running

Shift ==
    /\ Decides /\ Decision > 0
    /\ yyvs' = PutValue(Len(yyss), yylval)
    /\ Push(yyss, Decision)
    /\ yychar' = YYEMPTY
    /\ UNCHANGED <<yylval, yyarg, parse_tree>>

-----------------------------------------------------------------------------
(* The semantic actions: v is the default yyval, D[k] is $k.               *)

TxnAction(n, v) ==
    Set(v, "sv_node", Node(<<"TxnBegin", "TxnCommit", "TxnAbort", "TxnRollback",
                             "ShowTables">>[n - 9]))

DdlAction(n, v, D) ==
    Set(v, "sv_node",
        CASE n = 15 -> CreateTable(Get(D[3], "sv_str"), Get(D[5], "sv_fields"))
          [] n = 16 -> DropTable(Get(D[3], "sv_str"))
          [] n = 17 -> DescTable(Get(D[2], "sv_str"))
          [] n = 18 -> CreateIndex(Get(D[3], "sv_str"), Get(D[5], "sv_strs"))
          [] n = 19 -> DropIndex(Get(D[3], "sv_str"), Get(D[5], "sv_strs")))

DmlAction(n, v, D) ==
    Set(v, "sv_node",
        CASE n = 20 -> InsertStmt(Get(D[3], "sv_str"), Get(D[6], "sv_vals"))
          [] n = 21 -> DeleteStmt(Get(D[3], "sv_str"), Get(D[4], "sv_conds"))
          [] n = 22 -> UpdateStmt(Get(D[2], "sv_str"), Get(D[4], "sv_set_clauses"),
                                  Get(D[5], "sv_conds"))
          [] n = 23 -> SelectStmt(Get(D[2], "sv_cols"), Get(D[4], "sv_strs"),
                                  Get(D[5], "sv_conds"), Get(D[6], "sv_orderby")))

FieldAction(n, v, D) ==
    CASE n = 24 -> Set(v, "sv_fields", <<Get(D[1], "sv_field")>>)
      [] n = 25 -> PushBack(v, "sv_fields", Get(D[3], "sv_field"))
      [] n = 26 -> Set(v, "sv_strs", <<Get(D[1], "sv_str")>>)
      [] n = 27 -> PushBack(v, "sv_strs", Get(D[3], "sv_str"))
      [] n = 28 -> Set(v, "sv_field", ColDef(Get(D[1], "sv_str"), Get(D[2], "sv_type_len")))
      [] n = 29 -> Set(v, "sv_type_len", TypeLen("SV_TYPE_INT", 4))
      [] n = 30 -> Set(v, "sv_type_len", TypeLen("SV_TYPE_STRING", Get(D[3], "sv_int")))
      [] n = 31 -> Set(v, "sv_type_len", TypeLen("SV_TYPE_FLOAT", 4))

ValueAction(n, v, D) ==
    CASE n = 32 -> Set(v, "sv_vals", <<Get(D[1], "sv_val")>>)
      [] n = 33 -> PushBack(v, "sv_vals", Get(D[3], "sv_val"))
      [] n = 34 -> Set(v, "sv_val", IntLit(Get(D[1], "sv_int")))
      [] n = 35 -> Set(v, "sv_val", FloatLit(Get(D[1], "sv_float")))
      [] n = 36 -> Set(v, "sv_val", StringLit(Get(D[1], "sv_str")))

ConditionAction(n, v, D) ==
    CASE n = 37 -> Set(v, "sv_cond", BinaryExpr(Get(D[1], "sv_col"),
                                                Get(D[2], "sv_comp_op"), Get(D[3], "sv_expr")))
      [] n = 38 -> v
      [] n = 39 -> Set(v, "sv_conds", Get(D[2], "sv_conds"))
      [] n = 40 -> Set(v, "sv_conds", <<Get(D[1], "sv_cond")>>)
      [] n = 41 -> PushBack(v, "sv_conds", Get(D[3], "sv_cond"))
      [] n = 42 -> Set(v, "sv_col", Col(Get(D[1], "sv_str"), Get(D[3], "sv_str")))
      [] n = 43 -> Set(v, "sv_col", Col("", Get(D[1], "sv_str")))
      [] n = 44 -> Set(v, "sv_cols", <<Get(D[1], "sv_col")>>)
      [] n = 45 -> PushBack(v, "sv_cols", Get(D[3], "sv_col"))

OpAction(n, v, D) ==
    CASE n \in 46..51 ->
            Set(v, "sv_comp_op", <<"SV_OP_EQ", "SV_OP_LT", "SV_OP_GT", "SV_OP_NE",
                                   "SV_OP_LE", "SV_OP_GE">>[n - 45])
      [] n = 52 -> Set(v, "sv_expr", Get(D[1], "sv_val"))
      [] n = 53 -> Set(v, "sv_expr", Get(D[1], "sv_col"))

ClauseAction(n, v, D) ==
    CASE n = 54 -> Set(v, "sv_set_clauses", <<Get(D[1], "sv_set_clause")>>)
      [] n = 55 -> PushBack(v, "sv_set_clauses", Get(D[3], "sv_set_clause"))
      [] n = 56 -> Set(v, "sv_set_clause", SetClause(Get(D[1], "sv_str"), Get(D[3], "sv_val")))
      [] n = 57 -> Set(v, "sv_cols", <<>>)
      [] n = 59 -> Set(v, "sv_strs", <<Get(D[1], "sv_str")>>)
      [] n \in 60..61 -> PushBack(v, "sv_strs", Get(D[3], "sv_str"))
      [] n = 62 -> Set(v, "sv_orderby", Get(D[3], "sv_orderby"))
      [] n = 64 -> Set(v, "sv_orderby", OrderBy(Get(D[1], "sv_col"),
                                                Get(D[2], "sv_orderby_dir")))
      [] n \in 65..67 ->
            Set(v, "sv_orderby_dir", <<"OrderBy_ASC", "OrderBy_DESC", "OrderBy_DEFAULT">>[n - 64])

\* Rules without an action (stmt, the selector's colList, opt_order_clause's
\* empty rule, tbName, colName) pass the default on.
SemanticAction(n, v, D) ==
    CASE n \in 10..14 -> TxnAction(n, v)
      [] n \in 15..19 -> DdlAction(n, v, D)
      [] n \in 20..23 -> DmlAction(n, v, D)
      [] n \in 24..31 -> FieldAction(n, v, D)
      [] n \in 32..36 -> ValueAction(n, v, D)
      [] n \in 37..45 -> ConditionAction(n, v, D)
      [] n \in 46..53 -> OpAction(n, v, D)
      [] n \in (54..67) \ {58, 63} -> ClauseAction(n, v, D)
      [] OTHER -> v

\* Faulty variant: the value of $1 is not copied for the action to add to.
FreshValue(yylen) == SemValue

\* yyvsp[1 - yylen]: $1, or the slot above the stack for an empty rule.
DefaultValue(yylen) ==
    LET i == Len(yyss) + 1 - yylen IN IF i <= Len(yyvs) THEN yyvs[i] ELSE SemValue

GotoState(state, n) ==
    LET yylhs == yyr1[n] - YYNTOKENS
        yyi == yypgoto[yylhs] + state IN
    IF yyi \in 0..YYLAST /\ yycheck[yyi] = state THEN yytable[yyi] ELSE yydefgoto[yylhs]

Reduce ==
    /\ Decides /\ Decision < 0
    /\ LET n == -Decision
           yylen == yyr2[n]
           below == SubSeq(yyss, 1, Len(yyss) - yylen)
           Dollar == SubSeq(yyvs, Len(below) + 1, Len(yyss)) IN
        /\ n \notin 2..5
        /\ yyvs' = PutValue(Len(below), SemanticAction(n, DefaultValue(yylen), Dollar))
        /\ Push(below, GotoState(Last(below), n))
        /\ UNCHANGED <<yychar, yylval, yyarg, parse_tree>>

\* The four rules of start.
StartTree(n) ==
    CASE n = 2 -> Get(yyvs[Len(yyss) - 1], "sv_node")
      [] n = 3 -> Node("Help")
      [] n \in 4..5 -> Null

\* They end in YYACCEPT: the call returns 0, its stacks are gone.
Accept ==
    /\ Decides /\ -Decision \in 2..5
    /\ parse_tree' = StartTree(-Decision)
    /\ yyss' = <<0>>
    /\ yyresult' = 0
    /\ UNCHANGED <<yyvs, yychar, yylval, yyarg>>

-----------------------------------------------------------------------------
(* Errors.                                                                 *)

\* yypcontext_expected_tokens, in the order of their numbers.
Expected ==
    LET yyn == yypact[yystate] IN
    SelectSeq([i \in 1..(YYNTOKENS - 1) |-> IF i = 1 THEN 0 ELSE i],
              LAMBDA x : ~ByDefault /\ InRow(yyn, x))

\* Faulty variant: the names are read one entry too far.
ErrorArgumentsOffByOne ==
    IF yychar = YYEMPTY THEN <<>>
    ELSE <<yychar>> \o (IF Len(Expected) > 4 THEN <<>>
                        ELSE [i \in 1..Len(Expected) |-> yytname[Expected[i] + 1]])

\* yy_syntax_error_arguments: the unexpected token, and the expected ones when
\* the message has room for all of them.
ErrorArguments ==
    IF yychar = YYEMPTY THEN <<>>
    ELSE <<yychar>> \o (IF Len(Expected) > 4 THEN <<>>
                        ELSE [i \in 1..Len(Expected) |-> yytname[Expected[i]]])

ShiftsError(state) ==
    LET yyn == yypact[state] IN
    yyn # YYPACT_NINF /\ InRow(yyn, 1) /\ yytable[yyn + 1] > 0

\* yyerrlab, yyerrlab1: report, then pop states until one shifts the error
\* token.  The grammar has no error productions: the stack runs empty.
SyntaxError ==
    /\ Decides /\ Decision = 0
    /\ \A i \in 1..Len(yyss) : ~ShiftsError(yyss[i])
    /\ yyarg' = ErrorArguments
    /\ yyss' = <<0>>
    /\ yyresult' = 1
    /\ UNCHANGED <<yyvs, yychar, yylval, parse_tree>>
=============================================================================
