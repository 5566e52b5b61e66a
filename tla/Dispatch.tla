------------------------------ MODULE Dispatch ------------------------------
(***************************************************************************)
(* A statement from its syntax tree to the call that performs it: the      *)
(* query of do_analyze (src/src/analyze/analyze.cpp), the plan of          *)
(* plan_query and do_planner (src/src/optimizer), the portal made of it    *)
(* (src/src/portal.h) and the switches of QlManager                        *)
(* (src/src/execution/execution_manager.cpp).  All four are functions of   *)
(* the tree once the checks of module Analyze have passed.                 *)
(*                                                                         *)
(* What depends on the catalogue is elsewhere, but for the column of an    *)
(* ORDER BY: a column name keeps the qualifier it was written with (module *)
(* Analyze infers the missing ones), the columns of * are AllColumns, the  *)
(* joins of a SELECT are planned by module Planner.  No table has an       *)
(* index, so every scan is sequential.                                     *)
(***************************************************************************)
EXTENDS Ast, SequencesExt

CONSTANT ColumnNames(_)   \* the names of a table's columns, in its order

-----------------------------------------------------------------------------
(* Analyze: Query and what its members are converted from.                 *)

AllColumns == <<>>
TabCol(tab_name, col_name) == [tab_name |-> tab_name, col_name |-> col_name]

convert_sv_value(v) ==
    [type |-> [IntLit |-> "TYPE_INT", FloatLit |-> "TYPE_FLOAT",
               StringLit |-> "TYPE_STRING"][v.node],
     val |-> v.val]

convert_sv_comp_op(op) ==
    [SV_OP_EQ |-> "OP_EQ", SV_OP_NE |-> "OP_NE", SV_OP_LT |-> "OP_LT",
     SV_OP_GT |-> "OP_GT", SV_OP_LE |-> "OP_LE", SV_OP_GE |-> "OP_GE"][op]

Condition(expr) ==
    [lhs_col |-> TabCol(expr.lhs.tab_name, expr.lhs.col_name),
     op |-> convert_sv_comp_op(expr.op),
     is_rhs_val |-> expr.rhs.node # "Col",
     rhs |-> IF expr.rhs.node # "Col" THEN convert_sv_value(expr.rhs)
             ELSE TabCol(expr.rhs.tab_name, expr.rhs.col_name)]

get_clause(sv_conds) == [i \in DOMAIN sv_conds |-> Condition(sv_conds[i])]

Query(parse) == [parse |-> parse, tables |-> <<>>, cols |-> <<>>, conds |-> <<>>,
                 set_clauses |-> <<>>, values |-> <<>>]

\* The list of tables is moved out of the tree.
SelectQueryOf(x) ==
    [Query([x EXCEPT !.tabs = <<>>]) EXCEPT
        !.tables = x.tabs,
        !.cols = IF x.cols = <<>> THEN AllColumns
                 ELSE [i \in DOMAIN x.cols |-> TabCol(x.cols[i].tab_name, x.cols[i].col_name)],
        !.conds = get_clause(x.conds)]

UpdateQueryOf(x) ==
    [Query(x) EXCEPT
        !.set_clauses = [i \in DOMAIN x.set_clauses |->
            [lhs |-> TabCol("", x.set_clauses[i].col_name),
             rhs |-> convert_sv_value(x.set_clauses[i].val)]],
        !.conds = get_clause(x.conds)]

do_analyze(parse) ==
    CASE parse.node = "SelectStmt" -> SelectQueryOf(parse)
      [] parse.node = "UpdateStmt" -> UpdateQueryOf(parse)
      [] parse.node = "DeleteStmt" -> [Query(parse) EXCEPT !.conds = get_clause(parse.conds)]
      [] parse.node = "InsertStmt" ->
            [Query(parse) EXCEPT
                !.values = [i \in DOMAIN parse.vals |-> convert_sv_value(parse.vals[i])]]
      [] OTHER -> Query(parse)

-----------------------------------------------------------------------------
(* Optimizer and Planner: plans have the members of plan.h.                *)

OtherPlan(tag, tab_name) == [class |-> "OtherPlan", tag |-> tag, tab_name |-> tab_name]
DDLPlan(tag, tab_name, col_names, cols) ==
    [class |-> "DDLPlan", tag |-> tag, tab_name |-> tab_name, tab_col_names |-> col_names,
     cols |-> cols]
DMLPlan(tag, subplan, tab_name, values, conds, set_clauses) ==
    [class |-> "DMLPlan", tag |-> tag, subplan |-> subplan, tab_name |-> tab_name,
     values |-> values, conds |-> conds, set_clauses |-> set_clauses]
ProjectionPlan(subplan, sel_cols) ==
    [tag |-> "T_Projection", subplan |-> subplan, sel_cols |-> sel_cols]
SortPlan(subplan, sel_col, is_desc) ==
    [tag |-> "T_Sort", subplan |-> subplan, sel_col |-> sel_col, is_desc |-> is_desc]
SeqScan(tab_name, conds) == [tag |-> "T_SeqScan", tab_name |-> tab_name, conds |-> conds]
NoPlan == [tag |-> "T_Invalid"]

interp_sv_type(sv_type) ==
    [SV_TYPE_INT |-> "TYPE_INT", SV_TYPE_FLOAT |-> "TYPE_FLOAT",
     SV_TYPE_STRING |-> "TYPE_STRING"][sv_type]

ColDefs(fields) ==
    [i \in DOMAIN fields |->
        [name |-> fields[i].col_name, type |-> interp_sv_type(fields[i].type_len.type),
         len |-> fields[i].type_len.len]]

\* The sort column is looked up by its name alone: the last of that name in the
\* tables of FROM, whatever its qualifier, and no column at all if there is none.
generate_sort_plan(query, plan) ==
    LET x == query.parse
        TabCols(t) == [i \in DOMAIN ColumnNames(t) |-> TabCol(t, ColumnNames(t)[i])]
        all_cols == FlattenSeq([i \in DOMAIN query.tables |-> TabCols(query.tables[i])])
        named == SelectSeq(all_cols, LAMBDA col : col.col_name = x.order.cols.col_name) IN
    IF ~x.has_sort THEN plan
    ELSE SortPlan(plan, IF named = <<>> THEN TabCol("", "") ELSE Last(named),
                  x.order.orderby_dir = "OrderBy_DESC")

physical_optimization(query) ==
    generate_sort_plan(query,
        [tag |-> "T_NestLoop", tables |-> query.tables, conds |-> query.conds])

generate_select_plan(query) == ProjectionPlan(physical_optimization(query), query.cols)

do_planner(query) ==
    LET x == query.parse IN
    CASE x.node = "CreateTable" ->
            DDLPlan("T_CreateTable", x.tab_name, <<>>, ColDefs(x.fields))
      [] x.node = "DropTable" -> DDLPlan("T_DropTable", x.tab_name, <<>>, <<>>)
      [] x.node = "CreateIndex" -> DDLPlan("T_CreateIndex", x.tab_name, x.col_names, <<>>)
      [] x.node = "DropIndex" -> DDLPlan("T_DropIndex", x.tab_name, x.col_names, <<>>)
      [] x.node = "InsertStmt" ->
            DMLPlan("T_Insert", NoPlan, x.tab_name, query.values, <<>>, <<>>)
      [] x.node = "DeleteStmt" ->
            DMLPlan("T_Delete", SeqScan(x.tab_name, query.conds), x.tab_name, <<>>,
                    query.conds, <<>>)
      [] x.node = "UpdateStmt" ->
            DMLPlan("T_Update", SeqScan(x.tab_name, query.conds), x.tab_name, <<>>,
                    query.conds, query.set_clauses)
      [] x.node = "SelectStmt" ->
            DMLPlan("T_select", generate_select_plan(query), "", <<>>, <<>>, <<>>)

OtherTag ==
    [Help |-> "T_Help", ShowTables |-> "T_ShowTable", DescTable |-> "T_DescTable",
     TxnBegin |-> "T_Transaction_begin", TxnAbort |-> "T_Transaction_abort",
     TxnCommit |-> "T_Transaction_commit", TxnRollback |-> "T_Transaction_rollback"]

plan_query(query) ==
    LET x == query.parse IN
    IF x.node \in DOMAIN OtherTag
    THEN OtherPlan(OtherTag[x.node], IF x.node = "DescTable" THEN x.tab_name ELSE "")
    ELSE do_planner(query)

-----------------------------------------------------------------------------
(* Portal: the record ids of an UPDATE or a DELETE are those its scan      *)
(* selects, see module Statements.                                         *)

\* The projection of a T_select asks its child for cols().  SortExecutor inherits
\* the cols() of AbstractExecutor, a reference to nothing: the process ends.
NoCols(plan) == plan.tag = "T_select" /\ plan.subplan.subplan.tag = "T_Sort"

PortalStmt(tag, root, plan) == [tag |-> tag, root |-> root, plan |-> plan]

Executor(x) ==
    CASE x.tag = "T_select" ->
            [class |-> "ProjectionExecutor", sel_cols |-> x.subplan.sel_cols,
             prev |-> x.subplan.subplan]
      [] x.tag = "T_Update" ->
            [class |-> "UpdateExecutor", tab_name |-> x.tab_name,
             set_clauses |-> x.set_clauses, scan |-> x.subplan]
      [] x.tag = "T_Delete" ->
            [class |-> "DeleteExecutor", tab_name |-> x.tab_name, scan |-> x.subplan]
      [] x.tag = "T_Insert" ->
            [class |-> "InsertExecutor", tab_name |-> x.tab_name, values |-> x.values]

start(plan) ==
    CASE plan.class = "OtherPlan" -> PortalStmt("PORTAL_CMD_UTILITY", Null, plan)
      [] plan.class = "DDLPlan" -> PortalStmt("PORTAL_MULTI_QUERY", Null, plan)
      [] plan.class = "DMLPlan" ->
            PortalStmt(IF plan.tag = "T_select" THEN "PORTAL_ONE_SELECT"
                       ELSE "PORTAL_DML_WITHOUT_SELECT", Executor(plan), plan)

-----------------------------------------------------------------------------
(* QlManager.  A call is its name and its arguments.                       *)

Call(name, args) == [call |-> name, args |-> args]

run_mutli_query(x) ==
    CASE x.tag = "T_CreateTable" -> Call("create_table", <<x.tab_name, x.cols>>)
      [] x.tag = "T_DropTable" -> Call("drop_table", <<x.tab_name>>)
      [] x.tag = "T_CreateIndex" -> Call("create_index", <<x.tab_name, x.tab_col_names>>)
      [] x.tag = "T_DropIndex" -> Call("drop_index", <<x.tab_name, x.tab_col_names>>)

run_cmd_utility(x) ==
    CASE x.tag = "T_Help" -> Call("help_info", <<>>)
      [] x.tag = "T_ShowTable" -> Call("show_tables", <<>>)
      [] x.tag = "T_DescTable" -> Call("desc_table", <<x.tab_name>>)
      [] x.tag = "T_Transaction_begin" -> Call("set_txn_mode", <<TRUE>>)
      [] x.tag = "T_Transaction_commit" -> Call("commit", <<>>)
      [] x.tag \in {"T_Transaction_rollback", "T_Transaction_abort"} -> Call("abort", <<>>)

run(portal) ==
    CASE portal.tag = "PORTAL_ONE_SELECT" -> Call("select_from", <<portal.root>>)
      [] portal.tag = "PORTAL_DML_WITHOUT_SELECT" -> Call("run_dml", <<portal.root>>)
      [] portal.tag = "PORTAL_MULTI_QUERY" -> run_mutli_query(portal.plan)
      [] portal.tag = "PORTAL_CMD_UTILITY" -> run_cmd_utility(portal.plan)

\* What client_handler does with a tree that do_analyze accepts.
Planned(tree) == plan_query(do_analyze(tree))
Performed(tree) ==
    IF NoCols(Planned(tree)) THEN Call("crash", <<>>) ELSE run(start(Planned(tree)))
=============================================================================
