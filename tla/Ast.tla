-------------------------------- MODULE Ast ---------------------------------
(***************************************************************************)
(* The nodes of the syntax tree, src/src/parser/ast.h: one constructor per *)
(* struct, a record with the struct's members, and SemValue, the struct of *)
(* all semantic values that the parser copies about.                       *)
(***************************************************************************)
EXTENDS TLC, Sequences

Null == [node |-> "nullptr"]

Node(kind) == [node |-> kind]
TypeLen(type, len) == [type |-> type, len |-> len]
ColDef(col_name, type_len) == [col_name |-> col_name, type_len |-> type_len]
CreateTable(tab_name, fields) ==
    [node |-> "CreateTable", tab_name |-> tab_name, fields |-> fields]
DropTable(tab_name) == [node |-> "DropTable", tab_name |-> tab_name]
DescTable(tab_name) == [node |-> "DescTable", tab_name |-> tab_name]
CreateIndex(tab_name, col_names) ==
    [node |-> "CreateIndex", tab_name |-> tab_name, col_names |-> col_names]
DropIndex(tab_name, col_names) ==
    [node |-> "DropIndex", tab_name |-> tab_name, col_names |-> col_names]
IntLit(val) == [node |-> "IntLit", val |-> val]
FloatLit(val) == [node |-> "FloatLit", val |-> val]
StringLit(val) == [node |-> "StringLit", val |-> val]
Col(tab_name, col_name) ==
    [node |-> "Col", tab_name |-> tab_name, col_name |-> col_name]
SetClause(col_name, val) == [col_name |-> col_name, val |-> val]
BinaryExpr(lhs, op, rhs) == [lhs |-> lhs, op |-> op, rhs |-> rhs]
OrderBy(cols, orderby_dir) == [cols |-> cols, orderby_dir |-> orderby_dir]
InsertStmt(tab_name, vals) ==
    [node |-> "InsertStmt", tab_name |-> tab_name, vals |-> vals]
DeleteStmt(tab_name, conds) ==
    [node |-> "DeleteStmt", tab_name |-> tab_name, conds |-> conds]
UpdateStmt(tab_name, set_clauses, conds) ==
    [node |-> "UpdateStmt", tab_name |-> tab_name, set_clauses |-> set_clauses,
     conds |-> conds]
SelectStmt(cols, tabs, conds, order) ==
    [node |-> "SelectStmt", cols |-> cols, tabs |-> tabs, conds |-> conds,
     has_sort |-> order # Null, order |-> order]

-----------------------------------------------------------------------------
(* A SemValue is kept as the function of the members that were assigned;   *)
(* the others have what the default constructor gives.                     *)
SemValue == [f \in {} |-> Null]

VectorMembers == {"sv_strs", "sv_fields", "sv_vals", "sv_cols", "sv_set_clauses",
                  "sv_conds"}

Get(value, member) ==
    IF member \in DOMAIN value THEN value[member]
    ELSE IF member \in VectorMembers THEN <<>> ELSE Null

Set(value, member, x) == (member :> x) @@ value
PushBack(value, member, x) == Set(value, member, Append(Get(value, member), x))
=============================================================================
