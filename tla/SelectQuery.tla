---------------------------- MODULE SelectQuery ----------------------------
(***************************************************************************)
(* A SELECT from plan to result: Portal::start turns the plan of Planner   *)
(* into a tree of executors (src/src/portal.h) and QlManager::select_from  *)
(* drives it row by row (SeqScanExecutor, NestedLoopJoinExecutor and       *)
(* ProjectionExecutor under src/src/execution).                            *)
(*                                                                         *)
(* A table is the sequence of its records in scan order.  A tuple is the   *)
(* bytes of an RmRecord, which an executor reads by the offsets in its     *)
(* cols_.  A row of the output is kept with the positions of the records   *)
(* it was made of, so that two rows are told apart even when they show the *)
(* same.                                                                   *)
(*                                                                         *)
(* ScanEverything and NextLeft are faulty variants of the definitions that *)
(* follow them, never used by QueryNext.                                   *)
(***************************************************************************)
EXTENDS Planner

CONSTANTS
    TabCols(_),     \* the columns of a table: ColMeta [tab_name, name, type, len, offset]
    Databases(_)    \* for a FROM list, functions from its tables to sequences of records,
                    \* functions from column names to values

VARIABLES db, exec, output

query_vars == <<plan_vars, db, exec, output>>

NoExec == [tag |-> "none"]

QueryInit ==
    /\ PlanInit
    /\ db \in Databases(query.tables)
    /\ exec = NoExec
    /\ output = <<>>

-----------------------------------------------------------------------------
(* Bytes.  A number is its bytes <<v, 1>>, <<v, 2>>, ..., which read as v  *)
(* only together and in order; a string is its characters <<c, 0>>, then   *)
(* zeros.  Torn stands for what bytes that do not belong together read as, *)
(* a number and a character that no record holds.                          *)

Zero == <<0, 0>>
Torn == 255
Uninitialised(len) == [b \in 1..len |-> <<Torn, 0>>]

Stored(col, v) ==
    IF col.type = "TYPE_STRING"
    THEN [b \in 1..col.len |-> IF b <= Len(v) THEN <<v[b], 0>> ELSE Zero]
    ELSE [b \in 1..col.len |-> <<v, b>>]

(* select_from's reading of a column: as an int or a float, or a string up *)
(* to its zero or its length.  ix_compare reads the same bytes.            *)
ReadAs(col, bytes) ==
    IF col.type = "TYPE_STRING"
    THEN LET end == Min({b \in 1..col.len : bytes[b] = Zero} \cup {col.len + 1}) IN
         [b \in 1..(end - 1) |-> bytes[b][1]]
    ELSE IF bytes = Stored(col, bytes[1][1]) THEN bytes[1][1] ELSE Torn

(* The len bytes at data + offset, garbage past the end of data.           *)
Bytes(data, offset, len) ==
    [b \in 1..len |-> IF offset + b \in DOMAIN data THEN data[offset + b] ELSE <<Torn, 0>>]

(* memcpy(data + offset, bytes, Len(bytes))                                *)
memcpy(data, offset, bytes) ==
    [b \in DOMAIN data |->
        IF b - offset \in DOMAIN bytes THEN bytes[b - offset] ELSE data[b]]

(* fh_->get_record of the record at position pos.                          *)
get_record(t, pos) ==
    FlattenSeq([i \in DOMAIN TabCols(t) |-> Stored(TabCols(t)[i], db[t][pos][TabCols(t)[i].name])])

-----------------------------------------------------------------------------
(* Executors: [tag "scan", tab_name, conds, pos] stands on record pos, or  *)
(* past the last one; [tag "join", left, right, conds, isend];             *)
(* [tag "projection", prev, sel_idxs].  Each has its cols and its len.     *)

(* AbstractExecutor::get_col, as an index.  It throws ColumnNotFoundError  *)
(* when there is none.  The analyser does not rule that out: it accepts a  *)
(* column of a table that is not in FROM (module Analyze, ColumnsOfFrom).  *)
(* Queries here name columns of their FROM tables only.                    *)
get_col(cols, target) ==
    SelectInSeq(cols, LAMBDA c : c.tab_name = target.tab_name /\ c.name = target.col_name)

SeqScanExecutor(t, cs) ==
    [tag |-> "scan", tab_name |-> t, conds |-> cs, cols |-> TabCols(t),
     len |-> Last(TabCols(t)).offset + Last(TabCols(t)).len, pos |-> 1]

NestedLoopJoinExecutor(left, right, cs) ==
    LET right_cols == [i \in DOMAIN right.cols |->
                          [right.cols[i] EXCEPT !.offset = @ + left.len]] IN
    [tag |-> "join", left |-> left, right |-> right, conds |-> cs,
     cols |-> left.cols \o right_cols, len |-> left.len + right.len, isend |-> FALSE]

ProjectionExecutor(prev, sel_cols) ==
    FoldLeft(LAMBDA e, sel_col :
                 LET idx == get_col(prev.cols, sel_col)
                     col == [prev.cols[idx] EXCEPT !.offset = e.len] IN
                 [e EXCEPT !.sel_idxs = Append(@, idx), !.cols = Append(@, col),
                           !.len = @ + col.len],
             [tag |-> "projection", prev |-> prev, sel_idxs |-> <<>>, cols |-> <<>>, len |-> 0],
             sel_cols)

RECURSIVE convert_plan_executor(_)
convert_plan_executor(plan) ==
    CASE plan.tag = "projection" ->
            ProjectionExecutor(convert_plan_executor(plan.subplan), plan.sel_cols)
      [] plan.tag = "scan" -> SeqScanExecutor(plan.tab_name, plan.conds)
      [] plan.tag = "join" ->
            NestedLoopJoinExecutor(convert_plan_executor(plan.left),
                                   convert_plan_executor(plan.right), plan.conds)

(* AbstractExecutor::Next, the current tuple.                              *)
RECURSIVE Tuple(_)
Tuple(e) ==
    CASE e.tag = "scan" -> get_record(e.tab_name, e.pos)
      [] e.tag = "join" ->
            memcpy(memcpy(Uninitialised(e.len), 0, Tuple(e.left)), e.left.len, Tuple(e.right))
      [] e.tag = "projection" ->
            LET prev_rec == Tuple(e.prev) IN
            FoldLeft(LAMBDA rec, i :
                         memcpy(rec, e.cols[i].offset,
                                Bytes(prev_rec, e.prev.cols[e.sel_idxs[i]].offset, e.cols[i].len)),
                     Uninitialised(e.len), [i \in DOMAIN e.sel_idxs |-> i])

(* The column in the left child's tuple or, past its length, the right's.  *)
CellOf(lhs_rec, rhs_rec, col) ==
    ReadAs(col, IF col.offset < Len(lhs_rec) THEN Bytes(lhs_rec, col.offset, col.len)
                ELSE Bytes(rhs_rec, col.offset - Len(lhs_rec), col.len))

(* eval_cond of a join; of a scan when there is no right tuple.            *)
eval_cond(lhs_rec, rhs_rec, cond, rec_cols) ==
    LET Cell(c) == CellOf(lhs_rec, rhs_rec, rec_cols[get_col(rec_cols, c)]) IN
    Compare(Cell(cond.lhs_col), cond.op,
            IF cond.is_rhs_val THEN cond.rhs_val ELSE Cell(cond.rhs_col))

eval_conds(lhs_rec, rhs_rec, cs, rec_cols) ==
    \A i \in 1..Len(cs) : eval_cond(lhs_rec, rhs_rec, cs[i], rec_cols)

RECURSIVE is_end(_)
is_end(e) ==
    CASE e.tag = "scan" -> e.pos > Len(db[e.tab_name])
      [] e.tag = "join" -> e.isend
      [] e.tag = "projection" -> is_end(e.prev)

ScanEverything(e, i) == [e EXCEPT !.pos = i]

(* The scan loop: the first record from position i that meets the          *)
(* predicates.                                                             *)
ScanFrom(e, i) ==
    LET n == Len(db[e.tab_name])
        Meets(j) == eval_conds(get_record(e.tab_name, j), <<>>, e.conds, e.cols) IN
    [e EXCEPT !.pos = Min({j \in i..n : Meets(j)} \cup {n + 1})]

RECURSIVE beginTuple(_)
RECURSIVE nextTuple(_)

(* The loops of NestedLoopJoinExecutor: from the current pair of children  *)
(* to the first pair that meets the join conditions.                       *)
RECURSIVE Search(_)
Search(e) ==
    IF is_end(e.left) THEN e
    ELSE IF is_end(e.right)
    THEN LET left == nextTuple(e.left) IN
         Search([e EXCEPT !.left = left,
                          !.right = IF is_end(left) THEN @ ELSE beginTuple(@)])
    ELSE IF eval_conds(Tuple(e.left), Tuple(e.right), e.conds, e.cols) THEN e
    ELSE Search([e EXCEPT !.right = nextTuple(@)])

(* isend once the left child is at its end.                                *)
Ended(e) == IF is_end(e.left) THEN [e EXCEPT !.isend = TRUE] ELSE e

(* beginTuple of a join returns as soon as it has a pair, with isend as it *)
(* was.                                                                    *)
beginTuple(e) ==
    CASE e.tag = "projection" -> [e EXCEPT !.prev = beginTuple(@)]
      [] e.tag = "scan" -> ScanFrom(e, 1)
      [] e.tag = "join" ->
            LET left == beginTuple(e.left) IN
            Ended(Search([e EXCEPT !.left = left,
                                   !.right = IF is_end(left) THEN @ ELSE beginTuple(@)]))

NextLeft(e) ==
    CASE e.tag = "projection" -> [e EXCEPT !.prev = nextTuple(@)]
      [] e.tag = "scan" -> ScanFrom(e, e.pos + 1)
      [] e.tag = "join" -> Ended(Search([e EXCEPT !.left = nextTuple(@)]))

(* nextTuple: advance the scan, or the right child of a join.              *)
nextTuple(e) ==
    CASE e.tag = "projection" -> [e EXCEPT !.prev = nextTuple(@)]
      [] e.tag = "scan" -> ScanFrom(e, e.pos + 1)
      [] e.tag = "join" -> Ended(Search([e EXCEPT !.right = nextTuple(@)]))

(* The records the current tuple is made of, as positions.                 *)
RECURSIVE Origin(_)
Origin(e) ==
    CASE e.tag = "projection" -> Origin(e.prev)
      [] e.tag = "scan" -> e.tab_name :> e.pos
      [] e.tag = "join" -> Origin(e.left) @@ Origin(e.right)

-----------------------------------------------------------------------------
PlanStep == PlanNext /\ UNCHANGED <<db, exec, output>>

(* generate_select_plan puts the projection on top of the joins.           *)
generate_select_plan == [tag |-> "projection", subplan |-> rel, sel_cols |-> query.cols]

(* Portal::start, and the head of select_from's loop.                      *)
PortalStart ==
    /\ stage = "planned" /\ exec = NoExec
    /\ exec' = beginTuple(convert_plan_executor(generate_select_plan))
    /\ UNCHANGED <<plan_vars, db, output>>

(* The strings of a row, one for each of the executor's columns.           *)
Columns(e) ==
    LET rec == Tuple(e) IN
    [i \in DOMAIN e.cols |-> ReadAs(e.cols[i], Bytes(rec, e.cols[i].offset, e.cols[i].len))]

(* One iteration of select_from's loop.                                    *)
EmitTuple ==
    /\ exec # NoExec /\ ~is_end(exec)
    /\ output' = Append(output, [of |-> Origin(exec), columns |-> Columns(exec)])
    /\ exec' = nextTuple(exec)
    /\ UNCHANGED <<plan_vars, db>>

QueryNext == PlanStep \/ PortalStart \/ EmitTuple

QuerySpec == QueryInit /\ [][QueryNext]_query_vars

-----------------------------------------------------------------------------
Finished == exec # NoExec /\ is_end(exec)

(* What SQL says: all combinations of records that meet all conjuncts.     *)
MaxRows == Max({Len(db[t]) : t \in DOMAIN db} \cup {1})

ValueIn(tup, col) == db[col.tab_name][tup[col.tab_name]][col.col_name]

Holds(tup, c) ==
    Compare(ValueIn(tup, c.lhs_col), c.op,
            IF c.is_rhs_val THEN c.rhs_val ELSE ValueIn(tup, c.rhs_col))

Answer ==
    LET from == ToSet(query.tables) IN
    {tup \in [from -> 1..MaxRows] :
        /\ \A t \in from : tup[t] <= Len(db[t])
        /\ \A c \in ToSet(query.conds) : Holds(tup, c)}

Origins == {row.of : row \in ToSet(output)}

(* Rows come out only if they meet the WHERE clause, no combination of     *)
(* records comes out twice, however many joins the plan has, and each row  *)
(* shows in every selected column what its record has there: the offsets   *)
(* that joins shift and the projection assigns anew find the right bytes.  *)
ResultSound ==
    /\ Origins \subseteq Answer
    /\ \A i, j \in DOMAIN output : output[i].of = output[j].of => i = j
    /\ \A row \in ToSet(output) :
          row.columns = [i \in DOMAIN query.cols |-> ValueIn(row.of, query.cols[i])]

(* "Start scanning the right child again", the comment of both loops of    *)
(* NestedLoopJoinExecutor, executor_nestedloop_join.h:68 and :96: so every *)
(* left row meets every right row, and the finished result holds every     *)
(* combination of records that meets the WHERE clause.                     *)
ResultComplete == Finished => Answer \subseteq Origins

(* It does when no join is the right child of another: then only scans are *)
(* begun again, and a scan starts from the first record each time.         *)
FlatComplete ==
    (\A n \in ToSet(Nodes(rel)) : n.tag = "join" => n.right.tag # "join")
        => ResultComplete
=============================================================================
