------------------------------ MODULE Planner ------------------------------
(***************************************************************************)
(* Planner::make_one_rel (src/src/optimizer/planner.cpp) for an analysed   *)
(* SELECT: from the FROM list and the WHERE conjuncts to a tree of scans   *)
(* and nested-loop joins, one action per iteration of its loops.  No table *)
(* ever has an index (create_index is empty), so every scan is a SeqScan.  *)
(*                                                                         *)
(* A condition is [lhs_col, op, is_rhs_val, rhs_col, rhs_val] with columns *)
(* [tab_name, col_name]; the rhs_col of a value condition is NoCol.        *)
(*                                                                         *)
(* SwapNothing is a faulty variant of swap_op, never used by PlanNext.     *)
(***************************************************************************)
EXTENDS Naturals, SequencesExt

CONSTANTS Queries   \* the analysed queries: [tables, conds, cols], three sequences

NoCol == [tab_name |-> "", col_name |-> ""]

VARIABLES
    query,    \* the query as it came from the analyser
    conds,    \* query->conds, consumed by the planner
    scans,    \* table_scan_executors
    scantbl,  \* indices of the tables already in the join tree
    rel,      \* table_join_executors
    stage     \* which of make_one_rel's loops is running

plan_vars == <<query, conds, scans, scantbl, rel, stage>>

NullPlan == [tag |-> "null"]
ScanPlan(t, cs) == [tag |-> "scan", tab_name |-> t, conds |-> cs]
JoinPlan(l, r, cs) == [tag |-> "join", left |-> l, right |-> r, conds |-> cs]

PlanInit ==
    /\ query \in Queries
    /\ conds = query.conds
    /\ scans = <<>>
    /\ scantbl = {}
    /\ rel = NullPlan
    /\ stage = "scan"

-----------------------------------------------------------------------------
(* The test of pop_conds(conds, t).                                        *)
IsScanCond(c, t) ==
    \/ c.lhs_col.tab_name = t /\ c.is_rhs_val
    \/ c.lhs_col.tab_name = c.rhs_col.tab_name

(* What a comparison operator means (the switch of eval_cond).             *)
Compare(x, op, y) ==
    CASE op = "EQ" -> x = y [] op = "NE" -> x # y [] op = "LT" -> x < y
      [] op = "GT" -> x > y [] op = "LE" -> x <= y [] op = "GE" -> x >= y

SwapNothing(op) == op

(* The operator once the two sides of a comparison change places.          *)
swap_op(op) ==
    CASE op = "LT" -> "GT" [] op = "GT" -> "LT" [] op = "LE" -> "GE"
      [] op = "GE" -> "LE" [] OTHER -> op

Swapped(c) ==
    [c EXCEPT !.lhs_col = c.rhs_col, !.rhs_col = c.lhs_col, !.op = swap_op(@)]

(* push_conds: [res |-> what it returns, plan |-> the plan it leaves].     *)
RECURSIVE push_conds(_, _)
push_conds(c, plan) ==
    IF plan = NullPlan THEN [plan |-> plan, res |-> 0]
    ELSE IF plan.tag = "scan"
    THEN [plan |-> plan,
          res |-> IF plan.tab_name = c.lhs_col.tab_name THEN 1
                  ELSE IF plan.tab_name = c.rhs_col.tab_name THEN 2 ELSE 0]
    ELSE LET l == push_conds(c, plan.left)
             r == push_conds(c, plan.right)
             here == IF l.res = 2 THEN Swapped(c) ELSE c IN
         CASE l.res = 3 -> [plan |-> [plan EXCEPT !.left = l.plan], res |-> 3]
           [] l.res # 3 /\ r.res = 3 ->
                [plan |-> [plan EXCEPT !.right = r.plan], res |-> 3]
           [] 3 \notin {l.res, r.res} /\ 0 \in {l.res, r.res} ->
                [plan |-> plan, res |-> l.res + r.res]
           [] OTHER -> [plan |-> [plan EXCEPT !.conds = Append(@, here)], res |-> 3]

(* pop_scan: the first scan of table t and the index it marks, none when t *)
(* is not in the FROM list.                                                *)
IndexOf(t) ==
    {i \in 1..Len(scans) :
        scans[i].tab_name = t /\ \A j \in 1..(i - 1) : scans[j].tab_name # t}
ScanOf(t) == IF IndexOf(t) = {} THEN NullPlan ELSE scans[CHOOSE i \in IndexOf(t) : TRUE]

(* std::find on joined_tables, which begins as that many empty names.      *)
Joined(t) == t = "" \/ \E i \in scantbl : scans[i].tab_name = t

-----------------------------------------------------------------------------
(* The first loop: the scan of the next table, with its own conditions.    *)
ScanTable ==
    LET t == query.tables[Len(scans) + 1] IN
    /\ stage = "scan" /\ Len(scans) < Len(query.tables)
    /\ scans' = Append(scans, ScanPlan(t, SelectSeq(conds, LAMBDA c : IsScanCond(c, t))))
    /\ conds' = SelectSeq(conds, LAMBDA c : ~IsScanCond(c, t))
    /\ UNCHANGED <<query, scantbl, rel, stage>>

Scanned == stage = "scan" /\ Len(scans) = Len(query.tables)

SingleTable ==
    /\ Scanned /\ Len(scans) = 1
    /\ rel' = scans[1]
    /\ stage' = "planned"
    /\ UNCHANGED <<query, conds, scans, scantbl>>

NoJoinCond ==
    /\ Scanned /\ Len(scans) > 1 /\ conds = <<>>
    /\ rel' = scans[1]
    /\ scantbl' = {1}
    /\ stage' = "join"
    /\ UNCHANGED <<query, conds, scans>>

(* The first join condition makes the innermost join.                      *)
FirstJoin ==
    LET c == Head(conds) IN
    /\ Scanned /\ Len(scans) > 1 /\ conds # <<>>
    /\ rel' = JoinPlan(ScanOf(c.lhs_col.tab_name), ScanOf(c.rhs_col.tab_name), <<c>>)
    /\ scantbl' = IndexOf(c.lhs_col.tab_name) \cup IndexOf(c.rhs_col.tab_name)
    /\ conds' = Tail(conds)
    /\ stage' = "join"
    /\ UNCHANGED <<query, scans>>

MoreConds == stage = "join" /\ conds # <<>>

(* The tables of the condition that pop_scan still has to provide.         *)
NewTables(c) ==
    {t \in {c.lhs_col.tab_name, c.rhs_col.tab_name} : ~Joined(t) /\ IndexOf(t) # {}}

AddTables(c) ==
    /\ scantbl' = scantbl \cup UNION {IndexOf(t) : t \in NewTables(c)}
    /\ conds' = Tail(conds)
    /\ UNCHANGED <<query, scans, stage>>

(* Neither table is in the tree: join them, then join that with the tree.  *)
JoinBothNew ==
    LET c == Head(conds)
        new == JoinPlan(ScanOf(c.lhs_col.tab_name), ScanOf(c.rhs_col.tab_name), <<c>>) IN
    /\ MoreConds
    /\ NewTables(c) = {c.lhs_col.tab_name, c.rhs_col.tab_name}
    /\ rel' = JoinPlan(new, rel, <<>>)
    /\ AddTables(c)

(* One of the two is new: it becomes the left child, and the condition is  *)
(* turned round when it was the right-hand side.  isneedreverse is set even*)
(* when pop_scan has no scan of the right-hand table: then the left child  *)
(* is null and the scan of the left-hand table gets lost.                  *)
JoinOneNew ==
    LET c == Head(conds)
        isneedreverse == ~Joined(c.rhs_col.tab_name) IN
    /\ MoreConds
    /\ \E t \in {c.lhs_col.tab_name, c.rhs_col.tab_name} : NewTables(c) = {t}
    /\ rel' = IF isneedreverse
              THEN JoinPlan(ScanOf(c.rhs_col.tab_name), rel, <<Swapped(c)>>)
              ELSE JoinPlan(ScanOf(c.lhs_col.tab_name), rel, <<c>>)
    /\ AddTables(c)

(* Both are in the tree: the lowest join that has both takes the condition,*)
(* which is lost when there is none (a table that is not in FROM).         *)
PushDown ==
    LET c == Head(conds) IN
    /\ MoreConds
    /\ NewTables(c) = {}
    /\ rel' = push_conds(c, rel).plan
    /\ AddTables(c)

(* The last loop: tables no condition mentions.                            *)
JoinRest ==
    LET rest == (1..Len(scans)) \ scantbl
        i == Min(rest) IN
    /\ stage = "join" /\ conds = <<>>
    /\ IF rest = {}
       THEN stage' = "planned" /\ UNCHANGED <<scantbl, rel>>
       ELSE /\ rel' = JoinPlan(scans[i], rel, <<>>)
            /\ scantbl' = scantbl \cup {i}
            /\ UNCHANGED stage
    /\ UNCHANGED <<query, conds, scans>>

PlanNext ==
    \/ ScanTable \/ SingleTable \/ NoJoinCond \/ FirstJoin
    \/ JoinBothNew \/ JoinOneNew \/ PushDown \/ JoinRest

PlanSpec == PlanInit /\ [][PlanNext]_plan_vars

-----------------------------------------------------------------------------
RECURSIVE Nodes(_)
Nodes(plan) ==
    IF plan = NullPlan THEN <<>>
    ELSE IF plan.tag = "join"
    THEN <<plan>> \o Nodes(plan.left) \o Nodes(plan.right) ELSE <<plan>>

Leaves(plan) == SelectSeq(Nodes(plan), LAMBDA n : n.tag # "join")
TablesOf(plan) == {Leaves(plan)[i].tab_name : i \in 1..Len(Leaves(plan))}
CondTables(c) == {c.lhs_col.tab_name, c.rhs_col.tab_name} \ {""}
Placed(plan) == FlattenSeq([i \in 1..Len(Nodes(plan)) |-> Nodes(plan)[i].conds])

(* The same condition, written either way round.                           *)
Same(c, d) ==
    \/ d = c
    \/ /\ ~c.is_rhs_val /\ ~d.is_rhs_val
       /\ d.lhs_col = c.rhs_col /\ d.rhs_col = c.lhs_col
       /\ \A x, y \in 0..1 : Compare(x, c.op, y) = Compare(y, d.op, x)

Count(c, cs) == Len(SelectSeq(cs, LAMBDA d : Same(c, d)))

(* The finished plan reads every table of the FROM list once, applies every*)
(* conjunct of the WHERE clause once, up to turning it round, and applies  *)
(* it where all the columns it names are available: the whole join for a   *)
(* join, the table itself for a scan.                                      *)
PlanFaithful ==
    stage = "planned" =>
        /\ Len(Leaves(rel)) = Len(query.tables)
        /\ TablesOf(rel) = ToSet(query.tables)
        /\ Len(Placed(rel)) = Len(query.conds)
        /\ \A c \in ToSet(query.conds) : Count(c, Placed(rel)) = Count(c, query.conds)
        /\ \A n \in ToSet(Nodes(rel)) : \A c \in ToSet(n.conds) :
              CondTables(c) \subseteq TablesOf(n)
=============================================================================
