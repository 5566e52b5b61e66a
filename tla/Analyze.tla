------------------------------ MODULE Analyze ------------------------------
(***************************************************************************)
(* The semantic analysis of a statement: src/src/analyze/analyze.cpp with  *)
(* Value::init_raw of common/common.h, and the conversion of values that   *)
(* InsertExecutor and UpdateExecutor do after it.                          *)
(*                                                                         *)
(* A column name is [tab, col], tab = NoTab when it is not qualified; a    *)
(* literal is its type and its size; a check is the exception it throws,   *)
(* "ok" when it passes, "abort" when an assert fails (the build keeps      *)
(* asserts).  Comparison operators do not matter to any check.             *)
(*                                                                         *)
(* FirstTable, InsertUnchecked and UpdateConvertKept are faulty variants   *)
(* of the definitions that follow them, never used by AnalyzeNext.         *)
(***************************************************************************)
EXTENDS Integers, Sequences, FiniteSets

CONSTANTS Catalog,    \* db_: for each table the sequence of its [name, type, len]
          NoTab,      \* the empty table name
          ParseTrees, \* the statements clients send
          MaxRows     \* how many records an UPDATE selects, at most

SIZEOF_NUMBER == 4    \* sizeof(int), sizeof(float)

(* TabCol, Value and Condition.                                            *)
ColNames == [tab : STRING, col : STRING]
Literals == [type : {"INT", "FLOAT", "STRING"}, size : Nat]
Conditions == [lhs : ColNames, rhs : ColNames \cup Literals]

(* The grammar gives a number column its length, and a tree its parts.     *)
ASSUME AnalyzeAssumption ==
    /\ MaxRows \in Nat /\ NoTab \notin DOMAIN Catalog
    /\ \A t \in DOMAIN Catalog :
          /\ Catalog[t] \in
                Seq([name : STRING, type : {"INT", "FLOAT", "STRING"}, len : Nat])
          /\ \A i \in DOMAIN Catalog[t] :
                Catalog[t][i].type # "STRING" => Catalog[t][i].len = SIZEOF_NUMBER
    /\ ParseTrees \subseteq
          [kind : {"select"}, tabs : Seq(STRING), cols : Seq(ColNames),
           conds : Seq(Conditions)] \cup
          [kind : {"delete"}, tabs : Seq(STRING), conds : Seq(Conditions)] \cup
          [kind : {"update"}, tabs : Seq(STRING), conds : Seq(Conditions),
           sets : Seq([col : STRING, val : Literals])] \cup
          [kind : {"insert"}, tabs : Seq(STRING), vals : Seq(Literals)]

VARIABLES parse,   \* the statement
          stage,   \* "parsed", "analysed", "converted"
          out,     \* what the last stage answered
          conds,   \* the WHERE clause with its tables inferred
          raw,     \* the set clauses' values have their buffer
          rows     \* records UpdateExecutor has still to convert for

analyze_vars == <<parse, stage, out, conds, raw, rows>>

(* Checks run in order and the first that throws is the answer.            *)
FirstFailure(checks) ==
    LET bad == {i \in DOMAIN checks : checks[i] # "ok"} IN
    IF bad = {} THEN "ok" ELSE checks[CHOOSE i \in bad : \A j \in bad : i <= j]

get_table(tab) == IF tab \in DOMAIN Catalog THEN Catalog[tab] ELSE <<>>

is_table(tab) == IF tab \in DOMAIN Catalog THEN "ok" ELSE "TableNotFoundError"

Positions(tab, col) == {j \in DOMAIN get_table(tab) : get_table(tab)[j].name = col}

(* TabMeta::get_col: the first column with that name.                      *)
get_col(c) ==
    LET at == Positions(c.tab, c.col) IN
    get_table(c.tab)[CHOOSE i \in at : \A j \in at : i <= j]

(* Value::init_raw; has_raw says that the value has a buffer already.      *)
init_raw(v, len, has_raw) ==
    CASE has_raw -> "abort"
      [] ~has_raw /\ v.type # "STRING" -> IF len = SIZEOF_NUMBER THEN "ok" ELSE "abort"
      [] ~has_raw /\ v.type = "STRING" -> IF len < v.size THEN "StringOverflowError" ELSE "ok"

SameType(a, b) == IF a = b THEN "ok" ELSE "IncompatibleTypeError"

(* Where an unqualified name is among the columns of get_all_cols.         *)
Occurrences(tabs, col) ==
    UNION {{<<i, j>> : j \in Positions(tabs[i], col)} : i \in DOMAIN tabs}

FirstTable(tabs, c) ==
    LET all == Occurrences(tabs, c.col) IN
    CASE c.tab = NoTab /\ all = {} -> [out |-> "ColumnNotFoundError"]
      [] c.tab = NoTab /\ all # {} ->
            [out |-> "ok", col |-> [c EXCEPT !.tab = tabs[(CHOOSE o \in all : TRUE)[1]]]]
      [] c.tab # NoTab ->
            IF Positions(c.tab, c.col) # {} THEN [out |-> "ok", col |-> c]
            ELSE [out |-> "ColumnNotFoundError"]

(* Analyze::check_column: infer the table, or see that the column exists.  *)
check_column(tabs, c) ==
    LET all == Occurrences(tabs, c.col) IN
    CASE c.tab = NoTab /\ (\E o, p \in all : o # p) -> [out |-> "AmbiguousColumnError"]
      [] c.tab = NoTab /\ all = {} -> [out |-> "ColumnNotFoundError"]
      [] c.tab = NoTab /\ (\E o \in all : all = {o}) ->
            [out |-> "ok", col |-> [c EXCEPT !.tab = tabs[(CHOOSE o \in all : TRUE)[1]]]]
      [] c.tab # NoTab ->
            IF Positions(c.tab, c.col) # {} THEN [out |-> "ok", col |-> c]
            ELSE [out |-> "ColumnNotFoundError"]

IsLiteral(e) == "type" \in DOMAIN e

(* A condition with its tables inferred.                                   *)
Resolve(tabs, cond) ==
    [lhs |-> check_column(tabs, cond.lhs).col,
     rhs |-> IF IsLiteral(cond.rhs) THEN cond.rhs ELSE check_column(tabs, cond.rhs).col]

(* A literal is converted to the column's length, then compared in type.   *)
CheckLiteral(lhs, v) ==
    FirstFailure(<<init_raw(v, lhs.len, FALSE), SameType(lhs.type, v.type)>>)

(* One iteration of the loop in check_clause.                              *)
check_condition(tabs, cond) ==
    LET lhs == check_column(tabs, cond.lhs)
        rhs == check_column(tabs, cond.rhs) IN
    CASE lhs.out # "ok" -> lhs.out
      [] lhs.out = "ok" /\ IsLiteral(cond.rhs) -> CheckLiteral(get_col(lhs.col), cond.rhs)
      [] lhs.out = "ok" /\ ~IsLiteral(cond.rhs) ->
            IF rhs.out # "ok" THEN rhs.out
            ELSE SameType(get_col(lhs.col).type, get_col(rhs.col).type)

check_clause(tabs, cs) ==
    FirstFailure([i \in DOMAIN tabs |-> is_table(tabs[i])] \o
                 [i \in DOMAIN cs |-> check_condition(tabs, cs[i])])

(* A set clause, in do_analyze and again in UpdateExecutor::Next.          *)
CheckSet(tab, s, has_raw) ==
    IF Positions(tab, s.col) = {} THEN "ColumnNotFoundError"
    ELSE LET c == get_col([tab |-> tab, col |-> s.col]) IN
         FirstFailure(<<SameType(c.type, s.val.type), init_raw(s.val, c.len, has_raw)>>)

(* Analyze::do_analyze: what it throws, statement by statement.            *)
Verdict(s) ==
    CASE s.kind = "select" -> FirstFailure(
            [i \in DOMAIN s.tabs |-> is_table(s.tabs[i])] \o
            [i \in DOMAIN s.cols |-> check_column(s.tabs, s.cols[i]).out] \o
            <<check_clause(s.tabs, s.conds)>>)
      [] s.kind = "update" -> FirstFailure(
            <<is_table(s.tabs[1])>> \o
            [i \in DOMAIN s.sets |-> CheckSet(s.tabs[1], s.sets[i], FALSE)] \o
            <<check_clause(s.tabs, s.conds)>>)
      [] s.kind = "delete" -> check_clause(s.tabs, s.conds)
      [] s.kind = "insert" -> "ok"

-----------------------------------------------------------------------------
AnalyzeInit ==
    /\ parse \in ParseTrees
    /\ stage = "parsed"
    /\ out = "ok"
    /\ conds = <<>>
    /\ raw = FALSE
    /\ rows = 0

(* do_analyze; how many records the scan will select is not its concern.   *)
do_analyze ==
    /\ stage = "parsed"
    /\ out' = Verdict(parse)
    /\ stage' = "analysed"
    /\ conds' = IF out' = "ok" /\ parse.kind # "insert"
                THEN [i \in DOMAIN parse.conds |-> Resolve(parse.tabs, parse.conds[i])]
                ELSE <<>>
    /\ raw' = (out' = "ok" /\ parse.kind = "update")
    /\ rows' \in IF raw' THEN 0..MaxRows ELSE {0}
    /\ UNCHANGED parse

InsertUnchecked ==
    /\ stage = "analysed" /\ out = "ok" /\ parse.kind = "insert"
    /\ LET cols == get_table(parse.tabs[1]) IN
       out' = FirstFailure(
           <<is_table(parse.tabs[1]),
             IF Len(parse.vals) = Len(cols) THEN "ok" ELSE "InvalidValueCountError">> \o
           [i \in DOMAIN parse.vals |->
               IF i > Len(cols) THEN "ok"
               ELSE FirstFailure(<<init_raw(parse.vals[i], cols[i].len, FALSE),
                                   SameType(cols[i].type, parse.vals[i].type)>>)])
    /\ stage' = "converted"
    /\ UNCHANGED <<parse, conds, raw, rows>>

(* InsertExecutor: the constructor's count check, then Next converts the   *)
(* values, before insert_record.                                           *)
InsertConvert ==
    /\ stage = "analysed" /\ out = "ok" /\ parse.kind = "insert"
    /\ LET cols == get_table(parse.tabs[1]) IN
       out' = FirstFailure(
           <<is_table(parse.tabs[1]),
             IF Len(parse.vals) = Len(cols) THEN "ok" ELSE "InvalidValueCountError">> \o
           [i \in DOMAIN parse.vals |->
               IF i > Len(cols) THEN "ok"
               ELSE FirstFailure(<<SameType(cols[i].type, parse.vals[i].type),
                                   init_raw(parse.vals[i], cols[i].len, FALSE)>>)])
    /\ stage' = "converted"
    /\ UNCHANGED <<parse, conds, raw, rows>>

UpdateConvertKept ==
    /\ stage = "analysed" /\ out = "ok" /\ parse.kind = "update" /\ rows > 0
    /\ out' = FirstFailure([i \in DOMAIN parse.sets |-> CheckSet(parse.tabs[1], parse.sets[i], raw)])
    /\ rows' = rows - 1
    /\ UNCHANGED <<parse, stage, conds, raw>>

(* The set clauses of UpdateExecutor::Next for one record: the buffer of   *)
(* the previous conversion is dropped, then the value is converted again.  *)
UpdateConvert ==
    /\ stage = "analysed" /\ out = "ok" /\ parse.kind = "update" /\ rows > 0
    /\ out' = FirstFailure([i \in DOMAIN parse.sets |-> CheckSet(parse.tabs[1], parse.sets[i], FALSE)])
    /\ raw' = TRUE
    /\ rows' = rows - 1
    /\ UNCHANGED <<parse, stage, conds>>

AnalyzeNext == do_analyze \/ InsertConvert \/ UpdateConvert

AnalyzeSpec == AnalyzeInit /\ [][AnalyzeNext]_analyze_vars

-----------------------------------------------------------------------------
(* By the rules of SQL a name stands for a column of a table of the FROM   *)
(* clause: of the table it is qualified with, or of the one that has it.   *)
From(tabs) == {tabs[i] : i \in DOMAIN tabs}

Meant(tabs, c) ==
    {[tab |-> t, col |-> c.col] : t \in
        {u \in From(tabs) : (c.tab = NoTab \/ c.tab = u) /\ Positions(u, c.col) # {}}}

InScope(tabs, c) == c.tab = NoTab \/ c.tab \in From(tabs)

(* The name c, unless its qualifier is out of scope, can only mean k.      *)
MeansOnly(tabs, c, k) == InScope(tabs, c) => Meant(tabs, c) = {k}

(* What check_clause lets pass is well formed: every column of the WHERE   *)
(* clause is the only one of the FROM clause that its name can mean, the   *)
(* two sides have one type, and a literal fits into the bytes eval_cond    *)
(* compares.  Names qualified with a table that is not in the FROM clause  *)
(* are excepted from the first: see ColumnsOfFrom.                         *)
AcceptedWellFormed ==
    (stage # "parsed" /\ out = "ok" /\ parse.kind # "insert") =>
        \A i \in DOMAIN conds :
            LET c == parse.conds[i]
                l == get_col(conds[i].lhs) IN
            /\ MeansOnly(parse.tabs, c.lhs, conds[i].lhs)
            /\ IF IsLiteral(c.rhs)
               THEN /\ c.rhs.type = l.type
                    /\ c.rhs.type = "STRING" => c.rhs.size <= l.len
               ELSE /\ MeansOnly(parse.tabs, c.rhs, conds[i].rhs)
                    /\ get_col(conds[i].rhs).type = l.type

(* "[do_analyze] completes the resolution of column names, the checks that *)
(* tables exist ...", lab3-scripts/lab3_summary.md:7: a column that the    *)
(* analyser accepts is one of a table the statement reads.  check_column   *)
(* asks of a qualified name only that the database has it, so this is not  *)
(* so: get_col of the executor throws for it, or the planner joins a null  *)
(* scan.                                                                   *)
ColumnsOfFrom ==
    (stage # "parsed" /\ out = "ok" /\ parse.kind # "insert") =>
        \A i \in DOMAIN conds :
            /\ InScope(parse.tabs, parse.conds[i].lhs)
            /\ IsLiteral(parse.conds[i].rhs) \/ InScope(parse.tabs, parse.conds[i].rhs)

(* An UPDATE that was accepted is never refused halfway through its        *)
(* records: the checks UpdateExecutor repeats for each of them pass.       *)
UpdateNotRefused == (stage # "parsed" /\ raw) => out = "ok"

(* An INSERT never fails an assert of init_raw, whatever its values are:   *)
(* the executor's type check comes first.                                  *)
InsertNeverAborts == parse.kind = "insert" => out # "abort"

(* "WHERE / SET / comparisons compare types and throw an exception on a    *)
(* mismatch (IncompatibleTypeError)", lab3-scripts/lab3_summary.md:13:     *)
(* a literal of the wrong type is answered with that exception.            *)
MismatchThrows ==
    (stage = "analysed" /\ parse.kind = "delete" /\ Len(parse.conds) = 1) =>
        LET c == parse.conds[1]
            meant == Meant(parse.tabs, c.lhs) IN
        (/\ Cardinality(meant) = 1
         /\ IsLiteral(c.rhs)
         /\ \E m \in meant : get_col(m).type # c.rhs.type)
            => out = "IncompatibleTypeError"
=============================================================================
