--------------------------- MODULE MCSelectQuery ---------------------------
\* TLC instances of SelectQuery: FROM lists of one to four tables (four is the
\* least for a condition whose tables are both new to the tree).  Up to two
\* tables: every content of up to two records with two one-bit columns.  Three:
\* every content of up to two records that differ in x.  Four: one record each.
\* WHERE clauses of up to two conditions, three over four tables.
EXTENDS SelectQuery

CONSTANT FromLists

MC_ColConds(T) ==
    {[lhs_col |-> [tab_name |-> t, col_name |-> "x"], op |-> o, is_rhs_val |-> FALSE,
      rhs_col |-> [tab_name |-> u, col_name |-> "y"], rhs_val |-> 0] :
        t \in T, u \in T, o \in {"EQ", "LT"}}

MC_ValConds(T) ==
    {[lhs_col |-> [tab_name |-> t, col_name |-> "x"], op |-> "LT", is_rhs_val |-> TRUE,
      rhs_col |-> NoCol, rhs_val |-> 1] : t \in T}

\* Two columns of one table are compared only when it is the only table: of
\* several, pop_conds would take the condition for one of the first.
MC_CondsOver(T) ==
    {c \in MC_ColConds(T) \cup MC_ValConds(T) :
        Cardinality(T) = 1 \/ c.lhs_col.tab_name # c.rhs_col.tab_name}

MC_MaxConds(from) == IF Len(from) = 4 THEN 3 ELSE 2

\* Tables b and d begin with a string column, which no condition is on.
MC_TabCols(t) ==
    LET int(name, offset) == [tab_name |-> t, name |-> name, type |-> "TYPE_INT", len |-> 4,
                              offset |-> offset] IN
    IF t \in {"a", "c"} THEN <<int("x", 0), int("y", 4)>>
    ELSE <<[tab_name |-> t, name |-> "s", type |-> "TYPE_STRING", len |-> 3, offset |-> 0],
           int("y", 3), int("x", 7)>>

\* Up to two tables: SELECT *, and all columns but the first, backwards.  More:
\* all columns backwards, and the last one once more.
MC_AllCols(from) ==
    FlattenSeq([i \in DOMAIN from |-> [j \in DOMAIN MC_TabCols(from[i]) |->
        [tab_name |-> from[i], col_name |-> MC_TabCols(from[i])[j].name]]])
MC_SelCols(from) ==
    LET all == MC_AllCols(from) IN
    IF Len(from) <= 2 THEN {all, Reverse(Tail(all))} ELSE {Append(Reverse(all), Last(all))}

MC_Queries ==
    UNION {[tables : {from},
            conds : UNION {[1..n -> MC_CondsOver(ToSet(from))] : n \in 0..MC_MaxConds(from)},
            cols : MC_SelCols(from)] :
              from \in FromLists}

MC_Contents(n) ==
    CASE n <= 2 -> UNION {[1..k -> [x : 0..1, y : 0..1]] : k \in 0..2}
      [] n = 3  -> UNION {[1..k -> [x : 0..1, y : {1}]] : k \in 0..2}
      [] n > 3  -> {<<[x |-> 0, y |-> 1]>>}

\* The strings: shorter than the column in some records, as long in others.
MC_Records(rows) ==
    [i \in DOMAIN rows |-> rows[i] @@ ("s" :> IF rows[i].x = 0 THEN <<112>> ELSE <<112, 113, 112>>)]
MC_Databases(from) ==
    [ToSet(from) -> {MC_Records(rows) : rows \in MC_Contents(Len(from))}]

MC_OneToFour == {<<"a">>, <<"a", "b">>, <<"a", "c", "b">>, <<"a", "b", "c", "d">>}
MC_Three == {<<"a", "b", "c">>}
=============================================================================
