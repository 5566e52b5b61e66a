----------------------------- MODULE MCAnalyze -----------------------------
\* A TLC instance of Analyze: two tables that share a column name, and a table
\* that does not exist; columns of each type, literals that fit and that do not.
EXTENDS Analyze

MC_Catalog ==
    [t1 |-> <<[name |-> "id", type |-> "INT", len |-> 4],
              [name |-> "name", type |-> "STRING", len |-> 3]>>,
     t2 |-> <<[name |-> "id", type |-> "INT", len |-> 4],
              [name |-> "score", type |-> "FLOAT", len |-> 4],
              [name |-> "code", type |-> "STRING", len |-> 4]>>]

MC_Tabs == {"t1", "t2", "t3"}
MC_Cols ==
    [tab : {NoTab, "t1", "t2"}, col : {"id", "name", "none"}] \cup
    [tab : {NoTab}, col : {"score", "code"}]
MC_Literals ==
    [type : {"INT", "FLOAT"}, size : {4}] \cup [type : {"STRING"}, size : {3, 4, 5}]
MC_Conds == [lhs : MC_Cols, rhs : MC_Cols \cup MC_Literals]
MC_Clauses == {<<>>} \cup {<<c>> : c \in MC_Conds}
MC_Sets == [col : {"id", "name", "none"}, val : MC_Literals]

MC_ParseTrees ==
    [kind : {"select"}, tabs : {<<"t1">>, <<"t1", "t2">>, <<"t1", "t1">>, <<"t2", "t3">>},
     cols : {<<>>} \cup {<<c>> : c \in MC_Cols}, conds : MC_Clauses] \cup
    [kind : {"delete"}, tabs : {<<t>> : t \in MC_Tabs},
     conds : MC_Clauses \cup {<<c, [lhs |-> d, rhs |-> [type |-> "INT", size |-> 4]]>> :
                                 c \in MC_Conds, d \in MC_Cols}] \cup
    [kind : {"update"}, tabs : {<<t>> : t \in MC_Tabs},
     sets : {<<s>> : s \in MC_Sets} \cup
            {<<s, [col |-> "id", val |-> [type |-> "INT", size |-> 4]]>> : s \in MC_Sets},
     conds : {<<>>, <<[lhs |-> [tab |-> NoTab, col |-> "id"], rhs |-> [type |-> "INT", size |-> 4]]>>}] \cup
    [kind : {"insert"}, tabs : {<<t>> : t \in MC_Tabs},
     vals : UNION {[1..n -> MC_Literals] : n \in 1..3}]
=============================================================================
