---------------------------- MODULE MCStatements ----------------------------
\* TLC instances of Statements: records of two one-bit columns, WHERE clauses
\* on either column and without a condition, SET of either column.
EXTENDS Statements

MC_Values == [x : 0..1, y : 0..1]
MC_Wheres == {MC_Values, {v \in MC_Values : v.x = 0}, {v \in MC_Values : v.y = 1}}

MC_Inserts == [kind : {"insert"}, value : {[x |-> 0, y |-> 1], [x |-> 1, y |-> 0]}, valid : {TRUE}]
MC_Deletes == [kind : {"delete"}, where : MC_Wheres, valid : {TRUE}]
MC_Updates == [kind : {"update"}, where : MC_Wheres, col : {"x", "y"}, val : {1}, valid : {TRUE}]
MC_Rejected ==
    {[kind |-> "insert", value |-> [x |-> 0, y |-> 0], valid |-> FALSE],
     [kind |-> "update", where |-> MC_Values, col |-> "x", val |-> 0, valid |-> FALSE]}

MC_Requests == MC_Inserts \cup MC_Deletes \cup MC_Updates \cup MC_Rejected
=============================================================================
