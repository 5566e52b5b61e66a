----------------------------- MODULE MCFrontEnd -----------------------------
(***************************************************************************)
(* Texts for the front end.  Written in words: up to MaxWords tokens one   *)
(* after the other, names and values different at every place, so every    *)
(* statement of that length and every wrong token after every beginning of *)
(* one.  Long: up to MaxLong of the tokens that queries and updates with   *)
(* all their clauses are made of.  Written in fragments: the characters    *)
(* that lexical rules compete for, in any order.                           *)
(***************************************************************************)
EXTENDS FrontEnd

CONSTANTS MaxWords, MaxLong, MaxFragments, MaxInComment

Operators == {";", "(", ")", ",", ".", "=", "<", ">", "*", ">=", "<=", "<>"}
Spelled == {Words[i] \o " " : i \in 1..30}
Literals(k) ==
    LET d == ToString(k) IN {"x" \o d \o " ", "'" \o d \o "'", "7" \o d \o " ", d \o ".5 "}
LongWord(k) ==
    {w \o " " : w \in {"select", "from", "where", "and", "order", "by", "desc", "update", "set"}}
        \cup {"*", "=", ",", ";", ".", "x" \o ToString(k) \o " ", "'" \o ToString(k) \o "'"}
Word(k) == Operators \cup Spelled \cup Literals(k)

Fragments == {"a", "B2", "_", "1", "+", "-", ".", "'", "/", "*", "/*", "*/", "--", " ", "\t",
              "\n", "\r", ";", "<", ">", "=", "(", "Help", "eXiT", "show", "tables", "!"}

\* Columns of the same names in all tables, in x6 only one: an ORDER BY of one or
\* several tables may name a column of none, one or more of them.
MCColumnNames(t) == IF t = "x6" THEN <<"x9">> ELSE <<"x7", "x9", "x11">>

Names == {"words", "long", "fragments", "in a comment"}
MCOpens(s) == IF s = "in a comment" THEN STATE_COMMENT ELSE INITIAL
MCPieces(s, k) ==
    CASE s = "words" /\ k <= MaxWords -> Word(k)
      [] s = "long" /\ k <= MaxLong -> LongWord(k)
      [] s = "fragments" /\ k <= MaxFragments -> Fragments
      [] s = "in a comment" /\ k <= MaxInComment -> Fragments
      [] OTHER -> {}
=============================================================================
