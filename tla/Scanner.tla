------------------------------ MODULE Scanner -------------------------------
(***************************************************************************)
(* yylex and its buffers, src/src/parser/lex.yy.cpp, the scanner that flex *)
(* generated from lex.l.  Everything here is a static variable of the      *)
(* scanner, shared by all clients and never reset but by the code below.   *)
(*                                                                         *)
(* A text is a string of characters.  It is revealed piece by piece, when  *)
(* the automaton comes to its end: eof says that it is complete and that   *)
(* the two end-of-buffer characters follow.                                *)
(***************************************************************************)
EXTENDS ScannerTables, Ast

INITIAL == 1          \* the start states: 1 + 2 * the start condition
STATE_COMMENT == 3
NoBuffer == [text |-> "", eof |-> TRUE]

VARIABLES
    current_buffer,   \* YY_CURRENT_BUFFER: its text, or NoBuffer
    yytext_ptr,       \* where the last match starts
    yy_c_buf_p,       \* where the next one does
    yy_act,           \* the rule that matched, 0 before the first match
    yy_start          \* the start state

scanner_vars == <<current_buffer, yytext_ptr, yy_c_buf_p, yy_act, yy_start>>

ScannerInit ==
    /\ current_buffer = NoBuffer
    /\ yytext_ptr = 1
    /\ yy_c_buf_p = 1
    /\ yy_act = 0
    /\ yy_start = INITIAL

\* yy_scan_bytes, yy_scan_buffer: the buffer of a new text, of which nothing
\* is known yet.  It is not filled again from anywhere.
NewBuffer == [text |-> "", eof |-> FALSE]

\* With yy_load_buffer_state.  The start condition stays what it was.
yy_switch_to_buffer(new_buffer) ==
    /\ current_buffer' = new_buffer
    /\ yytext_ptr' = 1
    /\ yy_c_buf_p' = 1
    /\ yy_act' = 0
    /\ UNCHANGED yy_start

yy_scan_string == yy_switch_to_buffer(NewBuffer)

\* The pointers into the freed text stay; yy_switch_to_buffer follows them
\* only while there is a current buffer.
yy_delete_buffer ==
    /\ current_buffer' = NoBuffer
    /\ UNCHANGED <<yytext_ptr, yy_c_buf_p, yy_act, yy_start>>

-----------------------------------------------------------------------------
(* Characters and their classes.                                           *)
Char(text, i) == SubSeq(text, i, i)

(* The codes of the characters texts are written in, run by run: the first *)
(* character of a run, and the run.                                        *)
Runs == {<<32, " !">>, <<35, "#$%&'()*+,-./0123456789:;<=>?@ABCDEFGHIJKLMNOPQRSTUVWXYZ[">>,
         <<93, "]^_">>, <<97, "abcdefghijklmnopqrstuvwxyz{|}~">>,
         <<9, "\t">>, <<10, "\n">>, <<13, "\r">>}
CodeOf ==
    [c \in UNION {{Char(r[2], i) : i \in 1..Len(r[2])} : r \in Runs} |->
        CHOOSE n \in 9..126 : \E r \in Runs :
            n \in r[1]..(r[1] + Len(r[2]) - 1) /\ Char(r[2], n - r[1] + 1) = c]

\* The class of character i; the end-of-buffer characters have class 0.
ClassAt(text, i) == IF i > Len(text) THEN 0 ELSE yy_ec[CodeOf[Char(text, i)]]

\* The inner loop: from state s with a character of class c.
RECURSIVE NextState(_, _)
NextState(s, c) ==
    IF yy_chk[yy_base[s] + c] = s THEN yy_nxt[yy_base[s] + c]
    ELSE LET d == yy_def[s] IN NextState(d, IF d >= FIRST_TEMPLATE THEN yy_meta[c] ELSE c)

\* Faulty variant: the first accepting state is kept.
AcceptingFirst(s, i, last) ==
    IF yy_accept[s] # 0 /\ last.state = 0 THEN [state |-> s, cp |-> i] ELSE last

\* yy_last_accepting_state, yy_last_accepting_cpos.
Accepting(s, i, last) == IF yy_accept[s] # 0 THEN [state |-> s, cp |-> i] ELSE last

NeverAccepted == [state |-> 0, cp |-> 0]

\* yy_match: run from state s at position i until the automaton jams.  open:
\* the run came to the end of what is known of the text.
RECURSIVE RunAutomaton(_, _, _, _)
RunAutomaton(b, s, i, last) ==
    IF i > Len(b.text) /\ ~b.eof THEN [open |-> TRUE, state |-> s, cp |-> i, last |-> last]
    ELSE LET next == NextState(s, ClassAt(b.text, i)) IN
         IF yy_base[next] = JAM_BASE
         THEN [open |-> FALSE, state |-> next, cp |-> i + 1, last |-> Accepting(s, i, last)]
         ELSE RunAutomaton(b, next, i + 1, Accepting(s, i, last))

\* yy_get_previous_state: run to the end of the text and no further.
RECURSIVE PreviousState(_, _, _, _)
PreviousState(text, s, i, last) ==
    IF i > Len(text) THEN [open |-> FALSE, state |-> s, cp |-> i, last |-> last]
    ELSE PreviousState(text, NextState(s, ClassAt(text, i)), i + 1, Accepting(s, i, last))

\* yy_find_action: back up to the last accepting state if this one accepts
\* nothing.
FindAction(run) ==
    LET at == IF yy_accept[run.state] = 0 THEN run.last
              ELSE [state |-> run.state, cp |-> run.cp] IN
    [open |-> run.open, act |-> yy_accept[at.state], cp |-> at.cp]

\* yy_get_next_buffer has nothing to read from: the match is the end of the
\* file if it is the end-of-buffer character alone.
EndAlone(bp, cp) == cp - bp = 1

\* One match from position bp.  At the end of the buffer: the end of the file,
\* or what the text before it matches.
Match(b, bp) ==
    LET run == RunAutomaton(b, yy_start, bp, NeverAccepted) IN
    IF run.open THEN [open |-> TRUE, act |-> 0, cp |-> bp]
    ELSE LET m == FindAction(run) IN
         IF m.act # YY_END_OF_BUFFER THEN m
         ELSE IF EndAlone(bp, m.cp) THEN [open |-> FALSE, act |-> YY_END_OF_BUFFER, cp |-> bp]
         ELSE FindAction(PreviousState(b.text, yy_start, bp, NeverAccepted))

-----------------------------------------------------------------------------
\* When the run needs more of the text, what is typed next becomes known, or
\* that the text is complete.
MoreText == Match(current_buffer, yy_c_buf_p).open

Reveal(piece) ==
    /\ current_buffer' = [current_buffer EXCEPT !.text = @ \o piece]
    /\ UNCHANGED <<yytext_ptr, yy_c_buf_p, yy_act, yy_start>>

EndOfText ==
    /\ current_buffer' = [current_buffer EXCEPT !.eof = TRUE]
    /\ UNCHANGED <<yytext_ptr, yy_c_buf_p, yy_act, yy_start>>

\* Rules 8 to 40 return a token each; 41 its character, 42 to 45 a token with
\* a value, the end of the file T_EOF.
Keyword == <<
    "SHOW", "TXN_BEGIN", "TXN_COMMIT", "TXN_ABORT", "TXN_ROLLBACK", "TABLES", "CREATE",
    "TABLE", "DROP", "DESC", "INSERT", "INTO", "VALUES", "DELETE", "FROM", "WHERE",
    "UPDATE", "SET", "SELECT", "INT", "CHAR", "FLOAT", "INDEX", "AND", "JOIN", "EXIT",
    "HELP", "ORDER", "BY", "ASC", "GEQ", "LEQ", "NEQ">>

\* Faulty variants: the action of <<EOF>>, or of an identifier, does not return.
ReturnsButEof(act) == act \in 8..45
ReturnsButIdentifier(act) == act \in (8..41) \cup (43..45) \cup {YY_END_OF_BUFFER}

ReturnsToken(act) == act \in (8..45) \cup {YY_END_OF_BUFFER}

TokenOf(act, yytext) ==
    CASE act \in 8..40 -> Keyword[act - 7]
      [] act = 41 -> yytext
      [] act \in 42..45 -> <<"IDENTIFIER", "VALUE_INT", "VALUE_FLOAT", "VALUE_STRING">>[act - 41]
      [] act = YY_END_OF_BUFFER -> "T_EOF"

\* atoi without overflow, and atof as a number of digits before the point and
\* how many after it.
DigitValue(c) == CodeOf[c] - 48

RECURSIVE Digits(_)
Digits(s) ==
    IF s = "" THEN 0
    ELSE 10 * Digits(SubSeq(s, 1, Len(s) - 1)) + DigitValue(Char(s, Len(s)))

atoi(s) ==
    CASE Char(s, 1) = "-" -> -Digits(SubSeq(s, 2, Len(s)))
      [] Char(s, 1) = "+" -> Digits(SubSeq(s, 2, Len(s)))
      [] OTHER -> Digits(s)

atof(s) ==
    LET point == CHOOSE i \in 1..Len(s) : Char(s, i) = "." IN
    [whole |-> SubSeq(s, 1, point - 1), fraction |-> SubSeq(s, point + 1, Len(s))]

ValueOf(act, yytext, value) ==
    CASE act = 42 -> Set(value, "sv_str", yytext)
      [] act = 43 -> Set(value, "sv_int", atoi(yytext))
      [] act = 44 -> Set(value, "sv_float", atof(yytext))
      [] act = 45 -> Set(value, "sv_str", SubSeq(yytext, 2, Len(yytext) - 1))
      [] OTHER -> value

\* The next match, with its effect on the start condition.
MatchNext ==
    LET m == Match(current_buffer, yy_c_buf_p) IN
    /\ ~m.open
    /\ yytext_ptr' = yy_c_buf_p
    /\ yy_c_buf_p' = m.cp
    /\ yy_act' = m.act
    /\ yy_start' = CASE m.act = 1 -> STATE_COMMENT [] m.act = 2 -> INITIAL
                     [] OTHER -> yy_start
    /\ UNCHANGED current_buffer

yytext == SubSeq(current_buffer.text, yytext_ptr, yy_c_buf_p - 1)
=============================================================================
