--------------------------- MODULE StatementProofs ---------------------------
(***************************************************************************)
(* A statement from its analysis to its execution, for every catalogue,    *)
(* statement and table: what do_analyze accepts is well formed and is not  *)
(* refused later, and what the executors of it leave behind is what SQL    *)
(* says, whatever other clients do meanwhile.                              *)
(***************************************************************************)
EXTENDS Statements, Analyze, NaturalsInduction, WellFoundedInduction, TLAPS

-----------------------------------------------------------------------------
(* Analysis.  The first check that throws is the answer: a sequence of     *)
(* checks passes if and only if each of them does.                         *)

\* A set of naturals that is not empty has a least element, and CHOOSE finds it.
LEMMA LeastNumber ==
  ASSUME NEW T, T \subseteq Nat, T # {}
  PROVE  LET m == CHOOSE r \in T : \A q \in T : r <= q
         IN  m \in T /\ \A q \in T : m <= q
<1> DEFINE R == OpToRel(<, Nat)
<1>1. \A x, y \in Nat : <<x, y>> \in R <=> x < y
  BY Zenon DEF OpToRel
<1>2. IsWellFoundedOn(R, Nat)
  BY Zenon, NatLessThanWellFounded
<1> HIDE DEF R
<1>3. PICK m \in T : \A y \in T : ~ (<<y, m>> \in R)
  BY Zenon, <1>2, WFMin
<1>4. \A y \in T : ~ (y < m)
  BY Zenon, <1>1, <1>3
<1>5. \A y \in T : m <= y
  BY <1>4
<1> QED BY Zenon, <1>5

\* The answers of the checks: success, a failed assert, or an exception.
Answers ==
    {"ok", "abort", "TableNotFoundError", "ColumnNotFoundError", "AmbiguousColumnError",
     "IncompatibleTypeError", "StringOverflowError", "InvalidValueCountError"}
Checks == Seq(Answers)

\* The answer is ok if and only if every check passed, and is that of some check
\* otherwise.
LEMMA FirstFailureIs ==
  ASSUME NEW s \in Checks
  PROVE  /\ FirstFailure(s) = "ok" <=> \A i \in 1..Len(s) : s[i] = "ok"
         /\ FirstFailure(s) = "ok" \/ \E i \in 1..Len(s) : FirstFailure(s) = s[i]
         /\ FirstFailure(s) \in Answers
<1> DEFINE bad == {i \in DOMAIN s : s[i] # "ok"}
           m == CHOOSE i \in bad : \A j \in bad : i <= j
<1>1. DOMAIN s = 1..Len(s) /\ Len(s) \in Nat /\ \A i \in 1..Len(s) : s[i] \in Answers
  BY DEF Checks
<1>2. CASE bad = {}
  <2>1. FirstFailure(s) = "ok"
    BY Zenon, <1>2 DEF FirstFailure
  <2>2. \A i \in 1..Len(s) : s[i] = "ok"
    BY Zenon, <1>1, <1>2
  <2>3. FirstFailure(s) \in Answers
    BY Zenon, <2>1 DEF Answers
  <2> QED BY Zenon, <2>1, <2>2, <2>3
<1>3. CASE bad # {}
  <2>0. bad \subseteq Nat
    BY <1>1
  <2>1. m \in bad
    BY Zenon, <2>0, <1>3, LeastNumber
  <2>2. FirstFailure(s) = s[m]
    BY Zenon, <1>3 DEF FirstFailure
  <2> HIDE DEF m
  <2> QED BY Zenon, <1>1, <2>1, <2>2
<1> QED BY Zenon, <1>2, <1>3

\* Two sequences of checks, one after the other.
LEMMA Together ==
  ASSUME NEW s \in Checks, NEW t \in Checks
  PROVE  /\ s \o t \in Checks
         /\ FirstFailure(s \o t) = "ok" <=> FirstFailure(s) = "ok" /\ FirstFailure(t) = "ok"
         /\ \/ FirstFailure(s \o t) = "ok"
            \/ \E i \in 1..Len(s) : FirstFailure(s \o t) = s[i]
            \/ \E i \in 1..Len(t) : FirstFailure(s \o t) = t[i]
<1> DEFINE u == s \o t
<1>1. /\ u \in Checks /\ Len(u) = Len(s) + Len(t) /\ Len(s) \in Nat /\ Len(t) \in Nat
      /\ \A i \in 1..Len(u) : u[i] = IF i <= Len(s) THEN s[i] ELSE t[i - Len(s)]
  BY DEF Checks
<1> HIDE DEF u
<1>2. \A i \in 1..Len(s) : i \in 1..Len(u) /\ u[i] = s[i]
  BY <1>1
<1>3. ASSUME NEW i \in 1..Len(t)
      PROVE  i + Len(s) \in 1..Len(u) /\ u[i + Len(s)] = t[i]
  <2>1. i + Len(s) \in 1..Len(u) /\ ~(i + Len(s) <= Len(s)) /\ (i + Len(s)) - Len(s) = i
    BY <1>1
  <2> QED BY Zenon, <1>1, <2>1
<1>4. ASSUME NEW i \in 1..Len(u)
      PROVE  \/ i \in 1..Len(s) /\ u[i] = s[i]
             \/ i - Len(s) \in 1..Len(t) /\ u[i] = t[i - Len(s)]
  BY <1>1
<1>5. FirstFailure(u) = "ok" <=> FirstFailure(s) = "ok" /\ FirstFailure(t) = "ok"
  <2>1. (\A i \in 1..Len(u) : u[i] = "ok") <=>
          (\A i \in 1..Len(s) : s[i] = "ok") /\ (\A i \in 1..Len(t) : t[i] = "ok")
    BY Zenon, <1>2, <1>3, <1>4
  <2> QED BY Zenon, <1>1, <2>1, FirstFailureIs
<1>6. \/ FirstFailure(u) = "ok"
      \/ \E i \in 1..Len(s) : FirstFailure(u) = s[i]
      \/ \E i \in 1..Len(t) : FirstFailure(u) = t[i]
  <2>1. FirstFailure(u) = "ok" \/ \E i \in 1..Len(u) : FirstFailure(u) = u[i]
    BY Zenon, <1>1, FirstFailureIs
  <2> QED BY Zenon, <1>4, <2>1
<1> QED BY Zenon, <1>1, <1>5, <1>6 DEF u

\* Sequences of one and of two elements.
LEMMA ShortSeq ==
  ASSUME NEW S, NEW a \in S, NEW b \in S
  PROVE  <<a>> \in Seq(S) /\ <<a, b>> \in Seq(S) /\ Len(<<a>>) = 1
OBVIOUS

\* One check, and two checks one after the other.
LEMMA TwoChecks ==
  ASSUME NEW a \in Answers, NEW b \in Answers
  PROVE  /\ <<a>> \in Checks /\ <<a, b>> \in Checks
         /\ FirstFailure(<<a>>) = a
         /\ FirstFailure(<<a, b>>) = IF a = "ok" THEN b ELSE a
<1>1. /\ <<a>> \in Checks /\ <<a, b>> \in Checks /\ Len(<<a>>) = 1 /\ Len(<<a, b>>) = 2
      /\ <<a>>[1] = a /\ <<a, b>>[1] = a /\ <<a, b>>[2] = b
  <2>1. <<a>> \in Seq(Answers) /\ Len(<<a>>) = 1
    BY Zenon, ShortSeq
  <2>2. <<a, b>> \in Seq(Answers)
    BY Zenon, ShortSeq
  <2>3. Len(<<a, b>>) = 2 /\ <<a>>[1] = a /\ <<a, b>>[1] = a /\ <<a, b>>[2] = b
    BY Zenon
  <2> QED BY Zenon, <2>1, <2>2, <2>3 DEF Checks
<1>2. FirstFailure(<<a>>) = a
  <2> DEFINE s == <<a>>
  <2>1. \A i \in 1..Len(s) : s[i] = a
    BY <1>1
  <2>2. 1 \in 1..Len(s)
    BY <1>1
  <2>3. /\ FirstFailure(s) = "ok" <=> \A i \in 1..Len(s) : s[i] = "ok"
        /\ FirstFailure(s) = "ok" \/ \E i \in 1..Len(s) : FirstFailure(s) = s[i]
    BY Zenon, <1>1, FirstFailureIs
  <2> HIDE DEF s
  <2>4. FirstFailure(s) = a
    <3>1. CASE a = "ok"
      BY Zenon, <2>1, <2>3, <3>1
    <3>2. CASE a # "ok"
      <4>1. FirstFailure(s) # "ok"
        BY Zenon, <2>1, <2>2, <2>3, <3>2
      <4> QED BY Zenon, <2>1, <2>3, <4>1
    <3> QED BY Zenon, <3>1, <3>2
  <2> QED BY Zenon, <2>4 DEF s
<1>3. FirstFailure(<<a, b>>) = IF a = "ok" THEN b ELSE a
  <2> DEFINE s == <<a, b>>
             bad == {i \in DOMAIN s : s[i] # "ok"}
             m == CHOOSE i \in bad : \A j \in bad : i <= j
  <2>0. DOMAIN s = {1, 2} /\ s[1] = a /\ s[2] = b
    OBVIOUS
  <2>1. CASE bad = {}
    BY Zenon, <2>0, <2>1 DEF FirstFailure
  <2>2. CASE bad # {}
    <3>1. bad \subseteq Nat
      BY <2>0
    <3>2. m \in bad /\ \A j \in bad : m <= j
      BY Zenon, <2>2, <3>1, LeastNumber
    <3>3. FirstFailure(s) = s[m]
      BY Zenon, <2>2 DEF FirstFailure
    <3> HIDE DEF m
    <3> QED BY <2>0, <3>2, <3>3
  <2> QED BY Zenon, <2>1, <2>2
<1> QED BY Zenon, <1>1, <1>2, <1>3

(* The parts of a statement, and the catalogue.                            *)
LEMMA TreeIs ==
  ASSUME NEW s \in ParseTrees
  PROVE  /\ s.kind \in {"select", "delete", "update", "insert"}
         /\ s.kind = "select" => s.cols \in Seq(ColNames)
         /\ s.kind = "update" => s.sets \in Seq([col : STRING, val : Literals])
         /\ s.kind = "insert" => s.vals \in Seq(Literals)
         /\ s.kind # "insert" => s.conds \in Seq(Conditions)
         /\ s.tabs \in Seq(STRING)
<1>1. \/ s \in [kind : {"select"}, tabs : Seq(STRING), cols : Seq(ColNames),
                conds : Seq(Conditions)]
      \/ s \in [kind : {"delete"}, tabs : Seq(STRING), conds : Seq(Conditions)]
      \/ s \in [kind : {"update"}, tabs : Seq(STRING), conds : Seq(Conditions),
                sets : Seq([col : STRING, val : Literals])]
      \/ s \in [kind : {"insert"}, tabs : Seq(STRING), vals : Seq(Literals)]
  BY Zenon, AnalyzeAssumption
<1> QED BY Zenon, <1>1

(* The columns of a table, that get_col finds: a number has its length.    *)
ColMetas == [name : STRING, type : {"INT", "FLOAT", "STRING"}, len : Nat]
FitForNumbers(c) == c \in ColMetas /\ (c.type # "STRING" => c.len = SIZEOF_NUMBER)

\* get_table gives a sequence of column descriptions in which numbers have their
\* length; that of no table is empty.
LEMMA TableIs ==
  ASSUME NEW t
  PROVE  /\ get_table(t) \in Seq(ColMetas)
         /\ \A i \in 1..Len(get_table(t)) : FitForNumbers(get_table(t)[i])
         /\ DOMAIN get_table(t) = 1..Len(get_table(t)) /\ Len(get_table(t)) \in Nat
<1>1. CASE t \in DOMAIN Catalog
  <2>1. /\ get_table(t) \in Seq(ColMetas)
        /\ \A i \in DOMAIN get_table(t) :
              get_table(t)[i].type # "STRING" => get_table(t)[i].len = SIZEOF_NUMBER
    BY Zenon, <1>1, AnalyzeAssumption DEF get_table, ColMetas
  <2>2. DOMAIN get_table(t) = 1..Len(get_table(t)) /\ Len(get_table(t)) \in Nat
    BY <2>1
  <2>3. \A i \in 1..Len(get_table(t)) : get_table(t)[i] \in ColMetas
    BY <2>1
  <2> QED BY Zenon, <2>1, <2>2, <2>3 DEF FitForNumbers
<1>2. CASE t \notin DOMAIN Catalog
  <2>1. get_table(t) = <<>>
    BY Zenon, <1>2 DEF get_table
  <2> QED BY <2>1
<1> QED BY Zenon, <1>1, <1>2

\* The column get_col finds is one of them.
LEMMA ColumnIs ==
  ASSUME NEW c, Positions(c.tab, c.col) # {}
  PROVE  FitForNumbers(get_col(c))
<1> DEFINE at == Positions(c.tab, c.col)
           m == CHOOSE i \in at : \A j \in at : i <= j
<1>1. at \subseteq 1..Len(get_table(c.tab)) /\ at \subseteq Nat
  BY TableIs DEF Positions
<1>2. m \in at
  BY Zenon, <1>1, LeastNumber
<1>3. get_col(c) = get_table(c.tab)[m]
  BY Zenon DEF get_col
<1> QED BY Zenon, <1>1, <1>2, <1>3, TableIs

(* A name that check_column accepts can mean one column only, if it is in  *)
(* scope, and the answer is that column.                                   *)
LEMMA CheckColumn ==
  ASSUME NEW tabs \in Seq(STRING), NEW c \in ColNames
  PROVE  LET k == check_column(tabs, c) IN
         /\ k.out \in Answers
         /\ k.out = "ok" => /\ MeansOnly(tabs, c, k.col)
                            /\ Positions(k.col.tab, k.col.col) # {}
<1> DEFINE all == Occurrences(tabs, c.col)
           k == check_column(tabs, c)
<1>c. c = [tab |-> c.tab, col |-> c.col]
  BY Zenon DEF ColNames
<1>1. CASE c.tab # NoTab
  <2>1. k = IF Positions(c.tab, c.col) # {} THEN [out |-> "ok", col |-> c]
            ELSE [out |-> "ColumnNotFoundError"]
    BY Zenon, <1>1 DEF check_column
  <2>2. ASSUME InScope(tabs, c), Positions(c.tab, c.col) # {}
        PROVE  Meant(tabs, c) = {[tab |-> c.tab, col |-> c.col]}
    <3>1. {u \in From(tabs) : (c.tab = NoTab \/ c.tab = u) /\ Positions(u, c.col) # {}}
             = {c.tab}
      BY Zenon, <1>1, <2>2 DEF InScope
    <3> QED BY Zenon, <3>1 DEF Meant
  <2>3. Positions(c.tab, c.col) # {} => MeansOnly(tabs, c, c)
    BY Zenon, <1>c, <2>2 DEF MeansOnly
  <2> HIDE DEF k
  <2> QED BY <2>1, <2>3 DEF Answers, k
<1>2. CASE c.tab = NoTab /\ all = {}
  <2>1. k = [out |-> "ColumnNotFoundError"]
    BY Zenon, <1>2 DEF check_column
  <2> QED BY <2>1 DEF Answers
<1>3. CASE c.tab = NoTab /\ \E o, p \in all : o # p
  <2>1. k = [out |-> "AmbiguousColumnError"]
    BY Zenon, <1>3 DEF check_column
  <2> QED BY <2>1 DEF Answers
<1>4. CASE c.tab = NoTab /\ \E o \in all : all = {o}
  <2>1. PICK o \in all : all = {o}
    BY Zenon, <1>4
  <2>2. (CHOOSE q \in all : TRUE) = o
    BY Zenon, <2>1
  <2>3. k = [out |-> "ok", col |-> [c EXCEPT !.tab = tabs[o[1]]]]
    BY Zenon, <1>4, <2>1, <2>2 DEF check_column
  <2>4. [c EXCEPT !.tab = tabs[o[1]]] = [tab |-> tabs[o[1]], col |-> c.col]
    BY <1>c
  <2>a. PICK i \in DOMAIN tabs : \E j \in Positions(tabs[i], c.col) : o = <<i, j>>
    BY Zenon, <2>1 DEF Occurrences
  <2>5. PICK j \in Positions(tabs[i], c.col) : o = <<i, j>>
    BY Zenon, <2>a
  <2>6. o[1] = i /\ Positions(tabs[i], c.col) # {}
    BY Zenon, <2>5
  <2>7. ASSUME NEW n \in DOMAIN tabs, Positions(tabs[n], c.col) # {}
        PROVE  n = i
    <3>1. PICK q \in Positions(tabs[n], c.col) : TRUE
      BY Zenon, <2>7
    <3>2. <<n, q>> \in all
      BY <3>1 DEF Occurrences
    <3> QED BY <2>1, <2>5, <3>2
  <2>8. {u \in From(tabs) : (c.tab = NoTab \/ c.tab = u) /\ Positions(u, c.col) # {}}
           = {tabs[i]}
    BY Zenon, <1>4, <2>6, <2>7 DEF From
  <2>9. MeansOnly(tabs, c, [tab |-> tabs[i], col |-> c.col])
    BY Zenon, <2>8 DEF Meant, MeansOnly
  <2> QED BY <2>3, <2>4, <2>6, <2>9 DEF Answers
<1>5. all = {} \/ (\E o, p \in all : o # p) \/ \E o \in all : all = {o}
  BY Zenon
<1> QED BY Zenon, <1>1, <1>2, <1>3, <1>4, <1>5

(* What the checks of a WHERE clause and of a literal mean.                *)
LEMMA InitRaw ==
  ASSUME NEW v \in Literals, NEW len \in Nat
  PROVE  /\ init_raw(v, len, FALSE) \in Answers
         /\ init_raw(v, len, FALSE) = "ok" /\ v.type = "STRING" => v.size <= len
         /\ len = SIZEOF_NUMBER \/ v.type = "STRING" => init_raw(v, len, FALSE) # "abort"
<1>1. v.size \in Nat
  BY Zenon DEF Literals
<1>2. CASE v.type = "STRING"
  BY <1>1, <1>2 DEF init_raw, Answers
<1>3. CASE v.type # "STRING"
  BY Zenon, <1>3 DEF init_raw, Answers
<1> QED BY Zenon, <1>2, <1>3

\* The type check passes for equal types and never fails an assert.
LEMMA SameTypeIs ==
  ASSUME NEW a, NEW b
  PROVE  /\ SameType(a, b) \in Answers /\ SameType(a, b) # "abort"
         /\ SameType(a, b) = "ok" <=> a = b
BY Zenon DEF SameType, Answers

\* Neither does the look-up of a table.
LEMMA IsTable ==
  ASSUME NEW t
  PROVE  is_table(t) \in Answers /\ is_table(t) # "abort"
BY Zenon DEF is_table, Answers

\* A right-hand side is a literal or the name of a column, never both.
LEMMA LiteralIs ==
  /\ \A v \in Literals : IsLiteral(v)
  /\ \A c \in ColNames : ~IsLiteral(c)
BY Zenon DEF IsLiteral, Literals, ColNames

\* What AcceptedWellFormed says of a condition c and of k, what it was resolved to.
WellFormed(tabs, c, k) ==
    LET l == get_col(k.lhs) IN
    /\ MeansOnly(tabs, c.lhs, k.lhs)
    /\ IF IsLiteral(c.rhs)
       THEN /\ c.rhs.type = l.type
            /\ c.rhs.type = "STRING" => c.rhs.size <= l.len
       ELSE /\ MeansOnly(tabs, c.rhs, k.rhs)
            /\ get_col(k.rhs).type = l.type

\* A condition that check_clause lets pass is well formed.
LEMMA CheckCondition ==
  ASSUME NEW tabs \in Seq(STRING), NEW c \in Conditions
  PROVE  /\ check_condition(tabs, c) \in Answers
         /\ check_condition(tabs, c) = "ok" => WellFormed(tabs, c, Resolve(tabs, c))
<1> DEFINE l == check_column(tabs, c.lhs)
           r == check_column(tabs, c.rhs)
           k == Resolve(tabs, c)
<1>1. c.lhs \in ColNames /\ c.rhs \in ColNames \cup Literals
  BY Zenon DEF Conditions
<1>2. /\ l.out \in Answers
      /\ l.out = "ok" => MeansOnly(tabs, c.lhs, l.col) /\ FitForNumbers(get_col(l.col))
  <2>1. /\ l.out \in Answers
        /\ l.out = "ok" => MeansOnly(tabs, c.lhs, l.col)
                            /\ Positions(l.col.tab, l.col.col) # {}
    BY Zenon, <1>1, CheckColumn
  <2> QED BY Zenon, <2>1, ColumnIs
<1>3. CASE l.out # "ok"
  <2>1. check_condition(tabs, c) = l.out
    BY Zenon, <1>3 DEF check_condition
  <2> QED BY Zenon, <1>2, <1>3, <2>1
<1>4. CASE l.out = "ok" /\ IsLiteral(c.rhs)
  <2>1. c.rhs \in Literals
    BY Zenon, <1>1, <1>4, LiteralIs
  <2> DEFINE m == get_col(l.col)
             a == init_raw(c.rhs, m.len, FALSE)
             b == SameType(m.type, c.rhs.type)
  <2>2. m.len \in Nat
    <3>1. m \in ColMetas
      BY Zenon, <1>2, <1>4 DEF FitForNumbers
    <3> QED BY Zenon, <3>1 DEF ColMetas
  <2>3. check_condition(tabs, c) = FirstFailure(<<a, b>>)
    BY Zenon, <1>4 DEF check_condition, CheckLiteral
  <2>4. /\ a \in Answers /\ b \in Answers
        /\ a = "ok" /\ c.rhs.type = "STRING" => c.rhs.size <= m.len
        /\ b = "ok" => m.type = c.rhs.type
    BY Zenon, <2>1, <2>2, InitRaw, SameTypeIs
  <2>5. k.lhs = l.col
    BY Zenon DEF Resolve
  <2> HIDE DEF a, b, m, l, k
  <2>6. FirstFailure(<<a, b>>) = IF a = "ok" THEN b ELSE a
    BY Zenon, <2>4, TwoChecks
  <2>7. check_condition(tabs, c) \in Answers
    BY Zenon, <2>3, <2>4, <2>6
  <2>8. ASSUME check_condition(tabs, c) = "ok" PROVE WellFormed(tabs, c, k)
    <3>1. a = "ok" /\ b = "ok"
      BY Zenon, <2>3, <2>6, <2>8
    <3> QED BY Zenon, <1>2, <1>4, <2>4, <2>5, <3>1 DEF WellFormed, m
  <2> QED BY Zenon, <2>7, <2>8 DEF k
<1>5. CASE l.out = "ok" /\ ~IsLiteral(c.rhs)
  <2>1. c.rhs \in ColNames
    BY Zenon, <1>1, <1>5, LiteralIs
  <2> DEFINE b == SameType(get_col(l.col).type, get_col(r.col).type)
  <2>2. check_condition(tabs, c) = IF r.out # "ok" THEN r.out ELSE b
    BY Zenon, <1>5 DEF check_condition
  <2>a. b \in Answers /\ (b = "ok" => get_col(l.col).type = get_col(r.col).type)
    BY Zenon, SameTypeIs
  <2>3. r.out \in Answers /\ (r.out = "ok" => MeansOnly(tabs, c.rhs, r.col))
    BY Zenon, <2>1, CheckColumn
  <2>4. k.lhs = l.col /\ k.rhs = r.col
    BY Zenon, <1>5 DEF Resolve
  <2> HIDE DEF b, l, r, k
  <2>5. check_condition(tabs, c) \in Answers
    BY Zenon, <2>2, <2>3, <2>a
  <2>6. ASSUME check_condition(tabs, c) = "ok" PROVE WellFormed(tabs, c, k)
    <3>1. r.out = "ok" /\ b = "ok"
      BY Zenon, <2>2, <2>6
    <3> QED BY Zenon, <1>2, <1>5, <2>3, <2>a, <2>4, <3>1 DEF WellFormed
  <2> QED BY Zenon, <2>5, <2>6 DEF k
<1> QED BY Zenon, <1>3, <1>4, <1>5

\* A function from 1..n to answers is a sequence of checks.
LEMMA ChecksOf ==
  ASSUME NEW f, NEW n \in Nat, f = [i \in 1..n |-> f[i]],
         \A i \in 1..n : f[i] \in Answers
  PROVE  f \in Checks /\ Len(f) = n
BY DEF Checks

\* So is each condition of a clause that passes.
LEMMA CheckClause ==
  ASSUME NEW tabs \in Seq(STRING), NEW cs \in Seq(Conditions)
  PROVE  /\ check_clause(tabs, cs) \in Answers
         /\ check_clause(tabs, cs) = "ok" =>
               \A i \in 1..Len(cs) : WellFormed(tabs, cs[i], Resolve(tabs, cs[i]))
<1> DEFINE a == [i \in DOMAIN tabs |-> is_table(tabs[i])]
           b == [i \in DOMAIN cs |-> check_condition(tabs, cs[i])]
<1>1. /\ DOMAIN tabs = 1..Len(tabs) /\ Len(tabs) \in Nat
      /\ DOMAIN cs = 1..Len(cs) /\ Len(cs) \in Nat
      /\ \A i \in 1..Len(cs) : cs[i] \in Conditions
  OBVIOUS
<1>2. a \in Checks
  <2>1. a = [i \in 1..Len(tabs) |-> a[i]] /\ \A i \in 1..Len(tabs) : a[i] \in Answers
    BY Zenon, <1>1, IsTable
  <2> QED BY Zenon, <1>1, <2>1, ChecksOf
<1>3. b \in Checks /\ Len(b) = Len(cs)
  <2>1. b = [i \in 1..Len(cs) |-> b[i]] /\ \A i \in 1..Len(cs) : b[i] \in Answers
    BY Zenon, <1>1, CheckCondition
  <2> QED BY Zenon, <1>1, <2>1, ChecksOf
<1>4. \A i \in 1..Len(cs) : b[i] = check_condition(tabs, cs[i])
  BY Zenon, <1>1
<1>5. check_clause(tabs, cs) = FirstFailure(a \o b)
  BY Zenon DEF check_clause
<1> HIDE DEF a, b
<1>6. /\ a \o b \in Checks
      /\ FirstFailure(a \o b) = "ok" => FirstFailure(b) = "ok"
  BY Zenon, <1>2, <1>3, Together
<1>7. FirstFailure(b) = "ok" => \A i \in 1..Len(cs) : b[i] = "ok"
  BY Zenon, <1>3, FirstFailureIs
<1>8. check_clause(tabs, cs) \in Answers
  BY Zenon, <1>5, <1>6, FirstFailureIs
<1> QED BY Zenon, <1>1, <1>4, <1>5, <1>6, <1>7, <1>8, CheckCondition

(* A value whose type is the column's never fails the assert of init_raw.  *)
LEMMA ConvertAfterType ==
  ASSUME NEW c, FitForNumbers(c), NEW v \in Literals
  PROVE  LET f == FirstFailure(<<SameType(c.type, v.type), init_raw(v, c.len, FALSE)>>)
         IN  f \in Answers /\ f # "abort"
<1> DEFINE a == SameType(c.type, v.type)
           b == init_raw(v, c.len, FALSE)
<1>1. c.len \in Nat /\ (c.type # "STRING" => c.len = SIZEOF_NUMBER)
  <2>1. c \in ColMetas
    BY Zenon DEF FitForNumbers
  <2> QED BY Zenon, <2>1 DEF FitForNumbers, ColMetas
<1>2. a \in Answers /\ a # "abort" /\ (a = "ok" <=> c.type = v.type)
  BY Zenon, SameTypeIs
<1>3. b \in Answers /\ (a = "ok" => b # "abort")
  BY Zenon, <1>1, <1>2, InitRaw
<1> HIDE DEF a, b
<1>4. FirstFailure(<<a, b>>) = IF a = "ok" THEN b ELSE a
  BY Zenon, <1>2, <1>3, TwoChecks
<1>5. FirstFailure(<<a, b>>) \in Answers /\ FirstFailure(<<a, b>>) # "abort"
  BY Zenon, <1>2, <1>3, <1>4
<1> QED BY Zenon, <1>5 DEF a, b

\* The check of one SET clause has an answer.
LEMMA CheckSetIs ==
  ASSUME NEW t, NEW s \in [col : STRING, val : Literals]
  PROVE  CheckSet(t, s, FALSE) \in Answers
<1>1. s.val \in Literals
  BY Zenon
<1>2. CASE Positions(t, s.col) = {}
  BY Zenon, <1>2 DEF CheckSet, Answers
<1>3. CASE Positions(t, s.col) # {}
  <2> DEFINE n == [tab |-> t, col |-> s.col]
             c == get_col(n)
  <2>1. n.tab = t /\ n.col = s.col
    BY Zenon
  <2>2. FitForNumbers(c)
    BY Zenon, <1>3, <2>1, ColumnIs
  <2>3. CheckSet(t, s, FALSE)
          = FirstFailure(<<SameType(c.type, s.val.type), init_raw(s.val, c.len, FALSE)>>)
    BY Zenon, <1>3 DEF CheckSet
  <2> HIDE DEF c
  <2> QED BY Zenon, <1>1, <2>2, <2>3, ConvertAfterType
<1> QED BY Zenon, <1>2, <1>3

\* The checks of the SET clauses, by do_analyze and again by UpdateExecutor::Next.
SetChecks(s) == [i \in DOMAIN s.sets |-> CheckSet(s.tabs[1], s.sets[i], FALSE)]

\* They are a sequence of checks.
LEMMA SetChecksAre ==
  ASSUME NEW s \in ParseTrees, s.kind = "update"
  PROVE  SetChecks(s) \in Checks
<1>1. s.sets \in Seq([col : STRING, val : Literals])
  BY Zenon, TreeIs
<1>2. /\ DOMAIN s.sets = 1..Len(s.sets) /\ Len(s.sets) \in Nat
      /\ \A i \in 1..Len(s.sets) : s.sets[i] \in [col : STRING, val : Literals]
  <2> DEFINE S == [col : STRING, val : Literals]
  <2>1. s.sets \in Seq(S)
    BY Zenon, <1>1
  <2> HIDE DEF S
  <2>2. /\ DOMAIN s.sets = 1..Len(s.sets) /\ Len(s.sets) \in Nat
        /\ \A i \in 1..Len(s.sets) : s.sets[i] \in S
    BY <2>1
  <2> QED BY Zenon, <2>2 DEF S
<1> DEFINE f == SetChecks(s)
<1>3. f = [i \in 1..Len(s.sets) |-> f[i]] /\ \A i \in 1..Len(s.sets) : f[i] \in Answers
  BY Zenon, <1>2, CheckSetIs DEF SetChecks
<1> HIDE DEF f
<1>4. f \in Checks
  BY Zenon, <1>2, <1>3, ChecksOf
<1> QED BY Zenon, <1>4 DEF f

(* What do_analyze accepts has passed the checks of its parts.             *)
LEMMA VerdictIs ==
  ASSUME NEW s \in ParseTrees
  PROVE  /\ s.kind = "insert" => Verdict(s) = "ok"
         /\ s.kind = "update" /\ Verdict(s) = "ok" => FirstFailure(SetChecks(s)) = "ok"
         /\ s.kind # "insert" /\ Verdict(s) = "ok" => check_clause(s.tabs, s.conds) = "ok"
<1> DEFINE w == check_clause(s.tabs, s.conds)
<1>0. s.kind # "insert" => w \in Answers /\ <<w>> \in Checks /\ FirstFailure(<<w>>) = w
  <2>1. s.kind # "insert" => w \in Answers
    BY Zenon, TreeIs, CheckClause
  <2> HIDE DEF w
  <2> QED BY Zenon, <2>1, TwoChecks
<1>1. CASE s.kind = "insert"
  BY Zenon, <1>1 DEF Verdict
<1>2. CASE s.kind = "delete"
  BY Zenon, <1>2 DEF Verdict
<1>3. CASE s.kind = "update"
  <2> DEFINE a == <<is_table(s.tabs[1])>>
             b == SetChecks(s)
  <2>1. a \in Checks /\ b \in Checks
    BY Zenon, <1>3, IsTable, TwoChecks, SetChecksAre
  <2>2. Verdict(s) = FirstFailure(a \o b \o <<w>>)
    BY Zenon, <1>3 DEF Verdict, SetChecks
  <2> HIDE DEF a, b, w
  <2>3. a \o b \in Checks /\ (FirstFailure(a \o b) = "ok" => FirstFailure(b) = "ok")
    BY Zenon, <2>1, Together
  <2>4. FirstFailure(a \o b \o <<w>>) = "ok" => FirstFailure(a \o b) = "ok" /\ w = "ok"
    BY Zenon, <1>0, <1>3, <2>3, Together
  <2> QED BY Zenon, <1>3, <2>2, <2>3, <2>4 DEF b, w
<1>4. CASE s.kind = "select"
  <2> DEFINE a == [i \in DOMAIN s.tabs |-> is_table(s.tabs[i])]
             b == [i \in DOMAIN s.cols |-> check_column(s.tabs, s.cols[i]).out]
  <2>1. s.tabs \in Seq(STRING) /\ s.cols \in Seq(ColNames)
    BY Zenon, <1>4, TreeIs
  <2>2. /\ DOMAIN s.tabs = 1..Len(s.tabs) /\ Len(s.tabs) \in Nat
        /\ DOMAIN s.cols = 1..Len(s.cols) /\ Len(s.cols) \in Nat
        /\ \A i \in 1..Len(s.cols) : s.cols[i] \in ColNames
    BY <2>1
  <2>3. a \in Checks
    <3>1. a = [i \in 1..Len(s.tabs) |-> a[i]] /\ \A i \in 1..Len(s.tabs) : a[i] \in Answers
      BY Zenon, <2>2, IsTable
    <3> QED BY Zenon, <2>2, <3>1, ChecksOf
  <2>4. b \in Checks
    <3>1. b = [i \in 1..Len(s.cols) |-> b[i]] /\ \A i \in 1..Len(s.cols) : b[i] \in Answers
      BY Zenon, <2>1, <2>2, CheckColumn
    <3> QED BY Zenon, <2>2, <3>1, ChecksOf
  <2>5. Verdict(s) = FirstFailure(a \o b \o <<w>>)
    BY Zenon, <1>4 DEF Verdict
  <2> HIDE DEF a, b, w
  <2>6. a \o b \in Checks
    BY Zenon, <2>3, <2>4, Together
  <2>7. FirstFailure(a \o b \o <<w>>) = "ok" => w = "ok"
    BY Zenon, <1>0, <1>4, <2>6, Together
  <2> QED BY Zenon, <1>4, <2>5, <2>7 DEF w
<1> QED BY Zenon, <1>1, <1>2, <1>3, <1>4, TreeIs

\* The inductive invariant of the analysis: while an UPDATE is at work, the checks
\* that its executor repeats for each record are known to pass.
AnalyzeInv ==
    /\ parse \in ParseTrees /\ raw \in BOOLEAN
    /\ stage = "parsed" => out = "ok" /\ conds = <<>> /\ ~raw
    /\ raw => parse.kind = "update" /\ out = "ok"
    /\ stage = "analysed" /\ out = "ok" /\ parse.kind = "update" =>
          FirstFailure(SetChecks(parse)) = "ok"
    /\ parse.kind = "insert" => out # "abort"
    /\ parse.kind # "insert" =>
          \A i \in DOMAIN conds : WellFormed(parse.tabs, parse.conds[i], conds[i])

\* It holds of a statement that was just parsed.
LEMMA AnalyzeInitially == AnalyzeInit => AnalyzeInv
<1>1. DOMAIN <<>> = {}
  OBVIOUS
<1>2. FALSE \in BOOLEAN /\ "ok" # "abort" /\ "parsed" # "analysed"
  BY Zenon
<1> QED BY Zenon, <1>1, <1>2 DEF AnalyzeInit, AnalyzeInv

\* do_analyze and the conversions of the executors preserve it.
LEMMA AnalyzeStep == AnalyzeInv /\ [AnalyzeNext]_analyze_vars => AnalyzeInv'
<1> SUFFICES ASSUME AnalyzeInv, [AnalyzeNext]_analyze_vars PROVE AnalyzeInv'
  BY Zenon
<1>1. CASE do_analyze
  <2>0. /\ parse' = parse /\ parse \in ParseTrees /\ stage' = "analysed"
        /\ out' = Verdict(parse) /\ raw' = (out' = "ok" /\ parse.kind = "update")
    BY Zenon, <1>1 DEF do_analyze, AnalyzeInv
  <2>1. raw' \in BOOLEAN /\ stage' # "parsed"
    BY Zenon, <2>0
  <2>2. /\ raw' => parse.kind = "update" /\ out' = "ok"
        /\ out' = "ok" /\ parse.kind = "update" => FirstFailure(SetChecks(parse)) = "ok"
    BY Zenon, <2>0, VerdictIs
  <2>3. parse.kind = "insert" => out' # "abort"
    BY Zenon, <2>0, VerdictIs
  <2>4. ASSUME parse.kind # "insert", NEW i \in DOMAIN conds'
        PROVE  WellFormed(parse.tabs, parse.conds[i], conds'[i])
    <3>1. CASE out' = "ok"
      <4>1. conds' = [j \in DOMAIN parse.conds |-> Resolve(parse.tabs, parse.conds[j])]
        BY Zenon, <1>1, <2>4, <3>1 DEF do_analyze
      <4>2. parse.conds \in Seq(Conditions) /\ parse.tabs \in Seq(STRING)
        BY Zenon, <2>0, <2>4, TreeIs
      <4>3. DOMAIN parse.conds = 1..Len(parse.conds)
        BY <4>2
      <4>4. check_clause(parse.tabs, parse.conds) = "ok"
        BY Zenon, <2>0, <2>4, <3>1, VerdictIs
      <4> QED BY Zenon, <2>4, <4>1, <4>2, <4>3, <4>4, CheckClause
    <3>2. CASE out' # "ok"
      <4>1. conds' = <<>>
        BY Zenon, <1>1, <3>2 DEF do_analyze
      <4> QED BY <2>4, <4>1
    <3> QED BY Zenon, <3>1, <3>2
  <2> QED BY Zenon, <2>0, <2>1, <2>2, <2>3, <2>4 DEF AnalyzeInv
<1>2. CASE InsertConvert
  <2> DEFINE cols == get_table(parse.tabs[1])
             a == is_table(parse.tabs[1])
             b == IF Len(parse.vals) = Len(cols) THEN "ok" ELSE "InvalidValueCountError"
             v == [i \in DOMAIN parse.vals |->
                     IF i > Len(cols) THEN "ok"
                     ELSE FirstFailure(<<SameType(cols[i].type, parse.vals[i].type),
                                         init_raw(parse.vals[i], cols[i].len, FALSE)>>)]
  <2>0. /\ UNCHANGED <<parse, conds, raw>> /\ stage' = "converted" /\ parse.kind = "insert"
        /\ parse \in ParseTrees /\ out' = FirstFailure(<<a, b>> \o v)
    BY Zenon, <1>2 DEF InsertConvert, AnalyzeInv
  <2>1. /\ DOMAIN parse.vals = 1..Len(parse.vals) /\ Len(parse.vals) \in Nat
        /\ \A i \in 1..Len(parse.vals) : parse.vals[i] \in Literals
    <3>1. parse.vals \in Seq(Literals)
      BY Zenon, <2>0, TreeIs
    <3> QED BY <3>1
  <2>2. \A i \in 1..Len(parse.vals) : v[i] \in Answers /\ v[i] # "abort"
    <3> SUFFICES ASSUME NEW i \in 1..Len(parse.vals)
                 PROVE  v[i] \in Answers /\ v[i] # "abort"
      BY Zenon
    <3>1. CASE i > Len(cols)
      BY Zenon, <2>1, <3>1 DEF Answers
    <3>2. CASE ~(i > Len(cols))
      <4>1. FitForNumbers(cols[i])
        <5>1. Len(cols) \in Nat /\ \A j \in 1..Len(cols) : FitForNumbers(cols[j])
          BY Zenon, TableIs
        <5> HIDE DEF cols
        <5>2. i \in 1..Len(cols)
          BY <2>1, <3>2, <5>1
        <5> QED BY Zenon, <5>1, <5>2
      <4> QED BY Zenon, <2>1, <3>2, <4>1, ConvertAfterType
    <3> QED BY Zenon, <3>1, <3>2
  <2>3. v \in Checks /\ Len(v) = Len(parse.vals)
    <3>1. v = [i \in 1..Len(parse.vals) |-> v[i]]
      BY Zenon, <2>1
    <3> HIDE DEF v
    <3> QED BY Zenon, <2>1, <2>2, <3>1, ChecksOf
  <2>4. a \in Answers /\ a # "abort" /\ b \in Answers /\ b # "abort"
    BY Zenon, IsTable DEF Answers
  <2> HIDE DEF a, b, v
  <2>5. <<a, b>> \in Checks /\ Len(<<a, b>>) = 2 /\ <<a, b>>[1] = a /\ <<a, b>>[2] = b
    BY Zenon, <2>4, TwoChecks
  <2>6. \A i \in 1..Len(<<a, b>>) : <<a, b>>[i] # "abort"
    <3>1. \A i \in 1..2 : i = 1 \/ i = 2
      OBVIOUS
    <3> QED BY Zenon, <2>4, <2>5, <3>1
  <2>7. \/ out' = "ok"
        \/ \E i \in 1..Len(<<a, b>>) : out' = <<a, b>>[i]
        \/ \E i \in 1..Len(v) : out' = v[i]
    BY Zenon, <2>0, <2>3, <2>5, Together
  <2>8. out' # "abort"
    <3>1. "ok" # "abort"
      BY Zenon
    <3> QED BY Zenon, <2>2, <2>3, <2>6, <2>7, <3>1
  <2>9. stage' # "parsed" /\ ~raw'
    BY Zenon, <2>0 DEF AnalyzeInv
  <2> QED BY Zenon, <2>0, <2>8, <2>9 DEF AnalyzeInv
<1>3. CASE UpdateConvert
  <2>0. /\ UNCHANGED <<parse, stage, conds>> /\ raw' = TRUE /\ parse.kind = "update"
        /\ stage = "analysed" /\ out' = FirstFailure(SetChecks(parse))
    BY Zenon, <1>3 DEF UpdateConvert, SetChecks
  <2>1. stage # "parsed" /\ parse.kind # "insert"
    BY Zenon, <2>0
  <2>2. out' = "ok"
    BY Zenon, <1>3, <2>0 DEF AnalyzeInv, UpdateConvert
  <2>3. parse' \in ParseTrees /\ raw' \in BOOLEAN
    BY Zenon, <2>0 DEF AnalyzeInv
  <2>4. FirstFailure(SetChecks(parse)) = "ok"
    BY Zenon, <2>0, <2>2
  <2> QED BY Zenon, <2>0, <2>1, <2>2, <2>3, <2>4 DEF AnalyzeInv
<1>4. CASE UNCHANGED analyze_vars
  BY Zenon, <1>4 DEF analyze_vars, AnalyzeInv
<1> QED BY Zenon, <1>1, <1>2, <1>3, <1>4 DEF AnalyzeNext

(* The invariant of the analysis holds throughout.                         *)
THEOREM AnalyzeInductive == AnalyzeSpec => []AnalyzeInv
BY AnalyzeInitially, AnalyzeStep, PTL DEF AnalyzeSpec

\* Whatever the catalogue and the statement, check_clause accepts a WHERE clause
\* only if each column in it is the only one of the FROM clause its name can mean
\* (unless it is qualified with a table outside it), both sides have one type, and
\* a string literal fits into its column.
THEOREM AcceptedAreWellFormed == AnalyzeSpec => []AcceptedWellFormed
<1>1. AnalyzeInv => AcceptedWellFormed
  BY Zenon DEF AnalyzeInv, AcceptedWellFormed, WellFormed
<1> QED BY <1>1, AnalyzeInductive, PTL

\* An UPDATE that do_analyze accepted is not refused by UpdateExecutor::Next
\* after some of its records were written.
THEOREM UpdatesAreNotRefused == AnalyzeSpec => []UpdateNotRefused
<1>1. AnalyzeInv => UpdateNotRefused
  BY Zenon DEF AnalyzeInv, UpdateNotRefused
<1> QED BY <1>1, AnalyzeInductive, PTL

\* InsertExecutor never fails the assert of init_raw, for any table and values.
THEOREM InsertsNeverAbort == AnalyzeSpec => []InsertNeverAborts
<1>1. AnalyzeInv => InsertNeverAborts
  BY Zenon DEF AnalyzeInv, InsertNeverAborts
<1> QED BY <1>1, AnalyzeInductive, PTL

-----------------------------------------------------------------------------
(* Execution.  While a statement is at work, rids_ has the records it has  *)
(* still to change, in ascending order.                                    *)

\* The ids on a list, and a list in the order of the scan.
Ids(s) == {s[i] : i \in 1..Len(s)}
Ascending(s) == \A i, j \in 1..Len(s) : i < j => s[i] < s[j]

\* The types of the variables.
Labels == {"idle", "insert", "scan", "read", "apply", "write", "done"}

ExecTyped ==
    /\ DOMAIN records \subseteq Rids /\ records \in [DOMAIN records -> Values]
    /\ stmt \in [Clients -> Requests \cup {NoStatement}]
    /\ pc \in [Clients -> Labels]
    /\ rid_ \in [Clients -> Rids \cup {0}]
    /\ rids_ \in [Clients -> Seq(Rids)]
    /\ rec \in [Clients -> Values \cup {NoRecord}]
    /\ count \in [Clients -> 0..MaxStatements]
    /\ up \in BOOLEAN
    /\ DOMAIN before = Clients /\ \A c \in Clients : DOMAIN before[c] \subseteq Rids
    /\ unserved \in [Clients -> SUBSET Rids]
    /\ alone \in [Clients -> BOOLEAN]

(* What the executors know of the statement at each point, whatever other  *)
(* clients do.                                                             *)
Prepared(c) ==
    /\ pc[c] # "idle" => stmt[c] \in Requests
    /\ pc[c] = "insert" => stmt[c].valid /\ stmt[c].kind = "insert"
    /\ pc[c] \in {"scan", "read", "apply", "write"} =>
          stmt[c].valid /\ stmt[c].kind \in {"delete", "update"}
    /\ pc[c] = "write" =>
          /\ stmt[c].kind = "update" /\ rids_[c] # <<>>
          /\ rec[c] \in Values /\ rec[c][stmt[c].col] = stmt[c].val
    /\ pc[c] \in {"idle", "insert", "done"} => rids_[c] = <<>>
    /\ pc[c] = "idle" => rid_[c] = 0
    /\ Ascending(rids_[c])
    /\ pc[c] = "scan" => \A r \in Ids(rids_[c]) : r <= rid_[c]
    /\ pc[c] = "read" => rid_[c] \in Rids /\ \A r \in Ids(rids_[c]) : r < rid_[c]

(* A selected record that nobody has touched is ahead of the scan, on the  *)
(* list, or has been written without a change.                             *)
Pending(c) ==
    /\ unserved[c] \subseteq DOMAIN records
    /\ pc[c] \in {"idle", "insert"} => unserved[c] = {}
    /\ \A r \in unserved[c] :
          /\ records[r] \in stmt[c].where
          /\ \/ r \in Ids(rids_[c])
             \/ pc[c] = "scan" /\ r > rid_[c]
             \/ pc[c] = "read" /\ r >= rid_[c]
             \/ /\ pc[c] \in {"apply", "write", "done"}
                /\ stmt[c].kind = "update" /\ records[r][stmt[c].col] = stmt[c].val

(* The records that a statement which began with table t has yet to, and   *)
(* already did, reach; what it has made of t so far.                       *)
Chosen(s, t) == {r \in DOMAIN t : t[r] \in s.where}
SetClause(s, v) == [v EXCEPT ![s.col] = s.val]
PartlyDeleted(s, t, left) == [r \in DOMAIN t \ (Chosen(s, t) \ left) |-> t[r]]
PartlyUpdated(s, t, left) ==
    [r \in DOMAIN t |-> IF r \in Chosen(s, t) \ left THEN SetClause(s, t[r]) ELSE t[r]]

(* A statement that has run by itself until now has changed exactly what   *)
(* it collected and no longer lists.                                       *)
ByItself(c) ==
    /\ pc[c] \in {"insert", "scan", "read"} => records = before[c]
    /\ pc[c] = "scan" =>
          Ids(rids_[c]) = {r \in Chosen(stmt[c], before[c]) : r <= rid_[c]}
    /\ pc[c] = "read" =>
          /\ rid_[c] \in DOMAIN before[c]
          /\ Ids(rids_[c]) = {r \in Chosen(stmt[c], before[c]) : r < rid_[c]}
    /\ pc[c] \in {"apply", "write"} =>
          /\ Ids(rids_[c]) \subseteq Chosen(stmt[c], before[c])
          /\ before[c] \in [DOMAIN before[c] -> Values]
          /\ stmt[c].kind = "delete" =>
                records = PartlyDeleted(stmt[c], before[c], Ids(rids_[c]))
          /\ stmt[c].kind = "update" =>
                records = PartlyUpdated(stmt[c], before[c], Ids(rids_[c]))
    /\ pc[c] = "write" =>
          rec[c] = SetClause(stmt[c], before[c][Head(rids_[c])])

\* What StatementExact says of a statement s that began with table t.
Exact(s, t) ==
    /\ ~s.valid => records = t
    /\ s.valid /\ s.kind = "delete" => records = Deleted(s, t)
    /\ s.valid /\ s.kind = "update" => records = Updated(s, t)
    /\ s.valid /\ s.kind = "insert" =>
          \E r \in Rids \ DOMAIN t :
              /\ DOMAIN records = DOMAIN t \cup {r}
              /\ records[r] = s.value
              /\ \A q \in DOMAIN t : records[q] = t[q]

\* The inductive invariant of the executors.
ExecInv ==
    /\ ExecTyped
    /\ \A c \in Clients :
          /\ Prepared(c) /\ Pending(c)
          /\ alone[c] => ByItself(c) /\ (pc[c] = "done" => Exact(stmt[c], before[c]))


(* A statement passes the parser with what its kind needs, and a record    *)
(* with a column set is a record.                                          *)
LEMMA RequestIs ==
  ASSUME NEW s \in Requests
  PROVE  /\ s.valid \in BOOLEAN /\ s.kind \in {"insert", "delete", "update"}
         /\ s.kind = "insert" => s.value \in Values
         /\ s.kind # "insert" => s.where \subseteq Values
         /\ s.kind = "update" => \A v \in Values :
               SetClause(s, v) \in Values /\ SetClause(s, v)[s.col] = s.val
<1>1. /\ s.valid \in BOOLEAN /\ s.kind \in {"insert", "delete", "update"}
      /\ s.kind = "insert" => s.value \in Values
      /\ s.kind # "insert" => s.where \subseteq Values
      /\ s.kind = "update" => s.col \in {"x", "y"}
  BY Zenon, StatementAssumption
<1>2. ASSUME s.kind = "update", NEW v \in Values
      PROVE  SetClause(s, v) \in Values /\ SetClause(s, v)[s.col] = s.val
  <2>1. v \in [x : Nat, y : Nat]
    BY Zenon, StatementAssumption
  <2>2. s.col \in DOMAIN v
    BY Zenon, <1>1, <1>2, <2>1
  <2> QED BY Zenon, <1>2, <2>2, StatementAssumption DEF SetClause
<1> QED BY Zenon, <1>1, <1>2

\* Record ids are positive numbers.
LEMMA RidsAreNumbers == Rids \subseteq Nat \ {0}
BY Zenon, StatementAssumption

\* The empty list.
LEMMA NoIds == Ids(<<>>) = {} /\ Ascending(<<>>)
BY DEF Ids, Ascending

\* rids_.push_back of an id beyond all others keeps the list in order.
LEMMA AppendIds ==
  ASSUME NEW s \in Seq(Rids), NEW r \in Rids
  PROVE  /\ Append(s, r) \in Seq(Rids) /\ Ids(Append(s, r)) = Ids(s) \cup {r}
         /\ Ascending(s) /\ (\A q \in Ids(s) : q < r) => Ascending(Append(s, r))
<1> DEFINE a == Append(s, r)
<1>1. /\ a \in Seq(Rids) /\ Len(a) = Len(s) + 1 /\ Len(s) \in Nat
      /\ a[Len(s) + 1] = r /\ \A i \in 1..Len(s) : a[i] = s[i]
  OBVIOUS
<1> HIDE DEF a
<1>2. Ids(a) = Ids(s) \cup {r}
  BY <1>1 DEF Ids
<1>3. ASSUME Ascending(s), \A q \in Ids(s) : q < r PROVE Ascending(a)
  <2>1. \A i \in 1..Len(s) : s[i] < r
    BY Zenon, <1>3 DEF Ids
  <2> QED BY <1>1, <1>3, <2>1 DEF Ascending
<1> QED BY Zenon, <1>1, <1>2, <1>3 DEF a

\* Without its first element, a list in order has all of the other ids.
LEMMA TailIds ==
  ASSUME NEW s \in Seq(Rids), s # <<>>, Ascending(s)
  PROVE  /\ Head(s) \in Ids(s) /\ Head(s) \in Rids /\ Tail(s) \in Seq(Rids)
         /\ Ids(Tail(s)) = Ids(s) \ {Head(s)} /\ Ascending(Tail(s))
<1> DEFINE t == Tail(s)
<1>1. /\ t \in Seq(Rids) /\ Len(s) \in Nat \ {0} /\ Len(t) = Len(s) - 1
      /\ Head(s) = s[1] /\ \A i \in 1..Len(t) : t[i] = s[i + 1]
  OBVIOUS
<1>2. Head(s) \in Ids(s) /\ Head(s) \in Rids
  BY <1>1 DEF Ids
<1> HIDE DEF t
<1>3. \A i \in 1..Len(t) : t[i] \in Ids(s) /\ t[i] # s[1]
  <2> SUFFICES ASSUME NEW i \in 1..Len(t) PROVE t[i] \in Ids(s) /\ t[i] # s[1]
    BY Zenon
  <2>1. i + 1 \in 1..Len(s) /\ 1 \in 1..Len(s) /\ 1 < i + 1
    BY <1>1
  <2>2. s[1] < s[i + 1]
    BY Zenon, <2>1 DEF Ascending
  <2>3. s[1] \in Nat /\ s[i + 1] \in Nat
    <3>1. s[1] \in Rids /\ s[i + 1] \in Rids
      BY <2>1
    <3> QED BY Zenon, <3>1, RidsAreNumbers
  <2> QED BY <1>1, <2>1, <2>2, <2>3 DEF Ids
<1>4. \A i \in 1..Len(s) : s[i] # s[1] => s[i] \in Ids(t)
  <2> SUFFICES ASSUME NEW i \in 1..Len(s), i # 1 PROVE s[i] \in Ids(t)
    BY Zenon
  <2> DEFINE j == i - 1
  <2>1. j \in 1..Len(t) /\ j + 1 = i
    BY <1>1
  <2> QED BY Zenon, <1>1, <2>1 DEF Ids
<1>5. Ids(t) = Ids(s) \ {Head(s)}
  <2>1. \A r \in Ids(s) : r # s[1] => r \in Ids(t)
    BY Zenon, <1>4 DEF Ids
  <2>2. \A r \in Ids(t) : r \in Ids(s) /\ r # s[1]
    BY Zenon, <1>3 DEF Ids
  <2> QED BY Zenon, <1>1, <2>1, <2>2
<1>6. Ascending(t)
  <2> SUFFICES ASSUME NEW i \in 1..Len(t), NEW j \in 1..Len(t), i < j
               PROVE  t[i] < t[j]
    BY Zenon DEF Ascending
  <2>1. i + 1 \in 1..Len(s) /\ j + 1 \in 1..Len(s) /\ i + 1 < j + 1
    BY <1>1
  <2> QED BY Zenon, <1>1, <2>1 DEF Ascending
<1> QED BY Zenon, <1>1, <1>2, <1>5, <1>6 DEF t

\* The part of the invariant about one client, and whose statement is still alone
\* after a step of client c.
ClientInv(c) ==
    /\ Prepared(c) /\ Pending(c)
    /\ alone[c] => ByItself(c) /\ (pc[c] = "done" => Exact(stmt[c], before[c]))

Moved(c) == alone' = [d \in Clients |-> d = c /\ (alone[c] \/ pc[c] = "idle")]

\* The invariant, client by client.
LEMMA ExecInvIs == ExecInv <=> ExecTyped /\ \A c \in Clients : ClientInv(c)
BY Zenon DEF ExecInv, ClientInv

(* The clients that did not move: what another did to the table is what    *)
(* KeepHistory says of their records.                                      *)
LEMMA Others ==
  ASSUME ExecInv, NEW c \in Clients, Moved(c), NEW d \in Clients, d # c,
         stmt'[d] = stmt[d], pc'[d] = pc[d], rid_'[d] = rid_[d],
         rids_'[d] = rids_[d], rec'[d] = rec[d],
         \/ KeepHistory
         \/ UNCHANGED records /\ unserved'[d] = unserved[d]
  PROVE  ClientInv(d)'
<1>1. ~alone'[d]
  BY Zenon DEF Moved
<1>2. Prepared(d)'
  BY DEF ExecInv, Prepared
<1>3. \A r \in unserved'[d] : r \in unserved[d] /\ r \in DOMAIN records'
                              /\ records'[r] = records[r]
  BY DEF KeepHistory, ExecInv, Pending
<1>4. Pending(d)'
  <2>1. Pending(d)
    BY Zenon DEF ExecInv
  <2> QED BY Zenon, <1>3, <2>1 DEF Pending
<1> QED BY Zenon, <1>1, <1>2, <1>4 DEF ClientInv

(* The bookkeeping of a step of client c.                                  *)
LEMMA MovedTyped ==
  ASSUME ExecTyped, NEW c \in Clients, Moved(c)
  PROVE  /\ alone' \in [Clients -> BOOLEAN]
         /\ alone'[c] <=> alone[c] \/ pc[c] = "idle"
BY Zenon DEF ExecTyped, Moved

\* The history variables keep their types when a client steps.
LEMMA HistoryTyped ==
  ASSUME ExecTyped, KeepHistory
  PROVE  unserved' \in [Clients -> SUBSET Rids] /\ before' = before
BY Zenon DEF ExecTyped, KeepHistory

(* The least id ahead of the scan exists.                                  *)
LEMMA LeastId ==
  ASSUME NEW T, T \subseteq Rids, T # {}
  PROVE  LET m == CHOOSE r \in T : \A q \in T : r <= q
         IN  m \in T /\ \A q \in T : m <= q
BY Zenon, LeastNumber, RidsAreNumbers

\* Each action preserves the invariant; first, a client begins a statement.
LEMMA BeginInv ==
  ASSUME ExecInv, NEW c \in Clients, NEW s \in Requests, Begin(c, s), Moved(c)
  PROVE  ExecInv'
<1>t. ExecTyped /\ ClientInv(c) /\ pc[c] = "idle" /\ rids_[c] = <<>> /\ rid_[c] = 0
  BY Zenon, ExecInvIs DEF Begin, At, ClientInv, Prepared
<1>0. /\ stmt'[c] = s /\ before'[c] = records /\ rids_'[c] = <<>> /\ rid_'[c] = 0
      /\ pc'[c] = IF ~s.valid THEN "done" ELSE IF s.kind = "insert" THEN "insert" ELSE "scan"
      /\ unserved'[c] = IF s.valid /\ s.kind # "insert" THEN Selected(s) ELSE {}
      /\ records' = records
  BY Zenon, <1>t DEF Begin, Goto, ExecTyped
<1>1. ExecTyped'
  <2>1. /\ stmt' \in [Clients -> Requests \cup {NoStatement}]
        /\ pc' \in [Clients -> Labels]
        /\ count' \in [Clients -> 0..MaxStatements]
    BY <1>t, StatementAssumption DEF Begin, Goto, ExecTyped, Labels
  <2>2. /\ DOMAIN before' = Clients /\ \A d \in Clients : DOMAIN before'[d] \subseteq Rids
        /\ unserved' \in [Clients -> SUBSET Rids]
    BY Zenon, <1>t DEF Begin, ExecTyped, Selected
  <2> QED BY Zenon, <1>t, <2>1, <2>2, MovedTyped DEF Begin, ExecTyped
<1>2. Prepared(c)'
  BY Zenon, <1>0, RequestIs, NoIds DEF Prepared
<1>3. Pending(c)'
  <2>1. \A r \in Selected(s) : r \in DOMAIN records /\ records[r] \in s.where /\ r > 0
    BY <1>t, RidsAreNumbers DEF Selected, ExecTyped
  <2> QED BY Zenon, <1>0, <2>1 DEF Pending
<1>4. ByItself(c)'
  <2>1. {r \in Chosen(s, records) : r <= 0} = {}
    BY <1>t, RidsAreNumbers DEF Chosen, ExecTyped
  <2> QED BY Zenon, <1>0, <2>1, NoIds DEF ByItself
<1>5. pc'[c] = "done" => Exact(stmt[c], before[c])'
  BY Zenon, <1>0 DEF Exact
<1>6. ASSUME NEW d \in Clients, d # c PROVE ClientInv(d)'
  BY Zenon, <1>t, <1>6, Others DEF Begin, Goto, ExecTyped
<1>7. ClientInv(c)'
  BY Zenon, <1>2, <1>3, <1>4, <1>5 DEF ClientInv
<1> QED BY Zenon, <1>1, <1>6, <1>7 DEF ExecInv, ClientInv

\* InsertExecutor::Next puts a record at an id that is free.
LEMMA InsertNextInv ==
  ASSUME ExecInv, NEW c \in Clients, InsertNext(c), Moved(c)
  PROVE  ExecInv'
<1>t. /\ ExecTyped /\ ClientInv(c) /\ pc[c] = "insert" /\ rids_[c] = <<>>
      /\ stmt[c] \in Requests /\ stmt[c].valid /\ stmt[c].kind = "insert"
      /\ unserved[c] = {}
  BY Zenon, ExecInvIs DEF InsertNext, At, ClientInv, Prepared, Pending
<1>v. stmt[c].value \in Values
  BY Zenon, <1>t, RequestIs
<1>r. PICK r \in Rids : Insert(r, stmt[c].value)
  BY Zenon DEF InsertNext
<1>0. /\ stmt'[c] = stmt[c] /\ rids_'[c] = <<>> /\ pc'[c] = "done"
      /\ before' = before /\ unserved'[c] = {}
  BY Zenon, <1>t DEF InsertNext, Goto, ExecTyped, KeepHistory
<1>1. ExecTyped'
  <2>1. DOMAIN records' \subseteq Rids /\ records' \in [DOMAIN records' -> Values]
    BY Zenon, <1>t, <1>v, <1>r DEF Insert, ExecTyped
  <2> QED BY Zenon, <1>t, <2>1, MovedTyped, HistoryTyped DEF InsertNext, Goto,
             ExecTyped, Labels
<1>2. Prepared(c)'
  BY Zenon, <1>t, <1>0, NoIds DEF Prepared
<1>3. Pending(c)'
  BY Zenon, <1>0 DEF Pending
<1>4. ByItself(c)'
  BY Zenon, <1>0 DEF ByItself
<1>5. alone'[c] => Exact(stmt[c], before[c])'
  <2> SUFFICES ASSUME alone'[c] PROVE Exact(stmt[c], before[c])'
    BY Zenon
  <2>1. records = before[c]
    BY Zenon, <1>t, MovedTyped DEF ClientInv, ByItself
  <2>2. /\ r \in Rids \ DOMAIN before[c]
        /\ DOMAIN records' = DOMAIN before[c] \cup {r}
        /\ records'[r] = stmt[c].value
        /\ \A q \in DOMAIN before[c] : records'[q] = before[c][q]
    BY Zenon, <1>r, <2>1 DEF Insert
  <2> QED BY Zenon, <1>t, <1>0, <2>2 DEF Exact
<1>6. ASSUME NEW d \in Clients, d # c PROVE ClientInv(d)'
  BY Zenon, <1>t, <1>6, Others DEF InsertNext, Goto, ExecTyped
<1>7. ClientInv(c)'
  BY Zenon, <1>2, <1>3, <1>4, <1>5 DEF ClientInv
<1> QED BY Zenon, <1>1, <1>6, <1>7 DEF ExecInv, ClientInv

\* RmScan::next moves to the next record there is, or ends the scan.
LEMMA FindNextInv ==
  ASSUME ExecInv, NEW c \in Clients, FindNext(c), Moved(c)
  PROVE  ExecInv'
<1> DEFINE ahead == {r \in DOMAIN records : r > rid_[c]}
           m == CHOOSE r \in ahead : \A q \in ahead : r <= q
<1>t. /\ ExecTyped /\ ClientInv(c) /\ pc[c] = "scan" /\ stmt[c] \in Requests
      /\ stmt[c].valid /\ stmt[c].kind \in {"delete", "update"}
  BY Zenon, ExecInvIs DEF FindNext, At, ClientInv, Prepared
<1>n. /\ rid_[c] \in Nat /\ rids_[c] \in Seq(Rids) /\ DOMAIN records \subseteq Nat
      /\ Ids(rids_[c]) \subseteq Nat
  BY <1>t, RidsAreNumbers DEF ExecTyped, Ids
<1>0. /\ stmt'[c] = stmt[c] /\ rids_'[c] = rids_[c] /\ records' = records
      /\ before' = before /\ unserved' = unserved
  BY Zenon, <1>t DEF FindNext, Goto, ExecTyped, TableUnchanged
<1>a. CASE ahead = {}
  <2>0. pc'[c] = "apply" /\ rid_' = rid_
    BY Zenon, <1>t, <1>a DEF FindNext, Goto, ExecTyped
  <2>1. ExecTyped'
    BY Zenon, <1>t, <1>a, MovedTyped DEF FindNext, Goto, ExecTyped, Labels,
       TableUnchanged
  <2>2. Prepared(c)'
    BY Zenon, <1>t, <1>0, <2>0 DEF ClientInv, Prepared
  <2>3. Pending(c)'
    BY Zenon, <1>t, <1>n, <1>0, <1>a, <2>0 DEF ClientInv, Pending
  <2>4. alone'[c] => ByItself(c)'
    <3> SUFFICES ASSUME alone'[c] PROVE ByItself(c)'
      BY Zenon
    <3>1. /\ records = before[c] 
          /\ Ids(rids_[c]) = {r \in Chosen(stmt[c], before[c]) : r <= rid_[c]}
      BY Zenon, <1>t, MovedTyped DEF ClientInv, ByItself
    <3>2. Ids(rids_[c]) = Chosen(stmt[c], before[c])
      BY <1>n, <1>a, <3>1 DEF Chosen
    <3>3. Chosen(stmt[c], before[c]) \ Ids(rids_[c]) = {}
      BY Zenon, <3>2
    <3>4. records = [r \in DOMAIN before[c] |-> before[c][r]]
      BY Zenon, <1>t, <3>1 DEF ExecTyped
    <3>5. /\ records = PartlyDeleted(stmt[c], before[c], Ids(rids_[c]))
          /\ records = PartlyUpdated(stmt[c], before[c], Ids(rids_[c]))
      BY Zenon, <3>3, <3>4 DEF PartlyDeleted, PartlyUpdated
    <3>6. before[c] \in [DOMAIN before[c] -> Values]
      BY Zenon, <1>t, <3>1 DEF ExecTyped
    <3> QED BY Zenon, <1>0, <2>0, <3>2, <3>5, <3>6 DEF ByItself
  <2>5. ASSUME NEW d \in Clients, d # c PROVE ClientInv(d)'
    BY Zenon, <1>t, <1>a, <2>5, Others DEF FindNext, Goto, ExecTyped,
       TableUnchanged
  <2>6. ClientInv(c)'
    BY Zenon, <2>0, <2>2, <2>3, <2>4 DEF ClientInv
  <2> QED BY Zenon, <2>1, <2>5, <2>6 DEF ExecInv, ClientInv
<1>b. CASE ahead # {}
  <2>m. m \in ahead /\ \A q \in ahead : m <= q
    BY Zenon, <1>t, <1>b, LeastId DEF ExecTyped
  <2>0. /\ pc' = [pc EXCEPT ![c] = "read"] /\ pc'[c] = "read"
        /\ rid_' = [rid_ EXCEPT ![c] = m] /\ rid_'[c] = m
    BY Zenon, <1>t, <1>b DEF FindNext, Goto, ExecTyped
  <2> HIDE DEF m
  <2>n. m \in DOMAIN records /\ m \in Rids /\ m \in Nat /\ m > rid_[c]
    BY Zenon, <1>t, <1>n, <2>m DEF ExecTyped
  <2>1. ExecTyped'
    <3>1. pc' \in [Clients -> Labels] /\ rid_' \in [Clients -> Rids \cup {0}]
      BY Zenon, <1>t, <2>0, <2>n DEF ExecTyped, Labels
    <3> QED BY Zenon, <1>t, <3>1, MovedTyped DEF FindNext, ExecTyped,
               TableUnchanged
  <2>2. Prepared(c)'
    <3>1. \A r \in Ids(rids_[c]) : r < m
      BY <1>t, <1>n, <2>n DEF ClientInv, Prepared
    <3> QED BY Zenon, <1>t, <1>0, <2>0, <2>n, <3>1 DEF ClientInv, Prepared
  <2>3. Pending(c)'
    BY Zenon, <1>t, <1>n, <1>0, <2>m, <2>0, <2>n DEF ClientInv, Pending
  <2>4. alone'[c] => ByItself(c)'
    <3> SUFFICES ASSUME alone'[c] PROVE ByItself(c)'
      BY Zenon
    <3>1. /\ records = before[c]
          /\ Ids(rids_[c]) = {r \in Chosen(stmt[c], before[c]) : r <= rid_[c]}
      BY Zenon, <1>t, MovedTyped DEF ClientInv, ByItself
    <3>2. \A r \in DOMAIN before[c] : r <= rid_[c] <=> r < m
      BY <1>n, <2>m, <2>n, <3>1
    <3>3. Ids(rids_[c]) = {r \in Chosen(stmt[c], before[c]) : r < m}
      BY Zenon, <3>1, <3>2 DEF Chosen
    <3> QED BY Zenon, <1>0, <2>0, <2>n, <3>1, <3>3 DEF ByItself
  <2>5. ASSUME NEW d \in Clients, d # c PROVE ClientInv(d)'
    BY Zenon, <1>t, <2>0, <2>5, <1>b, Others DEF FindNext, Goto, ExecTyped,
       TableUnchanged
  <2>6. ClientInv(c)'
    BY Zenon, <2>0, <2>2, <2>3, <2>4 DEF ClientInv
  <2> QED BY Zenon, <2>1, <2>5, <2>6 DEF ExecInv, ClientInv
<1> QED BY Zenon, <1>a, <1>b

\* The candidate is read, and collected when the WHERE clause selects it.
LEMMA ReadCandidateInv ==
  ASSUME ExecInv, NEW c \in Clients, ReadCandidate(c), Moved(c)
  PROVE  ExecInv'
<1> DEFINE r == rid_[c]
           chosen == stmt[c].where = Values \/ records[r] \in stmt[c].where
<1>t. /\ ExecTyped /\ ClientInv(c) /\ pc[c] = "read" /\ stmt[c] \in Requests
      /\ stmt[c].valid /\ stmt[c].kind \in {"delete", "update"}
      /\ r \in Rids /\ \A q \in Ids(rids_[c]) : q < r
  BY Zenon, ExecInvIs DEF ReadCandidate, At, ClientInv, Prepared
<1>n. /\ r \in Nat /\ rids_[c] \in Seq(Rids) /\ DOMAIN records \subseteq Nat
      /\ Ids(rids_[c]) \subseteq Nat
  BY <1>t, RidsAreNumbers DEF ExecTyped, Ids
<1>0. /\ stmt' = stmt /\ records' = records /\ rid_' = rid_ /\ rec' = rec
      /\ count' = count /\ before' = before /\ unserved' = unserved
  BY Zenon DEF ReadCandidate, TableUnchanged
<1>w. stmt[c].where = Values /\ r \in DOMAIN records => records[r] \in stmt[c].where
  BY Zenon, <1>t DEF ExecTyped
<1>a. CASE stmt[c].where = Values \/ r \in DOMAIN records
  <2> DEFINE new == IF chosen THEN Append(rids_[c], r) ELSE rids_[c]
  <2>0. /\ rids_' = [rids_ EXCEPT ![c] = new] /\ pc' = [pc EXCEPT ![c] = "scan"]
        /\ up' = up
    BY Zenon, <1>a DEF ReadCandidate, Goto
  <2>a. /\ Ids(new) = IF chosen THEN Ids(rids_[c]) \cup {r} ELSE Ids(rids_[c])
        /\ new \in Seq(Rids) /\ Ascending(new)
    BY Zenon, <1>t, <1>n, AppendIds DEF ClientInv, Prepared
  <2> HIDE DEF new
  <2>b. rids_'[c] = new /\ pc'[c] = "scan"
    BY Zenon, <1>t, <2>0 DEF ExecTyped
  <2>1. ExecTyped'
    <3>1. pc' \in [Clients -> Labels] /\ rids_' \in [Clients -> Seq(Rids)]
      BY Zenon, <1>t, <2>0, <2>a DEF ExecTyped, Labels
    <3> QED BY Zenon, <1>t, <1>0, <2>0, <3>1, MovedTyped DEF ExecTyped
  <2>2. Prepared(c)'
    <3>1. \A q \in Ids(new) : q <= r
      BY <1>t, <1>n, <2>a
    <3> QED BY Zenon, <1>t, <1>0, <2>b, <2>a, <3>1 DEF Prepared
  <2>3. Pending(c)'
    <3> SUFFICES ASSUME NEW q \in unserved[c]
                 PROVE  /\ q \in DOMAIN records /\ records[q] \in stmt[c].where
                        /\ q \in Ids(new) \/ q > r
      BY Zenon, <1>0, <2>b DEF Pending
    <3>1. /\ q \in DOMAIN records /\ records[q] \in stmt[c].where
          /\ q \in Ids(rids_[c]) \/ q >= r
      BY Zenon, <1>t DEF ClientInv, Pending
    <3>2. q \in Nat
      BY Zenon, <1>n, <3>1
    <3>3. q = r => chosen
      BY Zenon, <3>1
    <3> QED BY <1>n, <2>a, <3>1, <3>2, <3>3
  <2>4. alone'[c] => ByItself(c)'
    <3> SUFFICES ASSUME alone'[c] PROVE ByItself(c)'
      BY Zenon
    <3>1. /\ records = before[c] /\ r \in DOMAIN before[c]
          /\ Ids(rids_[c]) = {q \in Chosen(stmt[c], before[c]) : q < r}
      BY Zenon, <1>t, MovedTyped DEF ClientInv, ByItself
    <3>2. chosen <=> r \in Chosen(stmt[c], before[c])
      BY Zenon, <1>w, <3>1 DEF Chosen
    <3>3. \A q \in Chosen(stmt[c], before[c]) : q <= r <=> q < r \/ q = r
      BY <1>n, <3>1 DEF Chosen
    <3> HIDE DEF chosen
    <3>4. Ids(new) = {q \in Chosen(stmt[c], before[c]) : q <= r}
      BY Zenon, <2>a, <3>1, <3>2, <3>3
    <3> QED BY Zenon, <1>0, <2>b, <3>1, <3>4 DEF ByItself
  <2>5. ASSUME NEW d \in Clients, d # c PROVE ClientInv(d)'
    BY Zenon, <1>t, <1>0, <2>0, <2>5, Others DEF ExecTyped
  <2>6. ClientInv(c)'
    BY Zenon, <2>b, <2>2, <2>3, <2>4 DEF ClientInv
  <2> QED BY Zenon, <2>1, <2>5, <2>6 DEF ExecInv, ClientInv
<1>b. CASE ~(stmt[c].where = Values \/ r \in DOMAIN records)
  <2>0. rids_' = rids_ /\ pc' = pc /\ up' = FALSE
    BY Zenon, <1>b DEF ReadCandidate
  <2>1. ExecTyped'
    BY Zenon, <1>t, <1>0, <2>0, MovedTyped DEF ExecTyped
  <2>2. ClientInv(c)'
    <3>1. alone'[c] => alone[c]
      BY Zenon, <1>t, MovedTyped
    <3> QED BY Zenon, <1>t, <1>0, <2>0, <3>1 DEF ClientInv, Prepared, Pending,
               ByItself, Exact
  <2>3. ASSUME NEW d \in Clients, d # c PROVE ClientInv(d)'
    BY Zenon, <1>0, <2>0, <2>3, Others
  <2> QED BY Zenon, <2>1, <2>2, <2>3 DEF ExecInv, ClientInv
<1> QED BY Zenon, <1>a, <1>b

\* DeleteExecutor::Next removes the first record on the list.
LEMMA DeleteNextInv ==
  ASSUME ExecInv, NEW c \in Clients, DeleteNext(c), Moved(c)
  PROVE  ExecInv'
<1> DEFINE h == Head(rids_[c])
           new == Tail(rids_[c])
<1>t. /\ ExecTyped /\ ClientInv(c) /\ pc[c] = "apply" /\ stmt[c] \in Requests
      /\ stmt[c].valid /\ stmt[c].kind = "delete" /\ rids_[c] # <<>>
      /\ Ascending(rids_[c])
  BY Zenon, ExecInvIs DEF DeleteNext, At, ClientInv, Prepared
<1>0. /\ UNCHANGED <<stmt, pc, rid_, rec, count, up>> /\ KeepHistory
      /\ rids_' = [rids_ EXCEPT ![c] = new] /\ Delete(h)
  BY Zenon DEF DeleteNext
<1>a. /\ h \in Ids(rids_[c]) /\ h \in Rids /\ new \in Seq(Rids)
      /\ Ids(new) = Ids(rids_[c]) \ {h} /\ Ascending(new)
  BY Zenon, <1>t, TailIds DEF ExecTyped
<1>b. rids_'[c] = new
  BY Zenon, <1>t, <1>0 DEF ExecTyped
<1> HIDE DEF h, new
<1>r. records' = [q \in DOMAIN records \ {h} |-> records[q]]
  BY Zenon, <1>0 DEF Delete
<1>1. ExecTyped'
  <2>1. DOMAIN records' \subseteq Rids /\ records' \in [DOMAIN records' -> Values]
    BY Zenon, <1>t, <1>r DEF ExecTyped
  <2>2. rids_' \in [Clients -> Seq(Rids)]
    BY Zenon, <1>t, <1>0, <1>a DEF ExecTyped
  <2> QED BY Zenon, <1>t, <1>0, <2>1, <2>2, MovedTyped, HistoryTyped
             DEF ExecTyped
<1>2. Prepared(c)'
  BY Zenon, <1>t, <1>0, <1>a, <1>b DEF Prepared
<1>3. Pending(c)'
  <2>1. \A q \in unserved'[c] : /\ q \in unserved[c] /\ q \in DOMAIN records'
                                /\ records'[q] = records[q] /\ q # h
    BY Zenon, <1>0, <1>r DEF KeepHistory
  <2>2. \A q \in unserved[c] : records[q] \in stmt[c].where /\ q \in Ids(rids_[c])
    BY Zenon, <1>t DEF ClientInv, Pending
  <2> QED BY Zenon, <1>t, <1>0, <1>a, <1>b, <2>1, <2>2 DEF Pending
<1>4. alone'[c] => ByItself(c)'
  <2> SUFFICES ASSUME alone'[c] PROVE ByItself(c)'
    BY Zenon
  <2> DEFINE C == Chosen(stmt[c], before[c])
  <2>1. /\ Ids(rids_[c]) \subseteq C /\ before[c] \in [DOMAIN before[c] -> Values]
        /\ records = PartlyDeleted(stmt[c], before[c], Ids(rids_[c]))
    BY Zenon, <1>t, MovedTyped DEF ClientInv, ByItself
  <2>2. C \subseteq DOMAIN before[c]
    BY Zenon DEF Chosen
  <2> HIDE DEF C
  <2>3. records = [q \in DOMAIN before[c] \ (C \ Ids(rids_[c])) |-> before[c][q]]
    BY Zenon, <2>1 DEF PartlyDeleted, C
  <2>4. DOMAIN before[c] \ (C \ Ids(new)) = (DOMAIN before[c] \ (C \ Ids(rids_[c]))) \ {h}
    BY Zenon, <1>a, <2>1, <2>2
  <2>5. records' = [q \in DOMAIN before[c] \ (C \ Ids(new)) |-> before[c][q]]
    BY Zenon, <1>r, <2>3, <2>4
  <2>6. records' = PartlyDeleted(stmt[c], before[c], Ids(new))
    BY Zenon, <2>5 DEF PartlyDeleted, C
  <2>7. Ids(new) \subseteq C /\ before' = before
    BY Zenon, <1>0, <1>a, <2>1 DEF KeepHistory
  <2> QED BY Zenon, <1>t, <1>0, <1>b, <2>1, <2>6, <2>7 DEF ByItself, C
<1>5. ASSUME NEW d \in Clients, d # c PROVE ClientInv(d)'
  BY Zenon, <1>t, <1>0, <1>5, Others DEF ExecTyped
<1>6. ClientInv(c)'
  BY Zenon, <1>t, <1>0, <1>2, <1>3, <1>4 DEF ClientInv
<1> QED BY Zenon, <1>1, <1>5, <1>6 DEF ExecInv, ClientInv

\* UpdateExecutor::Next reads the first record on the list and sets the column.
LEMMA UpdateReadInv ==
  ASSUME ExecInv, NEW c \in Clients, UpdateRead(c), Moved(c)
  PROVE  ExecInv'
<1> DEFINE h == Head(rids_[c])
<1>t. /\ ExecTyped /\ ClientInv(c) /\ pc[c] = "apply" /\ stmt[c] \in Requests
      /\ stmt[c].valid /\ stmt[c].kind = "update" /\ rids_[c] # <<>>
      /\ Ascending(rids_[c])
  BY Zenon, ExecInvIs DEF UpdateRead, At, ClientInv, Prepared
<1>0. /\ stmt' = stmt /\ records' = records /\ rid_' = rid_ /\ rids_' = rids_
      /\ count' = count /\ before' = before /\ unserved' = unserved
  BY Zenon DEF UpdateRead, TableUnchanged
<1>h. h \in Ids(rids_[c])
  BY Zenon, <1>t, TailIds DEF ExecTyped
<1>a. CASE h \in DOMAIN records
  <2> DEFINE v == SetClause(stmt[c], records[h])
  <2>0. /\ rec' = [rec EXCEPT ![c] = v] /\ pc' = [pc EXCEPT ![c] = "write"]
        /\ up' = up
    BY Zenon, <1>a DEF UpdateRead, Goto, SetClause
  <2>v. v \in Values /\ v[stmt[c].col] = stmt[c].val
    BY Zenon, <1>t, <1>a, RequestIs DEF ExecTyped
  <2>b. rec'[c] = v /\ pc'[c] = "write"
    BY Zenon, <1>t, <2>0 DEF ExecTyped
  <2>1. ExecTyped'
    <3> HIDE DEF v
    <3>1. pc' \in [Clients -> Labels] /\ rec' \in [Clients -> Values \cup {NoRecord}]
      BY Zenon, <1>t, <2>0, <2>v DEF ExecTyped, Labels
    <3> QED BY Zenon, <1>t, <1>0, <2>0, <3>1, MovedTyped DEF ExecTyped
  <2>2. Prepared(c)'
    <3> HIDE DEF v
    <3> QED BY Zenon, <1>t, <1>0, <2>b, <2>v DEF Prepared
  <2>3. Pending(c)'
    BY Zenon, <1>t, <1>0, <2>b DEF ClientInv, Pending
  <2>4. alone'[c] => ByItself(c)'
    <3> SUFFICES ASSUME alone'[c] PROVE ByItself(c)'
      BY Zenon
    <3>1. ByItself(c)
      BY Zenon, <1>t, MovedTyped DEF ClientInv
    <3>2. /\ Ids(rids_[c]) \subseteq Chosen(stmt[c], before[c])
          /\ records = PartlyUpdated(stmt[c], before[c], Ids(rids_[c]))
      BY Zenon, <1>t, <3>1 DEF ByItself
    <3>3. records[h] = before[c][h]
      BY Zenon, <1>h, <3>2 DEF PartlyUpdated, Chosen
    <3>4. v = SetClause(stmt[c], before[c][h])
      BY Zenon, <3>3
    <3> HIDE DEF v, h
    <3> QED BY Zenon, <1>t, <1>0, <2>b, <3>1, <3>4 DEF ByItself, h
  <2>5. ASSUME NEW d \in Clients, d # c PROVE ClientInv(d)'
    BY Zenon, <1>t, <1>0, <2>0, <2>5, Others DEF ExecTyped
  <2>6. ClientInv(c)'
    BY Zenon, <2>b, <2>2, <2>3, <2>4 DEF ClientInv
  <2> QED BY Zenon, <2>1, <2>5, <2>6 DEF ExecInv, ClientInv
<1>b. CASE h \notin DOMAIN records
  <2>0. rec' = rec /\ pc' = pc /\ up' = FALSE
    BY Zenon, <1>b DEF UpdateRead
  <2>1. ExecTyped'
    BY Zenon, <1>t, <1>0, <2>0, MovedTyped DEF ExecTyped
  <2>2. ClientInv(c)'
    <3>1. alone'[c] => alone[c]
      BY Zenon, <1>t, MovedTyped
    <3> QED BY Zenon, <1>t, <1>0, <2>0, <3>1 DEF ClientInv, Prepared, Pending,
               ByItself, Exact
  <2>3. ASSUME NEW d \in Clients, d # c PROVE ClientInv(d)'
    BY Zenon, <1>0, <2>0, <2>3, Others
  <2> QED BY Zenon, <2>1, <2>2, <2>3 DEF ExecInv, ClientInv
<1> QED BY Zenon, <1>a, <1>b

\* It writes the record it prepared.
LEMMA UpdateWriteInv ==
  ASSUME ExecInv, NEW c \in Clients, UpdateWrite(c), Moved(c)
  PROVE  ExecInv'
<1> DEFINE h == Head(rids_[c])
           new == Tail(rids_[c])
<1>t. /\ ExecTyped /\ ClientInv(c) /\ pc[c] = "write" /\ stmt[c] \in Requests
      /\ stmt[c].valid /\ stmt[c].kind = "update" /\ rids_[c] # <<>>
      /\ Ascending(rids_[c])
      /\ rec[c] \in Values /\ rec[c][stmt[c].col] = stmt[c].val
  BY Zenon, ExecInvIs DEF UpdateWrite, At, ClientInv, Prepared
<1>0. /\ UNCHANGED <<stmt, rid_, rec, count, up>> /\ KeepHistory
      /\ pc' = [pc EXCEPT ![c] = "apply"]
      /\ rids_' = [rids_ EXCEPT ![c] = new] /\ Update(h, rec[c])
  BY Zenon DEF UpdateWrite, Goto
<1>a. /\ h \in Ids(rids_[c]) /\ h \in Rids /\ new \in Seq(Rids)
      /\ Ids(new) = Ids(rids_[c]) \ {h} /\ Ascending(new)
  BY Zenon, <1>t, TailIds DEF ExecTyped
<1>b. rids_'[c] = new /\ pc'[c] = "apply"
  BY Zenon, <1>t, <1>0 DEF ExecTyped
<1>i. alone'[c] => rec[c] = SetClause(stmt[c], before[c][h])
  BY Zenon, <1>t, MovedTyped DEF ClientInv, ByItself
<1> HIDE DEF h, new
<1>r. records' = [q \in DOMAIN records |-> IF q = h THEN rec[c] ELSE records[q]]
  BY Zenon, <1>0 DEF Update
<1>1. ExecTyped'
  <2>1. DOMAIN records' \subseteq Rids /\ records' \in [DOMAIN records' -> Values]
    BY Zenon, <1>t, <1>r DEF ExecTyped
  <2>2. rids_' \in [Clients -> Seq(Rids)] /\ pc' \in [Clients -> Labels]
    BY Zenon, <1>t, <1>0, <1>a DEF ExecTyped, Labels
  <2> QED BY Zenon, <1>t, <1>0, <2>1, <2>2, MovedTyped, HistoryTyped
             DEF ExecTyped
<1>2. Prepared(c)'
  BY Zenon, <1>t, <1>0, <1>a, <1>b DEF Prepared
<1>3. Pending(c)'
  <2>1. \A q \in unserved'[c] : /\ q \in unserved[c] /\ q \in DOMAIN records'
                                /\ records'[q] = records[q]
    BY Zenon, <1>t, <1>0 DEF KeepHistory
  <2>2. \A q \in unserved[c] :
           /\ records[q] \in stmt[c].where
           /\ q \in Ids(rids_[c]) \/ records[q][stmt[c].col] = stmt[c].val
    BY Zenon, <1>t DEF ClientInv, Pending
  <2>3. h \in DOMAIN records' => records'[h] = rec[c]
    BY Zenon, <1>r
  <2>4. \A q \in unserved'[c] :
           /\ q \in DOMAIN records' /\ records'[q] \in stmt[c].where
           /\ q \in Ids(new) \/ records'[q][stmt[c].col] = stmt[c].val
    BY Zenon, <1>t, <1>a, <2>1, <2>2, <2>3
  <2> QED BY Zenon, <1>t, <1>0, <1>b, <2>4 DEF Pending
<1>4. alone'[c] => ByItself(c)'
  <2> SUFFICES ASSUME alone'[c] PROVE ByItself(c)'
    BY Zenon
  <2> DEFINE C == Chosen(stmt[c], before[c])
  <2>1. /\ Ids(rids_[c]) \subseteq C /\ before[c] \in [DOMAIN before[c] -> Values]
        /\ records = PartlyUpdated(stmt[c], before[c], Ids(rids_[c]))
    BY Zenon, <1>t, MovedTyped DEF ClientInv, ByItself
  <2>2. rec[c] = SetClause(stmt[c], before[c][h])
    BY Zenon, <1>i
  <2>3. C \subseteq DOMAIN before[c]
    BY Zenon DEF Chosen
  <2> HIDE DEF C
  <2>4. records = [q \in DOMAIN before[c] |-> IF q \in C \ Ids(rids_[c])
                     THEN SetClause(stmt[c], before[c][q]) ELSE before[c][q]]
    BY Zenon, <2>1 DEF PartlyUpdated, C
  <2>5. \A q \in DOMAIN before[c] : q \in C \ Ids(new) <=> q \in C \ Ids(rids_[c]) \/ q = h
    BY Zenon, <1>a, <2>1
  <2>6. records' = [q \in DOMAIN before[c] |-> IF q \in C \ Ids(new)
                      THEN SetClause(stmt[c], before[c][q]) ELSE before[c][q]]
    BY Zenon, <1>r, <2>2, <2>4, <2>5
  <2>7. records' = PartlyUpdated(stmt[c], before[c], Ids(new))
    BY Zenon, <2>6 DEF PartlyUpdated, C
  <2>8. Ids(new) \subseteq C /\ before' = before
    BY Zenon, <1>0, <1>a, <2>1 DEF KeepHistory
  <2> QED BY Zenon, <1>t, <1>0, <1>b, <2>1, <2>7, <2>8 DEF ByItself, C
<1>5. ASSUME NEW d \in Clients, d # c PROVE ClientInv(d)'
  BY Zenon, <1>t, <1>0, <1>5, Others DEF ExecTyped
<1>6. ClientInv(c)'
  BY Zenon, <1>b, <1>2, <1>3, <1>4 DEF ClientInv
<1> QED BY Zenon, <1>1, <1>5, <1>6 DEF ExecInv, ClientInv

\* The list is empty, and the statement has ended.
LEMMA AppliedInv ==
  ASSUME ExecInv, NEW c \in Clients, Applied(c), Moved(c)
  PROVE  ExecInv'
<1>t. /\ ExecTyped /\ ClientInv(c) /\ pc[c] = "apply" /\ stmt[c] \in Requests
      /\ stmt[c].valid /\ stmt[c].kind \in {"delete", "update"} /\ rids_[c] = <<>>
  BY Zenon, ExecInvIs DEF Applied, At, ClientInv, Prepared
<1>0. /\ UNCHANGED <<records, before, unserved, stmt, rid_, rids_, rec, count, up>>
      /\ pc' = [pc EXCEPT ![c] = "done"] /\ pc'[c] = "done"
  BY Zenon, <1>t DEF Applied, Goto, TableUnchanged, ExecTyped
<1>1. ExecTyped'
  <2>1. pc' \in [Clients -> Labels]
    BY Zenon, <1>t, <1>0 DEF ExecTyped, Labels
  <2> QED BY Zenon, <1>t, <1>0, <2>1, MovedTyped DEF ExecTyped
<1>2. Prepared(c)'
  BY Zenon, <1>t, <1>0 DEF ClientInv, Prepared
<1>3. Pending(c)'
  BY Zenon, <1>t, <1>0, NoIds DEF ClientInv, Pending
<1>4. ByItself(c)'
  BY Zenon, <1>0 DEF ByItself
<1>5. alone'[c] => Exact(stmt[c], before[c])'
  <2> SUFFICES ASSUME alone'[c] PROVE Exact(stmt[c], before[c])'
    BY Zenon
  <2>1. /\ stmt[c].kind = "delete" => records = PartlyDeleted(stmt[c], before[c], {})
        /\ stmt[c].kind = "update" => records = PartlyUpdated(stmt[c], before[c], {})
    BY Zenon, <1>t, MovedTyped, NoIds DEF ClientInv, ByItself
  <2>2. PartlyDeleted(stmt[c], before[c], {}) = Deleted(stmt[c], before[c])
    <3>1. DOMAIN before[c] \ (Chosen(stmt[c], before[c]) \ {})
            = {r \in DOMAIN before[c] : before[c][r] \notin stmt[c].where}
      BY Zenon DEF Chosen
    <3> QED BY Zenon, <3>1 DEF PartlyDeleted, Deleted
  <2>3. PartlyUpdated(stmt[c], before[c], {}) = Updated(stmt[c], before[c])
    BY Zenon DEF PartlyUpdated, Updated, Chosen, SetClause
  <2> QED BY Zenon, <1>t, <1>0, <2>1, <2>2, <2>3 DEF Exact
<1>6. ASSUME NEW d \in Clients, d # c PROVE ClientInv(d)'
  BY Zenon, <1>t, <1>0, <1>6, Others DEF ExecTyped
<1>7. ClientInv(c)'
  BY Zenon, <1>2, <1>3, <1>4, <1>5 DEF ClientInv
<1> QED BY Zenon, <1>1, <1>6, <1>7 DEF ExecInv, ClientInv

\* The client has its answer.
LEMMA FinishInv ==
  ASSUME ExecInv, NEW c \in Clients, Finish(c), Moved(c)
  PROVE  ExecInv'
<1>t. ExecTyped /\ ClientInv(c) /\ pc[c] = "done" /\ rids_[c] = <<>>
  BY Zenon, ExecInvIs DEF Finish, At, ClientInv, Prepared
<1>0. /\ pc'[c] = "idle" /\ rids_'[c] = <<>> /\ rid_'[c] = 0 /\ unserved'[c] = {}
      /\ UNCHANGED records
  BY Zenon, <1>t DEF Finish, Goto, ExecTyped
<1>1. ExecTyped'
  <2>1. /\ stmt' \in [Clients -> Requests \cup {NoStatement}]
        /\ pc' \in [Clients -> Labels] /\ rid_' \in [Clients -> Rids \cup {0}]
        /\ rec' \in [Clients -> Values \cup {NoRecord}]
    BY Zenon, <1>t DEF Finish, Goto, ExecTyped, Labels
  <2>2. /\ DOMAIN before' = Clients /\ \A d \in Clients : DOMAIN before'[d] \subseteq Rids
        /\ unserved' \in [Clients -> SUBSET Rids]
    BY Zenon, <1>t DEF Finish, ExecTyped
  <2> QED BY Zenon, <1>t, <2>1, <2>2, MovedTyped DEF Finish, ExecTyped
<1>2. Prepared(c)' /\ Pending(c)' /\ ByItself(c)'
  BY Zenon, <1>0, NoIds DEF Prepared, Pending, ByItself
<1>3. ASSUME NEW d \in Clients, d # c PROVE ClientInv(d)'
  BY Zenon, <1>t, <1>3, Others DEF Finish, Goto, ExecTyped
<1>4. ClientInv(c)'
  BY Zenon, <1>0, <1>2 DEF ClientInv
<1> QED BY Zenon, <1>1, <1>3, <1>4 DEF ExecInv, ClientInv

\* The invariant holds when the server starts.
LEMMA ExecInit == StatementInit => ExecInv
<1> SUFFICES ASSUME StatementInit PROVE ExecInv
  BY Zenon
<1>1. ExecTyped
  BY StatementAssumption DEF StatementInit, ExecTyped, Labels
<1>2. ASSUME NEW c \in Clients PROVE ClientInv(c)
  BY Zenon, NoIds DEF StatementInit, ClientInv, Prepared, Pending
<1> QED BY Zenon, <1>1, <1>2, ExecInvIs

\* Every step preserves it.
LEMMA ExecStep == ExecInv /\ [StatementNext]_<<vars, exec_vars>> => ExecInv'
<1> SUFFICES ASSUME ExecInv, [StatementNext]_<<vars, exec_vars>> PROVE ExecInv'
  BY Zenon
<1>1. ASSUME NEW c \in Clients, ClientStep(c), Moved(c) PROVE ExecInv'
  BY Zenon, <1>1, BeginInv, InsertNextInv, FindNextInv,
     ReadCandidateInv, DeleteNextInv,
     UpdateReadInv, UpdateWriteInv, AppliedInv, FinishInv DEF ClientStep
<1>2. CASE UNCHANGED <<vars, exec_vars>>
  <2>1. UNCHANGED <<records, stmt, pc, rid_, rids_, rec, count, up, before, unserved, alone>>
    BY Zenon, <1>2 DEF vars, exec_vars
  <2>2. ExecTyped'
    BY Zenon, <2>1 DEF ExecInv, ExecTyped
  <2>3. ASSUME NEW c \in Clients PROVE ClientInv(c)'
    <3>1. Prepared(c) /\ Pending(c)
          /\ (alone[c] => ByItself(c) /\ (pc[c] = "done" => Exact(stmt[c], before[c])))
      BY Zenon DEF ExecInv
    <3>2. Prepared(c)' /\ Pending(c)'
      BY Zenon, <2>1, <3>1 DEF Prepared, Pending
    <3>3. ByItself(c)' = ByItself(c) /\ Exact(stmt[c], before[c])' = Exact(stmt[c], before[c])
      BY Zenon, <2>1 DEF ByItself, Exact
    <3> QED BY Zenon, <2>1, <3>1, <3>2, <3>3 DEF ClientInv
  <2> QED BY Zenon, <2>2, <2>3 DEF ExecInv, ClientInv
<1> QED BY Zenon, <1>1, <1>2 DEF StatementNext, Moved

\* What the executors of a client have collected and changed is what its statement
\* selects, whatever the other clients do between its steps.
THEOREM ExecInductive == StatementSpec => []ExecInv
BY ExecInit, ExecStep, PTL DEF StatementSpec

\* INSERT, UPDATE and DELETE that run by themselves do what SQL says, for every
\* table, WHERE clause and SET clause: each record the clause selected when the
\* statement began, and no other.
THEOREM StatementsAreExact == StatementSpec => []StatementExact
<1>1. ExecInv => StatementExact
  <2> SUFFICES ASSUME ExecInv, NEW c \in Clients, pc[c] = "done", alone[c]
               PROVE  Exact(stmt[c], before[c]) /\ stmt[c] \in Requests =>
                 CASE ~stmt[c].valid -> records = before[c]
                   [] stmt[c].valid /\ stmt[c].kind = "delete" -> records = Deleted(stmt[c], before[c])
                   [] stmt[c].valid /\ stmt[c].kind = "update" -> records = Updated(stmt[c], before[c])
                   [] stmt[c].valid /\ stmt[c].kind = "insert" ->
                         \E r \in Rids \ DOMAIN before[c] :
                             /\ DOMAIN records = DOMAIN before[c] \cup {r}
                             /\ records[r] = stmt[c].value
                             /\ \A q \in DOMAIN before[c] : records[q] = before[c][q]
    BY Zenon DEF StatementExact, ExecInv, Prepared
  <2> QED BY Zenon, RequestIs DEF Exact
<1> QED BY <1>1, ExecInductive, PTL

\* Whatever other clients insert, update and delete meanwhile, a finished DELETE
\* or UPDATE has reached every record it selects that nobody else touched.
THEOREM SelectedAreServed == StatementSpec => []LastingServed
<1>1. ExecInv => LastingServed
  <2> SUFFICES ASSUME ExecInv, NEW c \in Clients, pc[c] = "done", NEW r \in unserved[c]
               PROVE  stmt[c].kind = "update" /\ records[r][stmt[c].col] = stmt[c].val
    BY Zenon DEF LastingServed
  <2>1. Prepared(c) /\ Pending(c)
    BY Zenon DEF ExecInv
  <2> QED BY Zenon, <2>1, NoIds DEF Prepared, Pending
<1> QED BY <1>1, ExecInductive, PTL
=============================================================================
