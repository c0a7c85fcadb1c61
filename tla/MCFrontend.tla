------------------------------ MODULE MCFrontend ------------------------------
(***************************************************************************)
(* Values for the constants of Frontend that a cfg cannot write: the       *)
(* inputs.  Some of them are printed from trees, and the property          *)
(* ReadsBack says that the parser reads those trees.                       *)
(***************************************************************************)
EXTENDS Frontend, FiniteSets, TLC

ASCII == {"=", "<", "+", "-", "*", "(", ")", ",", ";", "|"}
InHalves == ("1" :> 2) @@ ("5.5" :> 11) @@ ("0" :> 0) @@ ("101" :> 202)

-----------------------------------------------------------------------------
\* A tree as its dump would have it: the kind of a node, the words it keeps, the
\* precedence of a prototype.
Tree(k, words, kids) == [kind |-> k, words |-> words, prec |-> 0, kids |-> kids]
NoTree == Tree("none", <<>>, <<>>)

\* An expression: a tree, the tokens it is printed as, how tight it binds, and whether it
\* ends in an if, for or var, which would take an operator behind it.
Tightest == 1000
Expr(k, words, kids, toks, open) ==
    [tree |-> Tree(k, words, [i \in DOMAIN kids |-> kids[i].tree]), toks |-> toks,
     tight |-> Tightest, open |-> open]
Absent == [tree |-> NoTree, toks |-> <<>>, tight |-> Tightest, open |-> FALSE]

InParens(e) == [e EXCEPT !.toks = <<"(">> \o @ \o <<")">>, !.tight = Tightest, !.open = FALSE]
ParensIf(needed, e) == IF needed THEN InParens(e) ELSE e

Num(n) == Expr("number", <<n>>, <<>>, <<n>>, FALSE)
Ref(v) == Expr("variable", <<v>>, <<>>, <<v>>, FALSE)

Prefixed(op, e) ==
    LET a == ParensIf(e.tight < Tightest, e)
    IN  Expr("unary", <<op>>, <<a>>, <<op>> \o a.toks, a.open)

\* An operation with the precedences P; the destination of an assignment is a variable.
Operation(P, op, a, b) ==
    LET left  == ParensIf(a.open \/ a.tight < P[op], a)
        right == ParensIf(b.tight <= P[op], b)
        toks  == left.toks \o <<op>> \o right.toks
    IN  [(IF op = "=" THEN Expr("assign", a.tree.words, <<right>>, toks, right.open)
                      ELSE Expr("binary", <<op>>, <<left, right>>, toks, right.open))
            EXCEPT !.tight = P[op]]
Operations(P, A, B) ==
    UNION {{Operation(P, op, a, b) : a \in {c \in A : op = "=" => c.tree.kind = "variable"}, b \in B} :
           op \in DOMAIN P}

Call0 == Expr("call", <<"x">>, <<>>, <<"x", "(", ")">>, FALSE)
Call1(a) == Expr("call", <<"x">>, <<a>>, <<"x", "(">> \o a.toks \o <<")">>, FALSE)
Call2(a, b) ==
    Expr("call", <<"x">>, <<a, b>>, <<"x", "(">> \o a.toks \o <<",">> \o b.toks \o <<")">>, FALSE)
IfElse(a, b, c) ==
    Expr("if", <<>>, <<a, b, c>>,
         <<"if">> \o a.toks \o <<"then">> \o b.toks \o <<"else">> \o c.toks, TRUE)
Prefix(word, e) == IF e = Absent THEN <<>> ELSE <<word>> \o e.toks
ForIn(a, b, step, c) ==
    Expr("for", <<"x">>, <<a, b, step, c>>,
         <<"for", "x", "=">> \o a.toks \o <<",">> \o b.toks \o Prefix(",", step) \o <<"in">> \o c.toks, TRUE)
Var1(a, b) == Expr("var", <<"y">>, <<a, b>>, <<"var", "y">> \o Prefix("=", a) \o <<"in">> \o b.toks, TRUE)
Var2(a, b, c) ==
    Expr("var", <<"y", "x">>, <<a, b, c>>,
         <<"var", "y">> \o Prefix("=", a) \o <<",", "x">> \o Prefix("=", b) \o <<"in">> \o c.toks, TRUE)

\* Every construct with parts from A and B, each part that may be missing there or not.
Constructs(A, B) ==
    {Prefixed(op, a) : op \in {"-", "|"}, a \in A}
    \cup {InParens(a) : a \in A}
    \cup {Call0} \cup {Call1(a) : a \in A} \cup {Call2(a, b) : a \in A, b \in B}
    \cup {IfElse(a, b, b) : a \in A, b \in B} \cup {IfElse(b, a, b) : a \in A, b \in B}
    \cup {IfElse(b, b, a) : a \in A, b \in B}
    \cup {ForIn(a, b, s, b) : a \in A, b \in B, s \in B \cup {Absent}}
    \cup {ForIn(b, a, s, b) : a \in A, b \in B, s \in B \cup {Absent}}
    \cup {ForIn(b, b, a, b) : a \in A, b \in B} \cup {ForIn(b, b, Absent, a) : a \in A, b \in B}
    \cup {Var1(a, b) : a \in A \cup {Absent}, b \in B} \cup {Var1(b, a) : a \in A, b \in B}
    \cup {Var2(a, b, c) : a, b \in B \cup {Absent}, c \in A} \cup {Var2(a, b, b) : a \in A, b \in B}

\* Three levels: names and numbers; one construct of each kind with them; and each kind
\* with those as parts.  A part is in parentheses only where it has to be, or everywhere.
Precedences == "=" :> 2 @@ "<" :> 10 @@ "+" :> 20 @@ "*" :> 40
Leaves == {Ref("x"), Num("1")}
Few(P) == {Ref("x"), Prefixed("-", Ref("x")), Prefixed("|", IfElse(Ref("x"), Num("1"), Ref("x"))), Call0,
           IfElse(Ref("x"), Num("1"), Ref("x")), ForIn(Num("1"), Ref("x"), Absent, Ref("x")),
           Var1(Num("1"), Ref("y"))} \cup {Operation(P, op, Ref("x"), Num("1")) : op \in DOMAIN P}
Simple(P) == {Ref("x")} \cup {Operation(P, op, Ref("x"), Num("1")) : op \in DOMAIN P}
Second(P) == Few(P) \cup {InParens(e) : e \in Simple(P)}
Expressions ==
    Leaves \cup Constructs(Leaves, {Ref("x")}) \cup Constructs(Second(Precedences), {Ref("x")})
    \cup Operations(Precedences, Second(Precedences), Second(Precedences))

\* A construct that is read behind others, which begins at a certain token.
Sample(before, e) == [text |-> before \o e.toks, at |-> Len(before) + 1, tree |-> e.tree]
TopLevelTree(e) == [e EXCEPT !.tree = Tree("function", <<>>, <<Tree("anonproto", <<>>, <<>>), @>>)]
Plain == {Sample(<<>>, TopLevelTree(e)) : e \in Expressions}

\* Prototypes, with the word in front of them and a body, or without one.
Proto(k, words, prec, toks) ==
    [tree |-> [Tree(k, words, <<>>) EXCEPT !.prec = prec], toks |-> toks]
TwoNames == <<"(", "x", "y", ")">>
Prototypes == {
    Proto("proto", <<"x">>, 30, <<"x", "(", ")">>),
    Proto("proto", <<"x", "x", "y">>, 30, <<"x">> \o TwoNames),
    Proto("unaryproto", <<"-", "x">>, 30, <<"unary", "-", "(", "x", ")">>),
    Proto("binaryproto", <<"|", "x", "y">>, 30, <<"binary", "|">> \o TwoNames),
    Proto("binaryproto", <<"=", "x", "y">>, 1, <<"binary", "=", "1">> \o TwoNames),
    Proto("binaryproto", <<"|", "x", "y">>, 5, <<"binary", "|", "5.5">> \o TwoNames)}
Externs == {Sample(<<>>, [p EXCEPT !.toks = <<"extern">> \o @]) : p \in Prototypes}
WithBody(p, e) ==
    [tree |-> Tree("function", <<>>, <<p.tree, e.tree>>), toks |-> <<"def">> \o p.toks \o e.toks]
Functions == {Sample(<<>>, WithBody(p, e)) : p \in Prototypes, e \in Few(Precedences)}

\* Operations behind definitions of an operator, with the precedences these give.
Define(o, n, body) == <<"def", "binary", o>> \o n \o <<"(", "x", "y", ")">> \o body
Defined == {
    [toks |-> Define("|", <<>>, <<"x", ";">>),          table |-> "|" :> 30 @@ Precedences],
    [toks |-> Define("|", <<"5.5">>, <<"|", "y", ";">>), table |-> "|" :> 5 @@ Precedences],
    [toks |-> Define("|", <<"1">>, <<"x", ";">>),       table |-> "|" :> 1 @@ Precedences],
    [toks |-> Define("+", <<"1">>, <<"x", "+", "y", ";">>), table |-> "+" :> 1 @@ Precedences],
    [toks |-> Define("*", <<"5.5">>, <<"x", ";">>),     table |-> "*" :> 5 @@ Precedences],
    [toks |-> Define("|", <<"1">>, <<"x", ";">>) \o Define("|", <<>>, <<"x", "|", "y", ";">>),
                                                        table |-> "|" :> 30 @@ Precedences]}
BehindDefinitions == UNION {
    {Sample(d.toks, TopLevelTree(e)) : e \in Operations(d.table, Simple(d.table), Simple(d.table))} : d \in Defined}

Samples == Plain \cup Externs \cup Functions \cup BehindDefinitions
Printed == {s.text : s \in Samples}
Beginnings == {<<s.text, s.at>> : s \in Samples}

\* What is printed says which tree it is of.
ASSUME UnambiguousAssumption == Cardinality(Printed) = Cardinality(Samples)

\* The tree of a node that the parser has built.
Shape[i \in 0..Len(ast)] ==
    IF i = 0 THEN NoTree
    ELSE LET n == ast[i]
             names == [k \in DOMAIN n.names |-> Tok(n.names[k])]
         IN  [kind  |-> n.kind,
              words |-> CASE n.kind \in {"number", "unary", "binary"} -> <<Tok(n.at)>>
                          [] n.kind = "proto" -> <<Tok(n.at)>> \o names
                          [] n.kind \in {"unaryproto", "binaryproto"} -> <<Tok(n.at + 1)>> \o names
                          [] OTHER -> names,
              prec  |-> n.prec,
              kids  |-> [k \in DOMAIN n.kids |-> Shape[n.kids[k]]]]

\* A construct that is printed from a tree is read as that tree, behind any definitions
\* of operators that were generated: whatever the nesting, the parentheses that are left
\* out are not needed, and operators bind as their last definitions ask.
DefinitionsBefore(p) == {d \in 1..p - 1 : text[d] = "def"}
ReadsBack == Parsed /\ text \in Printed /\ DefinitionsBefore(start) \subseteq defined =>
    /\ ret # 0
    /\ <<text, start>> \in Beginnings => [text |-> text, at |-> start, tree |-> Shape[ret]] \in Samples

-----------------------------------------------------------------------------
\* Near misses: one token of a sentence dropped, replaced, or put in.
Examples == {
    <<"def", "x", "(", "y", ")", "y">>,
    <<"extern", "x", "(", "y", "y", ")">>,
    <<"def", "unary", "-", "(", "x", ")", "x">>,
    <<"def", "binary", "|", "5.5", "(", "x", "y", ")", "x">>,
    <<"for", "x", "=", "1", ",", "x", "<", "y", ",", "1", "in", "x">>,
    <<"var", "x", "=", "1", ",", "y", "in", "x">>,
    <<"if", "x", "then", "y", "else", "1">>,
    <<"x", "(", "1", ",", "-", "y", ")">>}
Alphabet == {"x", "1", "101", "=", "+", "(", ")", ",", ";", "byte"} \cup Keyword
Dropped(s)  == {SubSeq(s, 1, i - 1) \o SubSeq(s, i + 1, Len(s)) : i \in DOMAIN s}
Replaced(s) == {[s EXCEPT ![i] = t] : i \in DOMAIN s, t \in Alphabet}
Inserted(s) == {SubSeq(s, 1, i) \o <<t>> \o SubSeq(s, i + 1, Len(s)) : i \in 0..Len(s), t \in Alphabet}
Edited == UNION {{s} \cup Dropped(s) \cup Replaced(s) \cup Inserted(s) : s \in Examples}

\* Followed by nothing, or by a definition and an extern.
Followed == {s \o e : s \in Edited,
                      e \in {<<>>, <<"def", "x", "(", ")", "1", "extern", "x", "(", ")">>}}

\* Expressions of three operands, and of four plain ones.
Operators == {"=", "<", "+", "-", "*", "|"}
Operands == {<<"x">>, <<"-", "x">>, <<"(", "x", "+", "1", ")">>, <<"x", "(", ")">>,
             <<"if", "x", "then", "1", "else", "x">>}
Three == {a \o <<p>> \o b \o <<q>> \o c : a \in Operands, b \in Operands, c \in Operands,
                                          p, q \in {"=", "+", "*"}}
Four == {<<"x", p, "1", q, "x", r, "1">> : p \in Operators, q \in Operators, r \in Operators}

\* Behind the definition of an operator, with a precedence of its own or without one, or
\* behind its declaration.
WithOperator == {Define(o, n, <<"x", ";">>) \o <<"x", p, "1", q, "x">> :
    o \in {"|", "+", "=", ")"}, n \in {<<>>, <<"1">>, <<"5.5">>, <<"0">>, <<"101">>},
    p \in Operators \cup {")"}, q \in Operators}
Declared == {<<"extern", "binary", o, "1">> \o TwoNames \o <<"x", p, "1", q, "x">> :
    o \in {"|", "+"}, p, q \in {"|", "+", "*"}}

AllTexts == Printed \cup Followed \cup Three \cup Four \cup WithOperator \cup Declared
=============================================================================
