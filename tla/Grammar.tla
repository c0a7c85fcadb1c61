-------------------------------- MODULE Grammar --------------------------------
(***************************************************************************)
(* What the trees of Parser should be: a rule for each kind of node, and   *)
(* the grouping that precedences ask for.  Nothing here is about how the   *)
(* parser works.                                                           *)
(* The rules are the grammar of the comments in src/src/Parser.cpp, but    *)
(* where the code differs from them they follow the code: arguments of a   *)
(* call are separated by commas (:71-76, not `expression*' of :51), names  *)
(* in the prototype of a binary operator are not (:355-359, not `(id, id)' *)
(* of :305), the destination of = is a variable (:281), and any character  *)
(* but a parenthesis or a comma may be a unary operator (:243, not `!'     *)
(* alone).                                                                 *)
(***************************************************************************)
EXTENDS Parser

\* A node is made of words and of other nodes, in the order of the text.  A word is of
\* a class, and at a certain position if the node says one (its location, a name).
AnyPlace == 0
Word(class, p) == [class |-> class, at |-> p, sub |-> 0]
The(word)      == Word({word}, AnyPlace)
Sub(i)         == [class |-> {}, at |-> AnyPlace, sub |-> i]

Optional(word, i) == IF i = 0 THEN <<>> ELSE <<The(word), Sub(i)>>
Separated(n, Item(_)) == Tail([i \in 1..2 * n |-> IF i % 2 = 0 THEN Item(i \div 2) ELSE The(",")])
NamesOf(n) == [i \in DOMAIN n.names |-> Word(Ident, n.names[i])]
Arguments(n) == <<The("(")>> \o NamesOf(n) \o <<The(")")>>

\* The variables of a `var`, with their initialisers.
VarItems(n) ==
    LET item(i) == <<Word(Ident, n.names[i])>> \o Optional("=", n.kids[i])
        upTo[i \in 1..Len(n.names)] ==
            IF i = 1 THEN item(1) ELSE upTo[i - 1] \o <<The(",")>> \o item(i)
    IN  upTo[Len(n.names)]

Rule(n) ==
    LET kid(i) == Sub(n.kids[i])
        op     == Word(Char, n.at + 1)
        value  == Word(Number, n.at + 2)
    IN  CASE n.kind = "number"   -> <<Word(Number, n.at)>>
          [] n.kind = "variable" -> <<Word(Ident, n.at)>>
          [] n.kind = "unary"    -> <<Word(Char \ {"(", ","}, n.at), kid(1)>>
          [] n.kind = "binary"   -> <<kid(1), Word(Char \ {"="}, n.at), kid(2)>>
          [] n.kind = "call"     -> <<Word(Ident, n.at), The("(")>>
                                      \o (IF n.kids = <<>> THEN <<>> ELSE Separated(Len(n.kids), kid))
                                      \o <<The(")")>>
          [] n.kind = "if"       -> <<Word({"if"}, n.at), kid(1), The("then"), kid(2), The("else"), kid(3)>>
          [] n.kind = "for"      -> <<Word({"for"}, n.at), Word(Ident, n.names[1]), The("="), kid(1), The(","), kid(2)>>
                                      \o Optional(",", n.kids[3]) \o <<The("in"), kid(4)>>
          [] n.kind = "var"      -> <<Word({"var"}, n.at)>> \o VarItems(n)
                                      \o <<The("in"), kid(Len(n.kids))>>
          [] n.kind = "proto"       -> <<Word(Ident, n.at)>> \o Arguments(n)
          [] n.kind = "unaryproto"  -> <<Word({"unary"}, n.at), op>> \o Arguments(n)
          [] n.kind = "binaryproto" -> <<Word({"binary"}, n.at), op>>
                                         \o (IF Tok(n.at + 2) \in Number THEN <<value>> ELSE <<>>) \o Arguments(n)
          [] n.kind = "anonproto"   -> <<>>
          [] n.kind = "function" /\ ast[n.kids[1]].kind = "anonproto" -> <<kid(2)>>
          [] OTHER                  -> <<Word({"def"}, n.at), kid(1), kid(2)>>

\* The position behind an item that begins at p, 0 if none does: an expression may have
\* parentheses around it, which its node does not show.
Around(p, from, to) ==
    LET depth == from - p
    IN  IF depth >= 0 /\ \A i \in 0..depth - 1 : Tok(p + i) = "(" /\ Tok(to + 1 + i) = ")"
        THEN to + depth + 1 ELSE 0

After(p, item) ==
    IF item.sub # 0 THEN Around(p, ast[item.sub].from, ast[item.sub].to)
    ELSE IF Tok(p) \in item.class /\ item.at \in {AnyPlace, p} THEN p + 1 ELSE 0

Spells(items, from, to) ==
    LET reached[i \in 0..Len(items)] ==
            IF i = 0 THEN from
            ELSE IF reached[i - 1] = 0 THEN 0 ELSE After(reached[i - 1], items[i])
    IN  reached[Len(items)] = to + 1

\* Every node is made of the tokens it was built from, all of them and no others, by
\* the rule of its kind; its location is that of its keyword, operator or first token,
\* and its names are where the rule has them.
TreeMatchesTokens == Parsed => \A i \in DOMAIN ast :
    LET n == ast[i]
    IN  IF n.kind = "assign"
        THEN LET value == Around(n.from, n.names[1], n.names[1])
             IN  Tok(n.names[1]) \in Ident /\ value = n.at /\ Spells(<<The("="), Sub(n.kids[1])>>, n.at, n.to)
        ELSE Spells(Rule(n), n.from, n.to)

\* Precedence, as the table has it while the construct is parsed.
OpOf(n) == GetPrecedence(Tok(n.at))
IsOperation(n) == n.kind \in {"binary", "assign"}

\* Operators of higher precedence bind tighter, those of equal precedence to the left,
\* a unary operator binds tighter than any; an if, for or var takes all that follows.
\* Only parentheses change that.
GroupsByPrecedence == Parsed => \A i \in DOMAIN ast :
    LET n     == ast[i]
        bare(k, p) == ast[k].from = p
        right == n.kids[Len(n.kids)]
    IN  /\ n.kind = "binary" /\ bare(n.kids[1], n.from) =>
            /\ ast[n.kids[1]].kind \notin {"if", "for", "var"}
            /\ IsOperation(ast[n.kids[1]]) => OpOf(ast[n.kids[1]]) >= OpOf(n)
        /\ IsOperation(n) /\ bare(right, n.at + 1) /\ IsOperation(ast[right]) =>
            OpOf(ast[right]) > OpOf(n)
        /\ n.kind = "unary" /\ bare(right, n.at + 1) => ~IsOperation(ast[right])

\* A construct fails with one diagnostic, and prints none otherwise: no null is lost on
\* its way up, and none comes back without a word.
OneDiagnostic == Parsed => said = (IF ret = 0 THEN 1 ELSE 0)
=============================================================================
