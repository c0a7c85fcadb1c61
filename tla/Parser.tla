-------------------------------- MODULE Parser --------------------------------
(***************************************************************************)
(* The recursive-descent parser (src/src/Parser.cpp): one token of         *)
(* lookahead, precedence climbing, and the tree it builds.                 *)
(*                                                                         *)
(* The C++ functions call each other; here their stack is a variable.  A   *)
(* frame is a function that waits for the result of parseExpression or     *)
(* parseUnary.  Trees are indices into a sequence of nodes, 0 for null.    *)
(*                                                                         *)
(* The input is a sequence of tokens.  A position in it stands for what    *)
(* the lexer says of that token: its location, its text, its value.        *)
(*                                                                         *)
(* This module has no specification of its own: Frontend drives it.        *)
(***************************************************************************)
EXTENDS OperatorTable, Sequences

CONSTANTS
    Ident,      \* identifiers
    Number,     \* number literals
    Halves,     \* their values, in halves
    Text        \* the inputs: sequences of tokens

Keyword == {"def", "extern", "if", "then", "else", "for", "in", "var", "binary", "unary"}

\* "byte" is a character outside ASCII, which the lexer returns like any other.
Token == Ident \cup Number \cup Keyword \cup Char \cup {"byte"}

ASSUME ParserAssumption ==
    /\ Halves \in [Number -> Nat]
    /\ Text \subseteq Seq(Token)

\* The kinds of token differ: no identifier or number is spelled like a keyword, which
\* has more than one character, and the end of the input is no token of it.
ASSUME TokenAssumption ==
    /\ (Ident \cup Number \cup Char) \cap Keyword = {}
    /\ (Ident \cup Number) \cap Char = {}
    /\ Ident \cap Number = {}
    /\ "eof" \notin Token

VARIABLES
    text,       \* the input
    pos,        \* the position of CurTok, one behind the last at the end of the input
    phase,      \* which function is at work
    stack,      \* functions that wait, the innermost last
    ret,        \* what the last one returned: a node, or 0
    ast,        \* the nodes built for the current construct
    said        \* diagnostics printed for it

parserVars == <<text, pos, phase, stack, ret, ast, said>>

Tok(p) == IF p <= Len(text) THEN text[p] ELSE "eof"
CurTok == Tok(pos)
Position  == 1..Len(text) + 1

\* from and to: the tokens a node was built from, without parentheses around it.
Kind == {"number", "variable", "unary", "binary", "assign", "call", "if", "for", "var",
         "proto", "unaryproto", "binaryproto", "anonproto", "function"}
Node(k, at, from, names, kids) ==
    [kind |-> k, at |-> at, names |-> names, kids |-> kids, prec |-> 0, from |-> from, to |-> 0]

\* at: where the function began; op: the operator a parseBinOpRHS has taken; min: ExprPrec.
Function == {"expr", "rhs", "operand", "merge", "unary", "paren", "call", "if", "for",
             "var", "varbody", "def", "top"}
Frame(f, at) == [fn |-> f, at |-> at, op |-> 0, min |-> 0, names |-> <<>>, kids |-> <<>>]

ParserTypeOK ==
    /\ pos \in Position
    /\ phase \in {"idle", "unary", "binop", "name", "return"}
    /\ ret \in 0..Len(ast)
    /\ said \in Nat
    /\ \A i \in DOMAIN stack :
        /\ stack[i].fn \in Function
        /\ stack[i].at \in Position
        /\ \A k \in DOMAIN stack[i].kids : stack[i].kids[k] \in 0..Len(ast)
    /\ \A i \in DOMAIN ast :
        /\ ast[i].kind \in Kind
        /\ ast[i].at \in Position
        /\ ast[i].prec \in {0} \cup 1..100
        /\ \A k \in DOMAIN ast[i].names : ast[i].names[k] \in 1..Len(text)
        /\ \A k \in DOMAIN ast[i].kids : ast[i].kids[k] < i
    /\ \A o \in DOMAIN table : o \in Char /\ table[o] \in 1..100

\* The parser primes its first token.
ParserInit ==
    /\ text \in Text
    /\ pos = 1
    /\ phase = "idle"
    /\ stack = <<>>
    /\ ret = 0
    /\ ast = <<>>
    /\ said = 0

-----------------------------------------------------------------------------
\* The forms named Slip... are faults the properties are tried against; no action
\* uses them.

Top  == stack[Len(stack)]
Rest == SubSeq(stack, 1, Len(stack) - 1)

\* A function returns the node n, the new node x, or null.
Return(s, n) == stack' = s /\ ret' = n /\ phase' = "return"
Build(s, x, p) ==
    /\ pos' = p
    /\ ast' = Append(ast, [x EXCEPT !.to = p - 1])
    /\ Return(s, Len(ast) + 1)
    /\ UNCHANGED said

SlipSilent == said
Said == said + 1

\* logError: the token at p is not the one that is expected, and stays the current one.
Fail(s, p) == pos' = p /\ Return(s, 0) /\ said' = Said /\ UNCHANGED ast

\* parseExpression is called with the token at p: a unary expression and what follows it.
Expression(s, p) ==
    /\ pos' = p
    /\ stack' = Append(s, Frame("expr", p))
    /\ phase' = "unary"
    /\ UNCHANGED <<ret, said>>

Expects(s, word) ==
    IF CurTok = word THEN Expression(s, pos + 1) /\ UNCHANGED ast ELSE Fail(Rest, pos)

Got(f) == phase = "return" /\ stack # <<>> /\ ret # 0 /\ Top.fn = f
WithKid == [Top EXCEPT !.kids = Append(@, ret)]

\* Every function returns null when a part of it has.
PartFails ==
    /\ phase = "return"
    /\ stack # <<>>
    /\ ret = 0
    /\ Return(Rest, 0)
    /\ UNCHANGED <<pos, ast, said>>

-----------------------------------------------------------------------------
At(t) == phase = "unary" /\ CurTok = t
Wait(f, p) == Expression(Append(stack, f), p) /\ UNCHANGED ast

ParseNumber ==
    /\ phase = "unary"
    /\ CurTok \in Number
    /\ Build(stack, Node("number", pos, pos, <<>>, <<>>), pos + 1)

ParseParen == At("(") /\ Wait(Frame("paren", pos), pos + 1)

\* The parentheses leave no node.
CloseParen ==
    /\ Got("paren")
    /\ IF CurTok = ")"
       THEN pos' = pos + 1 /\ Return(Rest, ret) /\ UNCHANGED <<ast, said>>
       ELSE Fail(Rest, pos)

\* A variable, a call without arguments, or a call whose first argument is parsed.
ParseIdentifier ==
    /\ phase = "unary"
    /\ CurTok \in Ident
    /\ LET open == pos + 1
           name == [Frame("call", pos) EXCEPT !.names = <<pos>>]
       IN  \/ /\ Tok(open) # "("
              /\ Build(stack, Node("variable", pos, pos, <<pos>>, <<>>), open)
           \/ /\ Tok(open) = "("
              /\ Tok(open + 1) = ")"
              /\ Build(stack, Node("call", pos, pos, <<pos>>, <<>>), open + 2)
           \/ /\ Tok(open) = "("
              /\ Tok(open + 1) # ")"
              /\ Wait(name, open + 1)

CallArgument ==
    /\ Got("call")
    /\ IF CurTok = ")"
       THEN Build(Rest, Node("call", Top.at, Top.at, Top.names, WithKid.kids), pos + 1)
       ELSE Expects(Append(Rest, WithKid), ",")

ParseIf == At("if") /\ Wait(Frame("if", pos), pos + 1)

IfPart ==
    /\ Got("if")
    /\ IF Len(WithKid.kids) = 3
       THEN Build(Rest, Node("if", Top.at, Top.at, <<>>, WithKid.kids), pos)
       ELSE Expects(Append(Rest, WithKid), IF Top.kids = <<>> THEN "then" ELSE "else")

\* 'for' identifier '=', in front of the start value.
ParseFor ==
    /\ At("for")
    /\ LET name == pos + 1
           loop == [Frame("for", pos) EXCEPT !.names = <<name>>]
       IN  \/ Tok(name) \notin Ident /\ Fail(stack, name)
           \/ Tok(name) \in Ident /\ Tok(name + 1) # "=" /\ Fail(stack, name + 1)
           \/ Tok(name) \in Ident /\ Tok(name + 1) = "=" /\ Wait(loop, name + 2)

\* Start, end, step and body; a step that is missing is null.
SlipNoStep(kids) == kids
NullStep(kids) == Append(kids, 0)

ForPart ==
    /\ Got("for")
    /\ LET k == Len(WithKid.kids)
           next == Append(Rest, WithKid)
           skip == Append(Rest, [WithKid EXCEPT !.kids = NullStep(@)])
       IN  \/ k = 1 /\ Expects(next, ",")
           \/ k = 2 /\ CurTok = "," /\ Expects(next, ",")
           \/ k = 2 /\ CurTok # "," /\ Expects(skip, "in")
           \/ k = 3 /\ Expects(next, "in")
           \/ k = 4 /\ Build(Rest, Node("for", Top.at, Top.at, Top.names, WithKid.kids), pos)

ParseVar ==
    /\ At("var")
    /\ stack' = Append(stack, Frame("var", pos))
    /\ phase' = "name"
    /\ pos' = pos + 1
    /\ UNCHANGED <<ret, ast, said>>

\* The list of a `var` goes on behind the token at p, or ends there.
VarList(f, p) ==
    \/ /\ Tok(p) = ","
       /\ stack' = Append(Rest, f)
       /\ phase' = "name"
       /\ pos' = p + 1
       /\ UNCHANGED <<ret, ast, said>>
    \/ Tok(p) = "in" /\ Expression(Append(Rest, [f EXCEPT !.fn = "varbody"]), p + 1) /\ UNCHANGED ast
    \/ Tok(p) \notin {",", "in"} /\ Fail(Rest, p)

\* A name, with an initialiser or without one.
VarName ==
    /\ phase = "name"
    /\ LET named == [Top EXCEPT !.names = Append(@, pos)]
       IN  \/ CurTok \notin Ident /\ Fail(Rest, pos)
           \/ /\ CurTok \in Ident
              /\ Tok(pos + 1) = "="
              /\ Expression(Append(Rest, named), pos + 2)
              /\ UNCHANGED ast
           \/ /\ CurTok \in Ident
              /\ Tok(pos + 1) # "="
              /\ VarList([named EXCEPT !.kids = Append(@, 0)], pos + 1)

VarInit == Got("var") /\ VarList(WithKid, pos)

VarBody ==
    Got("varbody") /\ Build(Rest, Node("var", Top.at, Top.at, Top.names, WithKid.kids), pos)

\* Any other ASCII character is a unary operator, known or not.
SlipKnownOnly(t) == t \in DOMAIN table
IsUnary(t) == t \in Char \ {"(", ","}

ParseUnary ==
    /\ phase = "unary"
    /\ IsUnary(CurTok)
    /\ stack' = Append(stack, Frame("unary", pos))
    /\ pos' = pos + 1
    /\ UNCHANGED <<phase, ret, ast, said>>

UnaryDone == Got("unary") /\ Build(Rest, Node("unary", Top.at, Top.at, <<>>, <<ret>>), pos)

StartsPrimary(t) == t \in Ident \cup Number \cup {"(", "if", "for", "var"}

ParseNothing ==
    phase = "unary" /\ ~IsUnary(CurTok) /\ ~StartsPrimary(CurTok) /\ Fail(stack, pos)

-----------------------------------------------------------------------------
\* parseBinOpRHS: at its loop's head the frame holds what is merged so far.
BinOpRHS(at, min, lhs) == [Frame("rhs", at) EXCEPT !.min = min, !.kids = <<lhs>>]

UnaryParsed ==
    /\ Got("expr")
    /\ stack' = Append(Rest, BinOpRHS(Top.at, 0, ret))
    /\ phase' = "binop"
    /\ UNCHANGED <<pos, ret, ast, said>>

NoOperator ==
    /\ phase = "binop"
    /\ GetPrecedence(CurTok) < Top.min
    /\ Return(Rest, Top.kids[1])
    /\ UNCHANGED <<pos, ast, said>>

TakeOperator ==
    /\ phase = "binop"
    /\ GetPrecedence(CurTok) >= Top.min
    /\ stack' = Append(Rest, [Top EXCEPT !.fn = "operand", !.op = pos])
    /\ pos' = pos + 1
    /\ phase' = "unary"
    /\ UNCHANGED <<ret, ast, said>>

\* The operator behind the right operand binds it tighter than the one before it.
Tighter(p, q) == p < q

SlipSame(p) == p
Above(p) == p + 1

BindsRight ==
    /\ Got("operand")
    /\ LET prec == GetPrecedence(Tok(Top.op))
       IN  /\ Tighter(prec, GetPrecedence(CurTok))
           /\ stack' = Rest \o <<[Top EXCEPT !.fn = "merge"],
                                 BinOpRHS(Top.op + 1, Above(prec), ret)>>
    /\ phase' = "binop"
    /\ UNCHANGED <<pos, ret, ast, said>>

\* The destination of '=' must be a variable; its node is not kept.
SlipAnyDestination(n) == ast[n].names # <<>>
IsVariable(n) == ast[n].kind = "variable"

Merged(x) ==
    /\ ast' = Append(ast, [x EXCEPT !.to = pos - 1])
    /\ stack' = Append(Rest, BinOpRHS(Top.at, Top.min, Len(ast) + 1))
    /\ phase' = "binop"
    /\ UNCHANGED <<pos, ret, said>>

Merge ==
    /\ \/ Got("operand") /\ ~Tighter(GetPrecedence(Tok(Top.op)), GetPrecedence(CurTok))
       \/ Got("merge")
    /\ LET lhs == Top.kids[1]
       IN  \/ /\ Tok(Top.op) # "="
              /\ Merged(Node("binary", Top.op, Top.at, <<>>, <<lhs, ret>>))
           \/ /\ Tok(Top.op) = "="
              /\ IF IsVariable(lhs)
                 THEN Merged(Node("assign", Top.op, Top.at, ast[lhs].names, <<ret>>))
                 ELSE Fail(Rest, pos)

-----------------------------------------------------------------------------
\* parsePrototype with the token at p: a node and the position behind it, or the
\* position of the token it stops at.
Stops(p) == [ok |-> FALSE, next |-> p]

\* The first token behind p that is no identifier.
NamesEnd(p) == CHOOSE e \in p + 1..Len(text) + 1 :
    Tok(e) \notin Ident /\ \A q \in p + 1..e - 1 : Tok(q) \in Ident

SlipAnyNumber(k, names) == TRUE
RightNumber(k, names) ==
    CASE k = "unaryproto" -> Len(names) = 1 [] k = "binaryproto" -> Len(names) = 2 [] OTHER -> TRUE

Parameters(k, at, prec, open) ==
    LET end   == NamesEnd(open)
        names == [i \in 1..end - open - 1 |-> open + i]
    IN  CASE Tok(open) # "(" -> Stops(open)
          [] Tok(open) = "(" /\ Tok(end) # ")" -> Stops(end)
          [] Tok(open) = "(" /\ Tok(end) = ")" /\ ~RightNumber(k, names) -> Stops(end + 1)
          [] OTHER -> [ok |-> TRUE, next |-> end + 1,
                       node |-> [Node(k, at, at, names, <<>>) EXCEPT !.prec = prec, !.to = end]]

DefaultPrecedence == 30
SlipFromZero(n)   == Halves[n] >= 0 /\ Halves[n] <= 200
IsPrecedence(n)   == Halves[n] >= 2 /\ Halves[n] <= 200
Truncated(n)      == Halves[n] \div 2

Prototype(p) ==
    CASE Tok(p) \in Ident -> Parameters("proto", p, DefaultPrecedence, p + 1)
      [] Tok(p) \in {"unary", "binary"} /\ Tok(p + 1) \notin Char -> Stops(p + 1)
      [] Tok(p) = "unary" /\ Tok(p + 1) \in Char ->
            Parameters("unaryproto", p, DefaultPrecedence, p + 2)
      [] Tok(p) = "binary" /\ Tok(p + 1) \in Char /\ Tok(p + 2) \notin Number ->
            Parameters("binaryproto", p, DefaultPrecedence, p + 2)
      [] Tok(p) = "binary" /\ Tok(p + 1) \in Char /\ Tok(p + 2) \in Number ->
            IF IsPrecedence(Tok(p + 2))
            THEN Parameters("binaryproto", p, Truncated(Tok(p + 2)), p + 3)
            ELSE Stops(p + 2)
      [] OTHER -> Stops(p)

\* A construct begins: the driver has seen its first token.
ParseDefinition ==
    LET proto == Prototype(pos + 1)
    IN  IF proto.ok
        THEN /\ ast' = <<proto.node>>
             /\ Expression(<<[Frame("def", pos) EXCEPT !.kids = <<1>>]>>, proto.next)
        ELSE Fail(<<>>, proto.next)

ParseExtern ==
    LET proto == Prototype(pos + 1)
    IN  IF proto.ok THEN Build(<<>>, proto.node, proto.next) ELSE Fail(<<>>, proto.next)

ParseTopLevelExpr == Expression(<<Frame("top", pos)>>, pos) /\ UNCHANGED ast

Definition == Got("def") /\ Build(Rest, Node("function", Top.at, Top.at, <<>>, WithKid.kids), pos)

\* The expression gets a prototype without arguments.
TopLevel ==
    /\ Got("top")
    /\ LET n == Len(ast)
       IN  /\ ast' = ast \o
                <<[Node("anonproto", Top.at, Top.at, <<>>, <<>>) EXCEPT !.to = Top.at - 1],
                  [Node("function", Top.at, Top.at, <<>>, <<n + 1, ret>>) EXCEPT !.to = pos - 1]>>
           /\ Return(Rest, n + 2)
    /\ UNCHANGED <<pos, said>>

ParseStep ==
    /\ \/ ParseNumber \/ ParseIdentifier \/ CallArgument \/ ParseParen \/ CloseParen
       \/ ParseIf \/ IfPart \/ ParseFor \/ ForPart
       \/ ParseVar \/ VarName \/ VarInit \/ VarBody
       \/ ParseUnary \/ UnaryDone \/ ParseNothing
       \/ UnaryParsed \/ NoOperator \/ TakeOperator \/ BindsRight \/ Merge
       \/ Definition \/ TopLevel \/ PartFails
    /\ UNCHANGED <<text, table>>

Parsed == phase = "return" /\ stack = <<>>

=============================================================================
