---------------------------- MODULE FrontendProofs ----------------------------
(***************************************************************************)
(* The safety of the parser and of the loops that drive it, for any tokens,*)
(* any inputs and any verdicts of code generation.                         *)
(*                                                                         *)
(* The first invariant says what the functions that wait, the nodes and    *)
(* the visits of the dumper refer to.  The second says how the functions   *)
(* that wait are nested and what each may find behind its part: it is why  *)
(* precedence climbing groups as it should.  The last part says what the   *)
(* tree at the end has to do with the first tokens of its construct: it is *)
(* why the operator table has what the definitions in the text ask.        *)
(* What is shown here is what TreeProofs builds on.                        *)
(***************************************************************************)
EXTENDS Frontend, SequenceTheorems, WellFoundedInduction, TLAPS

\* A set of natural numbers that is not empty has a least element.
LEMMA LeastExists ==
    ASSUME NEW S, S \subseteq Nat, S # {}
    PROVE  \E n \in S : \A m \in S : n <= m
<1> DEFINE Less == OpToRel(<, Nat)
<1>1. IsWellFoundedOn(Less, Nat)
  BY NatLessThanWellFounded
<1> HIDE DEF Less
<1>2. PICK n \in S : \A m \in S : <<m, n>> \notin Less
  BY <1>1, WFMin
<1>3. \A m \in S : ~ (m < n)
  BY <1>2 DEF Less, OpToRel
<1> QED
  BY <1>3

-----------------------------------------------------------------------------
\* A sequence with an element more, and with one less.
AllButLast(s) == SubSeq(s, 1, Len(s) - 1)

LEMMA PushFacts ==
    ASSUME NEW S, NEW s \in Seq(S), NEW f \in S
    PROVE  /\ Append(s, f) \in Seq(S)
           /\ Len(Append(s, f)) = Len(s) + 1
           /\ Len(s) \in Nat
           /\ Append(s, f) # <<>>
           /\ \A i \in 1..Len(s) : Append(s, f)[i] = s[i]
           /\ Append(s, f)[Len(s) + 1] = f
           /\ AllButLast(Append(s, f)) = s
<1>1. /\ Append(s, f) \in Seq(S)
      /\ Len(Append(s, f)) = Len(s) + 1
      /\ Len(s) \in Nat
      /\ \A i \in 1..Len(s) : Append(s, f)[i] = s[i]
      /\ Append(s, f)[Len(s) + 1] = f
  BY AppendProperties, LenProperties
<1>2. Append(s, f) # <<>>
  BY <1>1, EmptySeq
<1>3. AllButLast(Append(s, f)) = s
  BY <1>1 DEF AllButLast
<1> QED
  BY <1>1, <1>2, <1>3

LEMMA PopFacts ==
    ASSUME NEW S, NEW s \in Seq(S), s # <<>>
    PROVE  /\ AllButLast(s) \in Seq(S)
           /\ Len(s) \in Nat \ {0}
           /\ Len(AllButLast(s)) = Len(s) - 1
           /\ \A i \in 1..Len(s) - 1 : AllButLast(s)[i] = s[i]
           /\ s[Len(s)] \in S
<1>1. Len(s) \in Nat \ {0}
  BY EmptySeq, LenProperties
<1>2. \A i \in 1..Len(s) : s[i] \in S
  BY ElementOfSeq
<1>3. AllButLast(s) = [i \in 1..Len(s) - 1 |-> s[i]]
  BY <1>1 DEF AllButLast
<1>4. AllButLast(s) \in [1..Len(s) - 1 -> S]
  BY <1>1, <1>2, <1>3
<1>5. AllButLast(s) \in Seq(S) /\ Len(AllButLast(s)) = Len(s) - 1
  BY <1>1, <1>4
<1> QED
  BY <1>1, <1>2, <1>3, <1>5

-----------------------------------------------------------------------------

FrameType == [fn : Function, at : Nat, op : Nat, min : Nat, names : Seq(Nat), kids : Seq(Nat)]
NodeType  == [kind : Kind, at : Nat, names : Seq(Nat), kids : Seq(Nat), prec : Nat,
              from : Nat, to : Int]

\* The frames of parseBinOpRHS, which hold the left operand.
Climbs == {"rhs", "operand", "merge"}
Protos == {"proto", "unaryproto", "binaryproto", "anonproto"}

Within(s, S) == \A i \in 1..Len(s) : s[i] \in S

\* A prototype: of a binary operator it has the operator and a precedence.
ProtoOK(t, x) ==
    /\ x.kind \in Protos /\ x.kids = <<>>
    /\ x.kind = "binaryproto" => /\ x.at + 1 \in 1..Len(t) /\ t[x.at + 1] \in Char
                                 /\ x.prec \in 1..100

\* A node of the tree a, behind its parts; of a function both parts are there.
NodeOK(t, a, x, n) ==
    /\ x \in NodeType
    /\ x.at \in 1..Len(t) + 1
    /\ x.prec \in 0..100
    /\ Within(x.names, 1..Len(t))
    /\ Within(x.kids, 0..n)
    /\ x.kind \in Protos => ProtoOK(t, x)
    /\ x.kind = "function" => /\ Len(x.kids) = 2 /\ x.kids[1] # 0 /\ x.kids[2] # 0
                              /\ a[x.kids[1]].kind \in Protos
AstOK(t, a) == a \in Seq(NodeType) /\ \A i \in 1..Len(a) : NodeOK(t, a, a[i], i - 1)

FrameOK(t, a, f) ==
    /\ f \in FrameType
    /\ f.at \in 1..Len(t) + 1
    /\ f.op \in 0..Len(t)
    /\ Within(f.names, 1..Len(t))
    /\ Within(f.kids, 0..Len(a))
    /\ f.fn \in Climbs => Len(f.kids) = 1 /\ f.kids[1] # 0
    /\ f.fn \in {"operand", "merge"} => f.op # 0
    /\ f.fn = "def" => /\ Len(f.kids) = 1 /\ f.kids[1] = 1 /\ Len(a) # 0
                       /\ a[1].kind \in Protos
StackOK(t, a, s) == s \in Seq(FrameType) /\ \A i \in 1..Len(s) : FrameOK(t, a, s[i])

\* A function at work has what it needs; a null came with one diagnostic.
WorkOK(ph, s, r, d) ==
    /\ ph = "name" => s # <<>> /\ s[Len(s)].fn = "var"
    /\ ph = "binop" => s # <<>> /\ s[Len(s)].fn = "rhs"
    /\ d = IF ph = "return" /\ r = 0 THEN 1 ELSE 0

ParserInv ==
    /\ text \in Seq(Token)
    /\ pos \in Position
    /\ phase \in {"idle", "unary", "binop", "name", "return"}
    /\ ret \in 0..Len(ast)
    /\ AstOK(text, ast)
    /\ StackOK(text, ast, stack)
    /\ WorkOK(phase, stack, ret, said)
    /\ \A o \in DOMAIN table : o \in Char /\ table[o] \in 1..100

VisitType == [node : Nat, done : Nat]
LineType  == [indent : Nat, node : Nat]

DumperInv ==
    /\ lines \in Seq(LineType) /\ \A i \in 1..Len(lines) : lines[i].node \in 0..Len(ast)
    /\ visits \in Seq(VisitType) /\ \A i \in 1..Len(visits) : visits[i].node \in 1..Len(ast)
    /\ indent = 2 * Len(visits)

\* What the loop has left behind at each of its places.
DriverInv ==
    /\ pc \in {"loop", "parse", "dump", "codegen", "end"}
    /\ mode \in Mode /\ dumpAST \in DumpAST /\ sawTopLevel \in BOOLEAN
    /\ start \in 0..Len(text)
    /\ begun \subseteq Position /\ dropped \subseteq Position
    /\ parsed \subseteq Position /\ dumped \subseteq Position /\ defined \subseteq Position
    /\ pc \in {"loop", "end"} => phase = "idle" /\ ret = 0
    /\ pc = "parse" => phase # "idle" /\ start # 0
    /\ pc \in {"dump", "codegen"} => phase = "return" /\ ret # 0
    /\ pc \in {"dump", "codegen"} => start \in parsed
    /\ pc # "parse" => stack = <<>>
    /\ pc # "dump" => visits = <<>>
    /\ pc \notin {"dump", "codegen"} => lines = <<>>

FrontendInv == ParserInv /\ DumperInv /\ DriverInv

\* A parse that succeeds has read past the first token of the construct.
Advanced ==
    pc = "parse" =>
        /\ pos >= start
        /\ phase \in {"binop", "name"} \/ (phase = "return" /\ ret # 0) => pos > start

-----------------------------------------------------------------------------
\* The precedence of the token at each position, while a construct is parsed.
Precs == [p \in Position |-> GetPrecedence(Tok(p))]

Operations == {"binary", "assign"}
Greedy     == {"if", "for", "var"}
Primary    == {"unary", "paren", "call", "if", "for", "var", "varbody"}
Whole      == {"paren", "call", "if", "for", "var", "varbody", "def", "top"}

\* A node x of the tree a is grouped as the precedences P ask for.
Grouped(P, a, x) ==
    x.kind \in Operations \cup {"unary"} =>
        LET l     == x.kids[1]
            r     == x.kids[Len(x.kids)]
        IN  /\ x.kids # <<>> /\ l # 0 /\ r # 0
            /\ x.kind = "binary" /\ a[l].from = x.from =>
                /\ a[l].kind \notin Greedy
                /\ a[l].kind \in Operations => P[a[l].at] >= P[x.at]
            /\ x.kind \in Operations /\ a[r].from = x.at + 1 /\ a[r].kind \in Operations =>
                P[a[r].at] > P[x.at]
            /\ x.kind = "unary" /\ a[r].from = x.at + 1 => a[r].kind \notin Operations

\* f waits for parseUnary.
Wants(f) == f.fn \in {"expr", "unary", "operand"}

\* Where the part a function waits for began.
PartAt(f) == IF f.fn = "unary" THEN f.at + 1
             ELSE IF f.fn \in {"operand", "merge"} THEN f.op + 1 ELSE f.at

\* g is called by f.
Calls(P, f, g) ==
    /\ f.fn # "rhs"
    /\ Wants(f) => g.fn \in Primary /\ g.at = PartAt(f)
    /\ f.fn = "merge" => g.fn \in Climbs /\ g.at = PartAt(f) /\ g.min = P[f.op] + 1
    /\ f.fn \in Whole => /\ g.fn \in Climbs \cup {"expr"} /\ g.min = 0
                          /\ g.at >= f.at /\ (f.fn # "top" => g.at > f.at)

\* What parseBinOpRHS holds: everything merged so far binds as tight as it may.
Climbing(P, a, f) ==
    LET lhs == a[f.kids[1]]
    IN  /\ lhs.from >= f.at
        /\ lhs.from = f.at /\ lhs.kind \in Operations => P[lhs.at] >= f.min
        /\ f.fn # "rhs" =>
            /\ P[f.op] >= f.min
            /\ lhs.from = f.at => /\ lhs.kind \notin Greedy
                                  /\ lhs.kind \in Operations => P[lhs.at] >= P[f.op]

\* The node x is what the function f waited for, and the token behind it has precedence c.
Received(P, f, x, c) ==
    /\ x.from >= PartAt(f)
    /\ Wants(f) =>
        /\ x.kind \in Operations => x.from > PartAt(f)
        /\ x.kind \in Greedy /\ x.from = PartAt(f) => c < 0
    /\ f.fn = "merge" => /\ c <= P[f.op]
                         /\ x.from = PartAt(f) /\ x.kind \in Operations => P[x.at] > P[f.op]
    /\ f.fn \in Whole => c < 0 /\ (f.fn # "top" => x.from > f.at)

TreeGrouped(P, a) == \A i \in 1..Len(a) : Grouped(P, a, a[i])

\* The functions of the stack s, while the current token is at p.
Nested(P, a, s, p) ==
    /\ \A i \in 1..Len(s) : /\ s[i].at <= p /\ s[i].op < p
                            /\ s[i].fn \in Climbs => Climbing(P, a, s[i])
    /\ \A i \in 1..Len(s) - 1 : Calls(P, s[i], s[i + 1])

\* What the function at work finds: f is the innermost that waits.
AtUnary(s, p) == s # <<>> /\ Wants(s[Len(s)]) /\ p = PartAt(s[Len(s)])
AtBinop(P, a, f, p) ==
    LET lhs == a[f.kids[1]]
    IN  /\ lhs.from = f.at /\ lhs.kind \in Greedy => P[p] < 0
        /\ lhs.from = f.at /\ lhs.kind \in Operations => P[p] <= P[lhs.at]
AtReturn(P, a, f, p, r) == f.fn # "rhs" /\ Received(P, f, a[r], P[p])

Turn(P, a, s, ph, p, r) ==
    /\ ph = "unary" => AtUnary(s, p)
    /\ ph = "binop" => AtBinop(P, a, s[Len(s)], p)
    /\ ph = "return" /\ r # 0 /\ s # <<>> => AtReturn(P, a, s[Len(s)], p, r)

GroupInv == /\ TreeGrouped(Precs, ast)
            /\ Nested(Precs, ast, stack, pos)
            /\ Turn(Precs, ast, stack, phase, pos, ret)

-----------------------------------------------------------------------------
\* The tokens a construct is made of: the parser never reads past another.
Inner == Ident \cup Number \cup Char \cup (Keyword \ {"def", "extern"})

Steps(p, q) == q \in Position /\ p <= q /\ \A r \in p..q - 1 : Tok(r) \in Inner

LEMMA InnerWords ==
    /\ \A w \in {"=", "(", ")", ","} : w \in Inner /\ w \in Char
    /\ \A w \in {"if", "then", "else", "for", "in", "var", "binary", "unary"} : w \in Inner
    /\ Ident \subseteq Inner /\ Number \subseteq Inner /\ Char \subseteq Inner
    /\ Inner \subseteq Token
<1>1. \A w \in {"=", "(", ")", ","} : w \in Char
  BY CharAssumption, Zenon
<1>2. \A w \in {"if", "then", "else", "for", "in", "var", "binary", "unary"} :
        w \in Keyword /\ w # "def" /\ w # "extern"
  BY DEF Keyword
<1>3. Ident \subseteq Inner /\ Number \subseteq Inner /\ Char \subseteq Inner
  BY Zenon DEF Inner
<1>4. Inner \subseteq Token
  BY Zenon DEF Inner, Token
<1>5. \A w \in Keyword : w # "def" /\ w # "extern" => w \in Inner
  BY Zenon DEF Inner
<1> QED
  BY <1>1, <1>2, <1>3, <1>4, <1>5, Zenon

LEMMA InnerNever == "def" \notin Inner /\ "extern" \notin Inner /\ "eof" \notin Inner
<1>1. "def" \in Keyword /\ "extern" \in Keyword
  BY DEF Keyword
<1>2. \A x \in Keyword : x \notin Ident \cup Number \cup Char
  BY TokenAssumption
<1>3. "def" \notin Inner /\ "extern" \notin Inner
  BY <1>1, <1>2, Zenon DEF Inner
<1>4. "eof" \notin Inner
  BY TokenAssumption, InnerWords, Zenon
<1> QED
  BY <1>3, <1>4

LEMMA TokHere ==
    ASSUME text \in Seq(Token), NEW p \in Position, Tok(p) # "eof"
    PROVE  p \in 1..Len(text) /\ p + 1 \in Position /\ Tok(p) = text[p]
<1>1. Len(text) \in Nat
  BY LenProperties
<1>2. p <= Len(text)
  BY DEF Tok
<1> QED
  BY <1>1, <1>2 DEF Tok, Position

LEMMA InnerHere ==
    ASSUME text \in Seq(Token), NEW p \in Position, Tok(p) \in Inner
    PROVE  p \in 1..Len(text) /\ p + 1 \in Position /\ Steps(p, p + 1)
<1>1. Tok(p) # "eof"
  BY InnerNever
<1>2. p \in 1..Len(text) /\ p + 1 \in Position /\ Len(text) \in Nat
  BY <1>1, TokHere, LenProperties
<1>3. \A r \in p..(p + 1) - 1 : r = p
  BY <1>2
<1>4. p <= p + 1
  BY <1>2
<1> QED
  BY <1>2, <1>3, <1>4 DEF Steps

LEMMA StepsStay ==
    ASSUME text \in Seq(Token), NEW p \in Position
    PROVE  Steps(p, p)
<1>1. Len(text) \in Nat
  BY LenProperties
<1> QED
  BY <1>1 DEF Steps, Position

LEMMA StepsOn ==
    ASSUME text \in Seq(Token), NEW p \in Position, NEW q, NEW r, Steps(p, q), Steps(q, r)
    PROVE  Steps(p, r)
<1>1. Len(text) \in Nat /\ p \in Int /\ q \in Int /\ r \in Int
  BY LenProperties DEF Steps, Position
<1>2. \A i \in p..r - 1 : i \in p..q - 1 \/ i \in q..r - 1
  BY <1>1
<1>3. r \in Position /\ p <= r
  BY <1>1 DEF Steps
<1>4. \A i \in p..r - 1 : Tok(i) \in Inner
  BY <1>2 DEF Steps
<1> QED
  BY <1>3, <1>4 DEF Steps

-----------------------------------------------------------------------------
LEMMA PrecFacts ==
    ASSUME ParserInv, NEW t
    PROVE  /\ GetPrecedence(t) \in Int /\ GetPrecedence(t) >= -1
           /\ GetPrecedence(t) >= 0 => t \in Char
<1>1. CASE t \in DOMAIN table
  <2>1. PICK z : z = table[t]
    OBVIOUS
  <2>2. t \in Char /\ z \in 1..100
    BY <1>1, <2>1, Zenon DEF ParserInv
  <2>3. GetPrecedence(t) = z
    BY <1>1, <2>1, <2>2 DEF GetPrecedence
  <2> QED
    BY <2>2, <2>3
<1>2. CASE t \notin DOMAIN table
  BY <1>2 DEF GetPrecedence
<1> QED
  BY <1>1, <1>2

LEMMA WithinAppend ==
    ASSUME NEW s \in Seq(Nat), NEW S, NEW x \in Nat, Within(s, S), x \in S
    PROVE  Append(s, x) \in Seq(Nat) /\ Within(Append(s, x), S) /\ Len(Append(s, x)) = Len(s) + 1
<1>1. Len(s) \in Nat /\ Append(s, x) \in Seq(Nat) /\ Len(Append(s, x)) = Len(s) + 1
  BY AppendProperties, LenProperties
<1>2. \A i \in 1..Len(s) + 1 : Append(s, x)[i] = (IF i <= Len(s) THEN s[i] ELSE x)
  BY <1>1, AppendProperties
<1> QED
  BY <1>1, <1>2 DEF Within

LEMMA WithinOne ==
    ASSUME NEW S, NEW x \in Nat, x \in S
    PROVE  /\ <<x>> \in Seq(Nat) /\ Within(<<x>>, S) /\ Len(<<x>>) = 1 /\ <<x>>[1] = x
           /\ <<>> \in Seq(Nat) /\ Within(<<>>, S) /\ Len(<<>>) = 0
BY DEF Within

LEMMA WithinMono ==
    ASSUME NEW s, NEW S, NEW T, Within(s, S), S \subseteq T
    PROVE  Within(s, T)
BY DEF Within

\* The stack, as its top and the rest.
LEMMA SplitStack ==
    ASSUME NEW t, NEW a, StackOK(t, a, stack), stack # <<>>
    PROVE  /\ StackOK(t, a, Rest) /\ FrameOK(t, a, Top) /\ Top \in FrameType
           /\ Len(Rest) = Len(stack) - 1 /\ Len(stack) \in Nat \ {0}
           /\ \A i \in 1..Len(Rest) : Rest[i] = stack[i]
<1>1. stack \in Seq(FrameType) /\ Len(stack) \in Nat
  BY LenProperties DEF StackOK
<1>2. Len(stack) # 0
  BY <1>1, EmptySeq
<1>3. /\ Rest \in Seq(FrameType) /\ Len(Rest) = Len(stack) - 1
      /\ \A i \in 1..Len(Rest) : Rest[i] = stack[i]
  BY <1>1, PopFacts DEF AllButLast, Rest
<1>4. Len(stack) \in 1..Len(stack)
  BY <1>1, <1>2
<1>5. Top \in FrameType /\ FrameOK(t, a, Top)
  BY <1>1, <1>4 DEF StackOK, Top, FrameOK
<1>6. \A i \in 1..Len(Rest) : i \in 1..Len(stack)
  BY <1>1, <1>3
<1> QED
  BY <1>1, <1>2, <1>3, <1>5, <1>6 DEF StackOK

LEMMA PushStack ==
    ASSUME NEW t, NEW a, NEW s, StackOK(t, a, s), NEW f, FrameOK(t, a, f)
    PROVE  /\ StackOK(t, a, Append(s, f)) /\ Len(Append(s, f)) = Len(s) + 1 /\ Append(s, f) # <<>>
           /\ Append(s, f)[Len(s) + 1] = f /\ \A i \in 1..Len(s) : Append(s, f)[i] = s[i]
           /\ Len(s) \in Nat
<1>1. s \in Seq(FrameType) /\ Len(s) \in Nat /\ f \in FrameType
  BY LenProperties DEF StackOK, FrameOK
<1>2. /\ Append(s, f) \in Seq(FrameType) /\ Len(Append(s, f)) = Len(s) + 1 /\ Append(s, f) # <<>>
      /\ \A i \in 1..Len(s) + 1 : Append(s, f)[i] = (IF i <= Len(s) THEN s[i] ELSE f)
  BY <1>1, AppendProperties
<1>3. /\ Append(s, f)[Len(s) + 1] = f /\ \A i \in 1..Len(s) : Append(s, f)[i] = s[i]
      /\ \A i \in 1..Len(s) + 1 : i \in 1..Len(s) \/ i = Len(s) + 1
  BY <1>1, <1>2
<1>4. \A i \in 1..Len(Append(s, f)) : FrameOK(t, a, Append(s, f)[i])
  BY <1>1, <1>2, <1>3 DEF StackOK
<1> QED
  BY <1>1, <1>2, <1>3, <1>4 DEF StackOK

\* A tree that grows keeps the nodes it has.
LEMMA GrowsAst ==
    ASSUME NEW t \in Seq(Token), NEW a, AstOK(t, a), NEW x, NodeOK(t, a, x, Len(a))
    PROVE  /\ AstOK(t, Append(a, x)) /\ Len(Append(a, x)) = Len(a) + 1 /\ Len(a) \in Nat
           /\ Append(a, x)[Len(a) + 1] = x /\ \A i \in 1..Len(a) : Append(a, x)[i] = a[i]
           /\ \A s : StackOK(t, a, s) => StackOK(t, Append(a, x), s)
<1>1. a \in Seq(NodeType) /\ Len(a) \in Nat /\ x \in NodeType
  BY LenProperties DEF AstOK, NodeOK
<1>2. /\ Append(a, x) \in Seq(NodeType) /\ Len(Append(a, x)) = Len(a) + 1
      /\ \A i \in 1..Len(a) + 1 : Append(a, x)[i] = (IF i <= Len(a) THEN a[i] ELSE x)
  BY <1>1, AppendProperties
<1>3. /\ Append(a, x)[Len(a) + 1] = x /\ \A i \in 1..Len(a) : Append(a, x)[i] = a[i]
      /\ \A i \in 1..Len(a) + 1 : i \in 1..Len(a) \/ i = Len(a) + 1
  BY <1>1, <1>2
<1>4. PICK b : b = Append(a, x)
  OBVIOUS
<1>5. ASSUME NEW y, NEW n \in 0..Len(a), NodeOK(t, a, y, n) PROVE NodeOK(t, b, y, n)
  <2>1. ASSUME y.kind = "function" PROVE b[y.kids[1]].kind \in Protos
    <3>1. Len(y.kids) = 2 /\ y.kids[1] # 0 /\ a[y.kids[1]].kind \in Protos
      BY <1>5, <2>1 DEF NodeOK
    <3>2. y.kids[1] \in 0..n
      BY <1>5, <3>1 DEF NodeOK, Within
    <3>3. y.kids[1] \in 1..Len(a)
      BY <1>1, <3>1, <3>2
    <3> QED
      BY <1>3, <1>4, <3>1, <3>3
  <2> QED
    BY <1>5, <2>1 DEF NodeOK
<1>6. AstOK(t, b)
  <2>1. ASSUME NEW i \in 1..Len(a) PROVE NodeOK(t, b, b[i], i - 1)
    BY <1>1, <1>3, <1>4, <1>5 DEF AstOK
  <2>2. NodeOK(t, b, b[Len(a) + 1], Len(a))
    BY <1>1, <1>3, <1>4, <1>5
  <2> QED
    BY <1>1, <1>2, <1>3, <1>4, <2>1, <2>2 DEF AstOK
<1>7. ASSUME NEW s, StackOK(t, a, s) PROVE StackOK(t, b, s)
  <2>1. ASSUME NEW f, FrameOK(t, a, f) PROVE FrameOK(t, b, f)
    <3>1. 0..Len(a) \subseteq 0..Len(b) /\ Len(b) # 0
      BY <1>1, <1>2, <1>4
    <3>2. Within(f.kids, 0..Len(b))
      BY <2>1, <3>1, WithinMono DEF FrameOK
    <3>3. f.fn = "def" => b[1] = a[1]
      <4>1. f.fn = "def" => 1 \in 1..Len(a)
        BY <1>1, <2>1 DEF FrameOK
      <4> QED
        BY <1>3, <1>4, <4>1
    <3> QED
      BY <2>1, <3>1, <3>2, <3>3 DEF FrameOK
  <2> QED
    BY <1>7, <2>1 DEF StackOK
<1> QED
  BY <1>1, <1>2, <1>3, <1>4, <1>6, <1>7

-----------------------------------------------------------------------------
\* What a step of the parser leaves: the pieces the actions are made of.
Going == phase # "return" \/ ret # 0

LEMMA Facts ==
    ASSUME ParserInv
    PROVE  /\ Len(text) \in Nat /\ Len(ast) \in Nat /\ ret \in 0..Len(ast)
           /\ pos \in 1..Len(text) + 1 /\ pos \in Nat
           /\ text \in Seq(Token) /\ ast \in Seq(NodeType)
           /\ Going => said = 0
           /\ StackOK(text, ast, stack) /\ AstOK(text, ast)
BY LenProperties DEF ParserInv, AstOK, Position, WorkOK, Going

LEMMA ParserKeeps ==
    ASSUME ParserInv, UNCHANGED <<text, table>>, pos' \in Position,
           phase' \in {"unary", "binop", "name", "return"}, ret' \in 0..Len(ast'),
           AstOK(text, ast'), StackOK(text, ast', stack'), WorkOK(phase', stack', ret', said')
    PROVE  ParserInv'
<1>1. Position' = Position
  BY DEF Position
<1>2. phase' \in {"idle", "unary", "binop", "name", "return"}
  OBVIOUS
<1>3. \A o \in DOMAIN table' : o \in Char /\ table'[o] \in 1..100
  BY Zenon DEF ParserInv
<1> QED
  BY <1>1, <1>2, <1>3 DEF ParserInv

LEMMA FailShape ==
    ASSUME ParserInv, UNCHANGED <<text, table>>, Going,
           NEW s, NEW p \in Position, StackOK(text, ast, s), Fail(s, p)
    PROVE  ParserInv'
<1>1. /\ pos' = p /\ stack' = s /\ ret' = 0 /\ phase' = "return" /\ said' = 1 /\ ast' = ast
  BY Facts DEF Fail, Return, Said
<1>2. WorkOK(phase', stack', ret', said')
  BY <1>1 DEF WorkOK
<1> QED
  BY <1>1, <1>2, Facts, ParserKeeps

LEMMA ReturnShape ==
    ASSUME ParserInv, UNCHANGED <<text, table>>, Going, pos' \in Position,
           NEW s, NEW n, n \in 1..Len(ast'), AstOK(text, ast'), StackOK(text, ast', s),
           Return(s, n), said' = said
    PROVE  ParserInv'
<1>1. /\ stack' = s /\ ret' = n /\ phase' = "return" /\ said' = 0 /\ ret' # 0
  BY Facts DEF Return
<1>2. WorkOK(phase', stack', ret', said')
  BY <1>1 DEF WorkOK
<1>3. ret' \in 0..Len(ast')
  BY <1>1, LenProperties DEF AstOK
<1> QED
  BY <1>1, <1>2, <1>3, ParserKeeps

LEMMA BuildShape ==
    ASSUME ParserInv, UNCHANGED <<text, table>>, Going,
           NEW s, NEW x, NEW p \in Position, StackOK(text, ast, s), Build(s, x, p),
           NodeOK(text, ast, [x EXCEPT !.to = p - 1], Len(ast))
    PROVE  ParserInv'
<1>1. PICK y : y = [x EXCEPT !.to = p - 1]
  OBVIOUS
<1>2. pos' = p /\ ast' = Append(ast, y) /\ Return(s, Len(ast) + 1) /\ said' = said
  BY <1>1 DEF Build
<1>3. NodeOK(text, ast, y, Len(ast))
  BY <1>1
<1>4. AstOK(text, ast') /\ StackOK(text, ast', s) /\ Len(ast) + 1 \in 1..Len(ast')
  BY <1>2, <1>3, Facts, GrowsAst
<1> QED
  BY <1>2, <1>4, ReturnShape

LEMMA NewFrameOK ==
    ASSUME NEW t \in Seq(Token), NEW a, NEW f \in Function, f \notin Climbs, f # "def",
           NEW p \in 1..Len(t) + 1
    PROVE  FrameOK(t, a, Frame(f, p))
<1>1. p \in Nat /\ Len(t) \in Nat
  BY LenProperties
<1>2. PICK g : g = Frame(f, p)
  OBVIOUS
<1>3. g.fn = f /\ g.at = p /\ g.op = 0 /\ g.names = <<>> /\ g.kids = <<>> /\ g \in FrameType
  BY <1>1, <1>2 DEF Frame, FrameType
<1>4. \A S : Within(<<>>, S)
  BY DEF Within
<1>5. g.fn \notin Climbs /\ g.fn # "operand" /\ g.fn # "merge" /\ g.fn # "def"
  BY <1>3 DEF Climbs
<1>6. FrameOK(t, a, g)
  BY <1>1, <1>3, <1>4, <1>5 DEF FrameOK
<1> QED
  BY <1>2, <1>6

LEMMA ExpressionShape ==
    ASSUME ParserInv, UNCHANGED <<text, table>>, Going,
           NEW s, NEW p \in Position, AstOK(text, ast'), StackOK(text, ast', s), ret \in 0..Len(ast'), Expression(s, p)
    PROVE  ParserInv'
<1>1. PICK f : f = Frame("expr", p)
  OBVIOUS
<1>2. pos' = p /\ stack' = Append(s, f) /\ phase' = "unary" /\ ret' = ret /\ said' = 0
  BY <1>1, Facts DEF Expression
<1>3. FrameOK(text, ast', f)
  BY <1>1, Facts, NewFrameOK DEF Function, Climbs, Position
<1>4. StackOK(text, ast', stack')
  BY <1>2, <1>3, PushStack
<1>5. WorkOK(phase', stack', ret', said')
  BY <1>2 DEF WorkOK
<1> QED
  BY <1>2, <1>4, <1>5, ParserKeeps

LEMMA ExpectsShape ==
    ASSUME ParserInv, UNCHANGED <<text, table>>, Got(Top.fn),
           NEW s, NEW w \in Inner, StackOK(text, ast, s), Expects(s, w)
    PROVE  ParserInv'
<1>1. Going /\ stack # <<>>
  BY DEF Got, Going
<1>2. StackOK(text, ast, Rest)
  BY <1>1, Facts, SplitStack
<1>3. pos \in Position
  BY DEF ParserInv
<1>4. CASE CurTok = w
  <2>1. pos + 1 \in Position
    BY <1>3, <1>4, Facts, InnerHere DEF CurTok
  <2>2. Expression(s, pos + 1) /\ ast' = ast
    BY <1>4 DEF Expects
  <2> QED
    BY <1>1, <2>1, <2>2, Facts, ExpressionShape
<1>5. CASE CurTok # w
  <2>1. Fail(Rest, pos)
    BY <1>5 DEF Expects
  <2> QED
    BY <1>1, <1>2, <1>3, <2>1, FailShape
<1> QED
  BY <1>4, <1>5

LEMMA NewNodeOK ==
    ASSUME NEW t \in Seq(Token), NEW a, NEW n \in Nat, NEW k \in Kind \ (Protos \cup {"function"}),
           NEW p \in 1..Len(t) + 1, NEW q \in 1..Len(t) + 1, NEW ns \in Seq(Nat), NEW ks \in Seq(Nat),
           Within(ns, 1..Len(t)), Within(ks, 0..n), NEW z \in Int
    PROVE  NodeOK(t, a, [Node(k, p, q, ns, ks) EXCEPT !.to = z], n)
<1>1. p \in Nat /\ q \in Nat
  BY LenProperties
<1>2. PICK x : x = [Node(k, p, q, ns, ks) EXCEPT !.to = z]
  OBVIOUS
<1>3. /\ x.kind = k /\ x.at = p /\ x.names = ns /\ x.kids = ks /\ x.prec = 0
  BY <1>2 DEF Node
<1>4. x \in NodeType
  BY <1>1, <1>2 DEF Node, NodeType
<1>5. x.kind \notin Protos /\ x.kind # "function"
  BY <1>3
<1>6. NodeOK(t, a, x, n)
  BY <1>3, <1>4, <1>5 DEF NodeOK
<1> QED
  BY <1>2, <1>6

LEMMA WithKidOK ==
    ASSUME ParserInv, stack # <<>>, Top.fn \notin Climbs, Top.fn # "def"
    PROVE  /\ FrameOK(text, ast, WithKid) /\ WithKid.kids \in Seq(Nat)
           /\ Within(WithKid.kids, 0..Len(ast)) /\ Len(WithKid.kids) = Len(Top.kids) + 1
           /\ WithKid.fn = Top.fn /\ WithKid.names = Top.names /\ WithKid.at = Top.at
           /\ Top.at \in 1..Len(text) + 1 /\ Top.names \in Seq(Nat) /\ Within(Top.names, 1..Len(text))
<1>1. FrameOK(text, ast, Top) /\ Top \in FrameType
  BY Facts, SplitStack
<1>2. PICK ks : ks = Append(Top.kids, ret)
  OBVIOUS
<1>3. ks \in Seq(Nat) /\ Within(ks, 0..Len(ast)) /\ Len(ks) = Len(Top.kids) + 1
  <2>1. Top.kids \in Seq(Nat) /\ Within(Top.kids, 0..Len(ast)) /\ ret \in Nat /\ ret \in 0..Len(ast)
    BY <1>1, Facts DEF FrameOK, FrameType
  <2> QED
    BY <1>2, <2>1, WithinAppend
<1>4. WithKid = [Top EXCEPT !.kids = ks]
  BY <1>2 DEF WithKid
<1>5. WithKid \in FrameType
  BY <1>1, <1>3, <1>4 DEF FrameType
<1>6. /\ WithKid.kids = ks /\ WithKid.fn = Top.fn /\ WithKid.names = Top.names
      /\ WithKid.at = Top.at /\ WithKid.op = Top.op
  BY <1>1, <1>4 DEF FrameType
<1>7. FrameOK(text, ast, WithKid)
  BY <1>1, <1>3, <1>5, <1>6 DEF FrameOK, Climbs
<1> QED
  BY <1>1, <1>3, <1>6, <1>7 DEF FrameOK, FrameType

-----------------------------------------------------------------------------
\* Every step of the parser keeps the first invariant and reads tokens of the construct
\* only.
Good == ParserInv' /\ Steps(pos, pos')
Here == ParserInv /\ UNCHANGED <<text, table>>

LEMMA NoLists == <<>> \in Seq(Nat) /\ Len(<<>>) = 0 /\ \A S : Within(<<>>, S)
BY DEF Within

LEMMA NumberShape == ASSUME Here, ParseNumber PROVE Good
<1>1. Going /\ ParserInv /\ UNCHANGED <<text, table>>
  BY DEF ParseNumber, Going, Here
<1>2. Tok(pos) \in Inner
  BY InnerWords, Zenon DEF ParseNumber, CurTok
<1>3. pos \in 1..Len(text) /\ pos + 1 \in Position /\ Steps(pos, pos + 1) /\ pos \in Position
  BY <1>1, <1>2, InnerHere DEF ParserInv
<1>4. Build(stack, Node("number", pos, pos, <<>>, <<>>), pos + 1)
  BY DEF ParseNumber
<1>5. NodeOK(text, ast, [Node("number", pos, pos, <<>>, <<>>) EXCEPT !.to = (pos + 1) - 1], Len(ast))
  <2>1. "number" \in Kind \ (Protos \cup {"function"})
    BY DEF Kind, Protos
  <2>2. pos \in 1..Len(text) + 1 /\ (pos + 1) - 1 \in Int /\ text \in Seq(Token) /\ Len(ast) \in Nat
    BY <1>1, <1>3, Facts
  <2>3. Within(<<>>, 1..Len(text)) /\ Within(<<>>, 0..Len(ast)) /\ <<>> \in Seq(Nat)
    BY NoLists
  <2> QED
    BY <2>1, <2>2, <2>3, NewNodeOK
<1>6. ParserInv'
  BY <1>1, <1>3, <1>4, <1>5, Facts, BuildShape
<1> QED
  BY <1>3, <1>4, <1>6 DEF Good, Build

LEMMA WaitShape ==
    ASSUME Here, phase = "unary", NEW f, FrameOK(text, ast, f), NEW p, Steps(pos, p), Wait(f, p)
    PROVE  Good
<1>1. Going /\ ParserInv /\ UNCHANGED <<text, table>> /\ p \in Position
  BY DEF Here, Going, Steps
<1>2. PICK s : s = Append(stack, f)
  OBVIOUS
<1>3. Expression(s, p) /\ ast' = ast
  BY <1>2 DEF Wait
<1>4. StackOK(text, ast', s) /\ AstOK(text, ast')
  BY <1>1, <1>2, <1>3, Facts, PushStack
<1>5. ret \in 0..Len(ast')
  BY <1>1, <1>3, Facts
<1>6. ParserInv'
  BY <1>1, <1>3, <1>4, <1>5, ExpressionShape
<1> QED
  BY <1>3, <1>6 DEF Good, Expression

\* A function that begins with a certain word and calls parseExpression behind it.
LEMMA WordShape ==
    ASSUME Here, phase = "unary", CurTok \in Inner,
           NEW f \in Function, f \notin Climbs, f # "def", Wait(Frame(f, pos), pos + 1)
    PROVE  Good
<1>1. ParserInv /\ pos \in 1..Len(text) + 1 /\ pos \in Position /\ text \in Seq(Token)
  BY Facts DEF Here, ParserInv
<1>2. Steps(pos, pos + 1)
  BY <1>1, InnerHere DEF CurTok
<1>3. FrameOK(text, ast, Frame(f, pos))
  BY <1>1, NewFrameOK
<1> QED
  BY <1>2, <1>3, WaitShape

LEMMA ParenShape == ASSUME Here, ParseParen PROVE Good
<1>1. phase = "unary" /\ CurTok \in Inner /\ Wait(Frame("paren", pos), pos + 1)
  BY InnerWords, Zenon DEF ParseParen, At
<1>2. "paren" \in Function /\ "paren" \notin Climbs
  BY DEF Function, Climbs
<1> QED
  BY <1>1, <1>2, WordShape

LEMMA IfShape == ASSUME Here, ParseIf PROVE Good
<1>1. phase = "unary" /\ CurTok \in Inner /\ Wait(Frame("if", pos), pos + 1)
  BY InnerWords, Zenon DEF ParseIf, At
<1>2. "if" \in Function /\ "if" \notin Climbs
  BY DEF Function, Climbs
<1> QED
  BY <1>1, <1>2, WordShape

\* What a function that gets a part back finds.
LEMMA GotFacts ==
    ASSUME Here, NEW f, Got(f)
    PROVE  /\ ParserInv /\ UNCHANGED <<text, table>> /\ Going /\ stack # <<>> /\ Top.fn = f
           /\ ret \in 1..Len(ast) /\ pos \in Position /\ Steps(pos, pos)
           /\ StackOK(text, ast, Rest) /\ FrameOK(text, ast, Top) /\ Top \in FrameType
<1>1. ParserInv /\ UNCHANGED <<text, table>> /\ Going /\ stack # <<>> /\ Top.fn = f
  BY DEF Here, Got, Going
<1>2. ret \in 1..Len(ast)
  BY <1>1, Facts DEF Got
<1>3. pos \in Position /\ Steps(pos, pos)
  BY <1>1, StepsStay DEF ParserInv
<1> QED
  BY <1>1, <1>2, <1>3, Facts, SplitStack

LEMMA FailGood ==
    ASSUME Here, Going, NEW s, StackOK(text, ast, s), NEW p, Steps(pos, p), Fail(s, p)
    PROVE  Good
<1>1. ParserInv /\ UNCHANGED <<text, table>> /\ p \in Position
  BY DEF Here, Steps
<1>2. ParserInv'
  BY <1>1, FailShape
<1> QED
  BY <1>2 DEF Good, Fail

LEMMA BuildGood ==
    ASSUME Here, Going, NEW s, NEW x, NEW p, Steps(pos, p), StackOK(text, ast, s), Build(s, x, p),
           NodeOK(text, ast, [x EXCEPT !.to = p - 1], Len(ast))
    PROVE  Good
<1>1. ParserInv /\ UNCHANGED <<text, table>> /\ p \in Position
  BY DEF Here, Steps
<1>2. ParserInv'
  BY <1>1, BuildShape
<1> QED
  BY <1>2 DEF Good, Build

LEMMA ExpressionGood ==
    ASSUME Here, Going, NEW s, NEW p, Steps(pos, p), StackOK(text, ast, s),
           Expression(s, p), ast' = ast
    PROVE  Good
<1>1. ParserInv /\ UNCHANGED <<text, table>> /\ p \in Position
  BY DEF Here, Steps
<1>2. StackOK(text, ast', s) /\ AstOK(text, ast') /\ ret \in 0..Len(ast')
  BY <1>1, Facts
<1>3. ParserInv'
  BY <1>1, <1>2, ExpressionShape
<1> QED
  BY <1>3 DEF Good, Expression

LEMMA ExpectsGood ==
    ASSUME Here, Got(Top.fn), NEW s, NEW w \in Inner, StackOK(text, ast, s), Expects(s, w)
    PROVE  Good
<1>1. ParserInv /\ UNCHANGED <<text, table>> /\ pos \in Position /\ Steps(pos, pos)
  BY GotFacts
<1>2. ParserInv'
  BY <1>1, ExpectsShape
<1>3. CASE CurTok = w
  <2>1. Steps(pos, pos + 1)
    BY <1>1, <1>3, Facts, InnerHere DEF CurTok
  <2> QED
    BY <1>2, <1>3, <2>1 DEF Good, Expects, Expression
<1>4. CASE CurTok # w
  BY <1>1, <1>2, <1>4 DEF Good, Expects, Fail
<1> QED
  BY <1>3, <1>4

LEMMA CloseParenShape == ASSUME Here, CloseParen PROVE Good
<1>1. Got("paren")
  BY DEF CloseParen
<1>2. /\ ParserInv /\ UNCHANGED <<text, table>> /\ Going /\ ret \in 1..Len(ast) /\ pos \in Position
      /\ Steps(pos, pos) /\ StackOK(text, ast, Rest)
  BY <1>1, GotFacts
<1>3. CASE CurTok = ")"
  <2>1. CurTok \in Inner
    BY <1>3, InnerWords, Zenon
  <2>2. Steps(pos, pos + 1) /\ pos + 1 \in Position
    BY <1>2, <2>1, Facts, InnerHere DEF CurTok
  <2>3. pos' = pos + 1 /\ Return(Rest, ret) /\ UNCHANGED <<ast, said>>
    BY <1>3 DEF CloseParen
  <2>4. ParserInv'
    BY <1>2, <2>2, <2>3, Facts, ReturnShape
  <2> QED
    BY <2>2, <2>3, <2>4 DEF Good
<1>4. CASE CurTok # ")"
  <2>1. Fail(Rest, pos)
    BY <1>4 DEF CloseParen
  <2> QED
    BY <1>2, <2>1, FailGood
<1> QED
  BY <1>3, <1>4

LEMMA IdentifierShape == ASSUME Here, ParseIdentifier PROVE Good
<1>1. ParserInv /\ Going /\ phase = "unary" /\ text \in Seq(Token)
  BY Facts DEF Here, ParseIdentifier, Going
<1>2. Tok(pos) \in Inner
  BY InnerWords, Zenon DEF ParseIdentifier, CurTok
<1>3. pos \in 1..Len(text) /\ pos + 1 \in Position /\ Steps(pos, pos + 1) /\ pos \in Position
  BY <1>1, <1>2, InnerHere DEF ParserInv
<1>4. StackOK(text, ast, stack) /\ Len(ast) \in Nat
  BY <1>1, Facts
<1>5. ASSUME NEW k \in {"variable", "call"}, NEW ns \in {<<pos>>}, NEW p \in Position
      PROVE  NodeOK(text, ast, [Node(k, pos, pos, ns, <<>>) EXCEPT !.to = p - 1], Len(ast))
  <2>1. k \in Kind \ (Protos \cup {"function"})
    BY DEF Kind, Protos
  <2>2. ns \in Seq(Nat) /\ Within(ns, 1..Len(text))
    <3>1. pos \in Nat
      BY <1>3
    <3> QED
      BY <1>3, <3>1, WithinOne
  <2>3. pos \in 1..Len(text) + 1 /\ p - 1 \in Int
    BY <1>3 DEF Position
  <2> QED
    BY <1>1, <1>4, <2>1, <2>2, <2>3, NoLists, NewNodeOK
<1>6. CASE Build(stack, Node("variable", pos, pos, <<pos>>, <<>>), pos + 1)
  BY <1>1, <1>3, <1>4, <1>5, <1>6, BuildGood
<1>7. ASSUME Tok(pos + 1) = "(" PROVE Steps(pos, pos + 2) /\ pos + 2 \in Position
  <2>1. Tok(pos + 1) \in Inner
    BY <1>7, InnerWords, Zenon
  <2>2. (pos + 1) + 1 \in Position /\ Steps(pos + 1, (pos + 1) + 1)
    BY <1>1, <1>3, <2>1, InnerHere
  <2>3. (pos + 1) + 1 = pos + 2
    BY <1>3
  <2> QED
    BY <1>1, <1>3, <2>2, <2>3, StepsOn
<1>8. CASE /\ Tok(pos + 1) = "(" /\ Tok((pos + 1) + 1) = ")"
           /\ Build(stack, Node("call", pos, pos, <<pos>>, <<>>), (pos + 1) + 2)
  <2>1. (pos + 1) + 1 = pos + 2 /\ (pos + 1) + 2 = (pos + 2) + 1
    BY <1>3
  <2>2. Tok(pos + 2) \in Inner
    BY <1>8, <2>1, InnerWords, Zenon
  <2>3. (pos + 2) + 1 \in Position /\ Steps(pos + 2, (pos + 2) + 1)
    BY <1>1, <1>7, <1>8, <2>2, InnerHere
  <2>4. Steps(pos, (pos + 2) + 1)
    BY <1>1, <1>3, <1>7, <1>8, <2>3, StepsOn
  <2> QED
    BY <1>1, <1>4, <1>5, <1>8, <2>1, <2>3, <2>4, BuildGood
<1>9. CASE /\ Tok(pos + 1) = "("
           /\ Wait([Frame("call", pos) EXCEPT !.names = <<pos>>], (pos + 1) + 1)
  <2>1. (pos + 1) + 1 = pos + 2
    BY <1>3
  <2>2. PICK f : f = Frame("call", pos)
    OBVIOUS
  <2>3. FrameOK(text, ast, f) /\ f.fn = "call"
    BY <1>1, <1>3, <2>2, NewFrameOK DEF Frame, Function, Climbs, Position
  <2>4. PICK ns : ns = <<pos>>
    OBVIOUS
  <2>5. ns \in Seq(Nat) /\ Within(ns, 1..Len(text))
    <3>1. pos \in Nat
      BY <1>3
    <3> QED
      BY <1>3, <2>4, <3>1, WithinOne
  <2>6. FrameOK(text, ast, [f EXCEPT !.names = ns])
    BY <2>3, <2>5 DEF FrameOK, FrameType, Climbs
  <2> QED
    BY <1>1, <1>7, <1>9, <2>1, <2>2, <2>4, <2>6, WaitShape
<1> QED
  BY <1>6, <1>8, <1>9 DEF ParseIdentifier

-----------------------------------------------------------------------------
\* What a function does with a part it waited for.
\* A node of what a function has collected.
LEMMA CollectShape ==
    ASSUME Here, NEW f, Got(f), f \notin Climbs, f # "def", NEW k \in Kind \ (Protos \cup {"function"}),
           NEW p, Steps(pos, p), Build(Rest, Node(k, Top.at, Top.at, Top.names, WithKid.kids), p)
    PROVE  Good
<1>1. ParserInv /\ Going /\ stack # <<>> /\ Top.fn = f /\ StackOK(text, ast, Rest)
  BY GotFacts
<1>2. /\ WithKid.kids \in Seq(Nat) /\ Within(WithKid.kids, 0..Len(ast))
      /\ Top.at \in 1..Len(text) + 1 /\ Top.names \in Seq(Nat) /\ Within(Top.names, 1..Len(text))
  BY <1>1, WithKidOK
<1>3. text \in Seq(Token) /\ Len(ast) \in Nat /\ p - 1 \in Int
  BY <1>1, Facts DEF Steps, Position
<1>4. NodeOK(text, ast, [Node(k, Top.at, Top.at, Top.names, WithKid.kids) EXCEPT !.to = p - 1], Len(ast))
  BY <1>2, <1>3, NewNodeOK
<1> QED
  BY <1>1, <1>4, BuildGood

\* The same of a node without names.
LEMMA CollectParts ==
    ASSUME Here, NEW f, Got(f), f \notin Climbs, f # "def", NEW k \in Kind \ (Protos \cup {"function"}),
           NEW p, Steps(pos, p), Build(Rest, Node(k, Top.at, Top.at, <<>>, WithKid.kids), p)
    PROVE  Good
<1>1. ParserInv /\ Going /\ stack # <<>> /\ Top.fn = f /\ StackOK(text, ast, Rest)
  BY GotFacts
<1>2. /\ WithKid.kids \in Seq(Nat) /\ Within(WithKid.kids, 0..Len(ast))
      /\ Top.at \in 1..Len(text) + 1
  BY <1>1, WithKidOK
<1>3. text \in Seq(Token) /\ Len(ast) \in Nat /\ p - 1 \in Int
  BY <1>1, Facts DEF Steps, Position
<1>4. Within(<<>>, 1..Len(text)) /\ <<>> \in Seq(Nat)
  BY NoLists
<1>5. NodeOK(text, ast, [Node(k, Top.at, Top.at, <<>>, WithKid.kids) EXCEPT !.to = p - 1], Len(ast))
  BY <1>2, <1>3, <1>4, NewNodeOK
<1> QED
  BY <1>1, <1>5, BuildGood

\* The next part follows a certain word.
LEMMA AnotherPart ==
    ASSUME Here, NEW f, Got(f), f \notin Climbs, f # "def", NEW w \in Inner,
           Expects(Append(Rest, WithKid), w)
    PROVE  Good
<1>1. ParserInv /\ stack # <<>> /\ Top.fn = f /\ StackOK(text, ast, Rest)
  BY GotFacts
<1>2. FrameOK(text, ast, WithKid)
  BY <1>1, WithKidOK
<1>3. StackOK(text, ast, Append(Rest, WithKid))
  BY <1>1, <1>2, PushStack
<1> QED
  BY <1>1, <1>3, ExpectsGood

LEMMA CallArgumentShape == ASSUME Here, CallArgument PROVE Good
<1>1. PICK f : f = "call"
  OBVIOUS
<1>2. Got(f) /\ f \notin Climbs /\ f # "def" /\ "call" \in Kind \ (Protos \cup {"function"})
  <2>1. Got(f)
    BY <1>1, Zenon DEF CallArgument
  <2>2. f \notin Climbs /\ f # "def"
    BY <1>1 DEF Climbs
  <2>3. "call" \in Kind \ (Protos \cup {"function"})
    BY DEF Kind, Protos
  <2> QED
    BY <2>1, <2>2, <2>3
<1>3. ParserInv /\ pos \in Position /\ text \in Seq(Token)
  BY <1>2, GotFacts DEF ParserInv
<1>4. CASE CurTok = ")"
  <2>1. Tok(pos) \in Inner
    BY <1>4, InnerWords, Zenon DEF CurTok
  <2>2. Steps(pos, pos + 1)
    BY <1>3, <2>1, InnerHere
  <2>3. Build(Rest, Node("call", Top.at, Top.at, Top.names, WithKid.kids), pos + 1)
    BY <1>4 DEF CallArgument
  <2> QED
    BY <1>2, <2>2, <2>3, CollectShape
<1>5. CASE CurTok # ")"
  <2>1. PICK w : w = "," /\ w \in Inner
    BY InnerWords, Zenon
  <2>2. Expects(Append(Rest, WithKid), w)
    BY <1>5, <2>1, Zenon DEF CallArgument
  <2> QED
    BY <1>2, <2>1, <2>2, AnotherPart, Zenon
<1> QED
  BY <1>4, <1>5

LEMMA IfPartShape == ASSUME Here, IfPart PROVE Good
<1>1. PICK f : f = "if"
  OBVIOUS
<1>2. Got(f) /\ f \notin Climbs /\ f # "def" /\ "if" \in Kind \ (Protos \cup {"function"})
  <2>1. Got(f)
    BY <1>1, Zenon DEF IfPart
  <2>2. f \notin Climbs /\ f # "def"
    BY <1>1 DEF Climbs
  <2>3. "if" \in Kind \ (Protos \cup {"function"})
    BY DEF Kind, Protos
  <2> QED
    BY <2>1, <2>2, <2>3
<1>3. Steps(pos, pos)
  BY <1>2, GotFacts
<1>4. CASE Len(WithKid.kids) = 3
  <2>1. Build(Rest, Node("if", Top.at, Top.at, <<>>, WithKid.kids), pos)
    BY <1>4 DEF IfPart
  <2> QED
    BY <1>2, <1>3, <2>1, CollectParts
<1>5. CASE Len(WithKid.kids) # 3
  <2>1. PICK w : w = IF Top.kids = <<>> THEN "then" ELSE "else"
    OBVIOUS
  <2>2. Expects(Append(Rest, WithKid), w)
    BY <1>5, <2>1 DEF IfPart
  <2>3. w \in Inner
    BY <2>1, InnerWords, Zenon
  <2> QED
    BY <1>2, <2>2, <2>3, AnotherPart
<1> QED
  BY <1>4, <1>5

LEMMA ForShape == ASSUME Here, ParseFor PROVE Good
<1>1. ParserInv /\ Going /\ phase = "unary" /\ text \in Seq(Token) /\ CurTok = "for"
  BY Facts DEF Here, ParseFor, At, Going
<1>2. Tok(pos) \in Inner
  BY <1>1, InnerWords, Zenon DEF CurTok
<1>3. pos \in 1..Len(text) /\ pos + 1 \in Position /\ Steps(pos, pos + 1) /\ pos \in Position
  BY <1>1, <1>2, InnerHere DEF ParserInv
<1>4. StackOK(text, ast, stack)
  BY <1>1, Facts
<1>5. CASE Fail(stack, pos + 1)
  BY <1>1, <1>3, <1>4, <1>5, FailGood
<1>6. ASSUME Tok(pos + 1) \in Ident
      PROVE  pos + 1 \in 1..Len(text) /\ pos + 2 \in Position /\ Steps(pos, pos + 2)
  <2>1. Tok(pos + 1) \in Inner
    BY <1>6, InnerWords, Zenon
  <2>2. /\ pos + 1 \in 1..Len(text) /\ (pos + 1) + 1 \in Position
        /\ Steps(pos + 1, (pos + 1) + 1)
    BY <1>1, <1>3, <2>1, InnerHere
  <2>3. (pos + 1) + 1 = pos + 2
    BY <1>3
  <2> QED
    BY <1>1, <1>3, <2>2, <2>3, StepsOn
<1>7. CASE Tok(pos + 1) \in Ident /\ Fail(stack, (pos + 1) + 1)
  <2>1. (pos + 1) + 1 = pos + 2
    BY <1>3
  <2> QED
    BY <1>1, <1>4, <1>6, <1>7, <2>1, FailGood
<1>8. CASE /\ Tok(pos + 1) \in Ident /\ Tok((pos + 1) + 1) = "="
           /\ Wait([Frame("for", pos) EXCEPT !.names = <<pos + 1>>], (pos + 1) + 2)
  <2>1. (pos + 1) + 1 = pos + 2 /\ (pos + 1) + 2 = (pos + 2) + 1 /\ pos + 1 \in Nat
    BY <1>3
  <2>2. Tok(pos + 2) \in Inner
    BY <1>8, <2>1, InnerWords, Zenon
  <2>3. Steps(pos + 2, (pos + 2) + 1)
    BY <1>1, <1>6, <1>8, <2>2, InnerHere
  <2>4. Steps(pos, (pos + 2) + 1)
    BY <1>1, <1>3, <1>6, <1>8, <2>3, StepsOn
  <2>5. PICK f, ns : f = Frame("for", pos) /\ ns = <<pos + 1>>
    OBVIOUS
  <2>6. FrameOK(text, ast, f) /\ f.fn = "for"
    BY <1>1, <1>3, <2>5, NewFrameOK DEF Frame, Function, Climbs, Position
  <2>7. ns \in Seq(Nat) /\ Within(ns, 1..Len(text))
    BY <1>6, <1>8, <2>1, <2>5, WithinOne
  <2>8. FrameOK(text, ast, [f EXCEPT !.names = ns])
    BY <2>6, <2>7 DEF FrameOK, FrameType, Climbs
  <2> QED
    BY <1>1, <1>8, <2>1, <2>4, <2>5, <2>8, WaitShape
<1> QED
  BY <1>5, <1>7, <1>8 DEF ParseFor

LEMMA SkipOK ==
    ASSUME ParserInv, stack # <<>>, Top.fn \notin Climbs, Top.fn # "def"
    PROVE  FrameOK(text, ast, [WithKid EXCEPT !.kids = NullStep(@)])
<1>1. /\ FrameOK(text, ast, WithKid) /\ WithKid.kids \in Seq(Nat)
      /\ Within(WithKid.kids, 0..Len(ast)) /\ WithKid.fn = Top.fn
  BY WithKidOK
<1>2. PICK ks : ks = Append(WithKid.kids, 0)
  OBVIOUS
<1>3. ks \in Seq(Nat) /\ Within(ks, 0..Len(ast))
  <2>1. 0 \in Nat /\ 0 \in 0..Len(ast)
    BY Facts
  <2> QED
    BY <1>1, <1>2, <2>1, WithinAppend
<1>4. PICK f : f = WithKid
  OBVIOUS
<1>5. [WithKid EXCEPT !.kids = NullStep(@)] = [f EXCEPT !.kids = ks]
  BY <1>2, <1>4 DEF NullStep
<1>6. FrameOK(text, ast, [f EXCEPT !.kids = ks])
  BY <1>1, <1>3, <1>4 DEF FrameOK, FrameType, Climbs
<1> QED
  BY <1>5, <1>6

LEMMA ForPartShape == ASSUME Here, ForPart PROVE Good
<1>1. PICK f : f = "for"
  OBVIOUS
<1>2. Got(f) /\ f \notin Climbs /\ f # "def" /\ "for" \in Kind \ (Protos \cup {"function"})
  <2>1. Got(f)
    BY <1>1, Zenon DEF ForPart
  <2>2. f \notin Climbs /\ f # "def"
    BY <1>1 DEF Climbs
  <2>3. "for" \in Kind \ (Protos \cup {"function"})
    BY DEF Kind, Protos
  <2> QED
    BY <2>1, <2>2, <2>3
<1>3. ParserInv /\ Steps(pos, pos) /\ stack # <<>> /\ StackOK(text, ast, Rest) /\ Top.fn = f
  BY <1>2, GotFacts
<1>4. PICK comma, in : comma = "," /\ in = "in" /\ comma \in Inner /\ in \in Inner
  BY InnerWords, Zenon
<1>5. CASE Expects(Append(Rest, WithKid), comma)
  BY <1>2, <1>4, <1>5, AnotherPart, Zenon
<1>6. CASE Expects(Append(Rest, WithKid), in)
  BY <1>2, <1>4, <1>6, AnotherPart, Zenon
<1>7. CASE Expects(Append(Rest, [WithKid EXCEPT !.kids = NullStep(@)]), in)
  <2>1. PICK g : g = [WithKid EXCEPT !.kids = NullStep(@)]
    OBVIOUS
  <2>2. FrameOK(text, ast, g)
    BY <1>2, <1>3, <2>1, SkipOK
  <2>3. StackOK(text, ast, Append(Rest, g))
    BY <1>3, <2>2, PushStack
  <2>4. Expects(Append(Rest, g), in) /\ Got(Top.fn)
    BY <1>2, <1>3, <1>7, <2>1
  <2> QED
    BY <1>4, <2>3, <2>4, ExpectsGood, Zenon
<1>8. CASE Build(Rest, Node("for", Top.at, Top.at, Top.names, WithKid.kids), pos)
  BY <1>2, <1>3, <1>8, CollectShape
<1> QED
  <2>1. \/ Expects(Append(Rest, WithKid), ",")
        \/ Expects(Append(Rest, [WithKid EXCEPT !.kids = NullStep(@)]), "in")
        \/ Expects(Append(Rest, WithKid), "in")
        \/ Build(Rest, Node("for", Top.at, Top.at, Top.names, WithKid.kids), pos)
    BY Zenon DEF ForPart
  <2> QED
    BY <1>4, <1>5, <1>6, <1>7, <1>8, <2>1, Zenon

-----------------------------------------------------------------------------
\* Variables of a `var`.
\* A step that goes on in the same construct without a node.
LEMMA GoesOn ==
    ASSUME Here, Going, NEW p, Steps(pos, p), pos' = p, NEW s, NEW f,
           StackOK(text, ast, s), FrameOK(text, ast, f), stack' = Append(s, f),
           \/ phase' = "name" /\ f.fn = "var"
           \/ phase' = "binop" /\ f.fn = "rhs"
           \/ phase' = "unary",
           UNCHANGED <<ret, ast, said>>
    PROVE  Good
<1>1. ParserInv /\ UNCHANGED <<text, table>> /\ p \in Position
  BY DEF Here, Steps
<1>2. /\ StackOK(text, ast', stack') /\ stack' # <<>> /\ stack'[Len(stack')] = f
  BY <1>1, PushStack
<1>3. said' = 0 /\ ret' \in 0..Len(ast') /\ AstOK(text, ast')
  BY <1>1, Facts
<1>4. phase' \in {"unary", "binop", "name"}
  OBVIOUS
<1>5. WorkOK(phase', stack', ret', said')
  BY <1>2, <1>3 DEF WorkOK
<1>6. ParserInv'
  BY <1>1, <1>2, <1>3, <1>4, <1>5, ParserKeeps
<1> QED
  BY <1>6 DEF Good

LEMMA VarShape == ASSUME Here, ParseVar PROVE Good
<1>1. ParserInv /\ Going /\ CurTok = "var"
  BY DEF Here, ParseVar, At, Going
<1>2. Tok(pos) \in Inner
  BY <1>1, InnerWords, Zenon DEF CurTok
<1>3. Steps(pos, pos + 1) /\ pos \in 1..Len(text) + 1 /\ text \in Seq(Token)
  BY <1>1, <1>2, Facts, InnerHere DEF ParserInv
<1>4. PICK f : f = Frame("var", pos)
  OBVIOUS
<1>5. FrameOK(text, ast, f) /\ f.fn = "var"
  BY <1>3, <1>4, NewFrameOK DEF Frame, Function, Climbs
<1>6. /\ pos' = pos + 1 /\ phase' = "name" /\ stack' = Append(stack, f)
      /\ UNCHANGED <<ret, ast, said>>
  BY <1>4 DEF ParseVar
<1> QED
  BY <1>1, <1>3, <1>5, <1>6, Facts, GoesOn

LEMMA VarListShape ==
    ASSUME Here, Going, stack # <<>>, NEW f, FrameOK(text, ast, f), f.fn = "var",
           NEW p, Steps(pos, p), VarList(f, p)
    PROVE  Good
<1>1. /\ ParserInv /\ StackOK(text, ast, Rest) /\ text \in Seq(Token)
      /\ p \in Position /\ pos \in Position
  BY Facts, SplitStack DEF Here, Steps, ParserInv
<1>2. ASSUME Tok(p) \in {",", "in"} PROVE Steps(pos, p + 1)
  <2>1. Tok(p) \in Inner
    BY <1>2, InnerWords, Zenon
  <2>2. Steps(p, p + 1)
    BY <1>1, <2>1, InnerHere
  <2> QED
    BY <1>1, <2>2, StepsOn
<1>3. CASE /\ Tok(p) = "," /\ stack' = Append(Rest, f) /\ phase' = "name" /\ pos' = p + 1
           /\ UNCHANGED <<ret, ast, said>>
  <2>1. Steps(pos, p + 1)
    BY <1>2, <1>3, Zenon
  <2>2. /\ stack' = Append(Rest, f) /\ phase' = "name" /\ pos' = p + 1
        /\ UNCHANGED <<ret, ast, said>>
    BY <1>3, Zenon
  <2> QED
    BY <1>1, <2>1, <2>2, GoesOn
<1>4. CASE /\ Tok(p) = "in" /\ Expression(Append(Rest, [f EXCEPT !.fn = "varbody"]), p + 1)
           /\ UNCHANGED ast
  <2>1. Steps(pos, p + 1)
    BY <1>2, <1>4
  <2>2. PICK g : g = [f EXCEPT !.fn = "varbody"]
    OBVIOUS
  <2>3. FrameOK(text, ast, g)
    BY <2>2 DEF FrameOK, FrameType, Function, Climbs
  <2>4. StackOK(text, ast, Append(Rest, g))
    BY <1>1, <2>3, PushStack
  <2>5. Expression(Append(Rest, g), p + 1) /\ ast' = ast
    BY <1>4, <2>2
  <2> QED
    BY <2>1, <2>4, <2>5, ExpressionGood
<1>5. CASE Fail(Rest, p)
  BY <1>1, <1>5, FailGood
<1> QED
  BY <1>3, <1>4, <1>5, Zenon DEF VarList

LEMMA VarNameShape == ASSUME Here, VarName PROVE Good
<1>1. ParserInv /\ Going /\ stack # <<>> /\ Top.fn = "var"
  BY DEF Here, VarName, Going, ParserInv, WorkOK, Top
<1>2. StackOK(text, ast, Rest) /\ FrameOK(text, ast, Top) /\ Top \in FrameType
  BY <1>1, Facts, SplitStack
<1>3. text \in Seq(Token) /\ pos \in Position /\ Steps(pos, pos)
  BY <1>1, Facts, StepsStay DEF ParserInv
<1>4. CASE Fail(Rest, pos)
  BY <1>1, <1>2, <1>3, <1>4, FailGood
<1>5. PICK g : g = [Top EXCEPT !.names = Append(@, pos)]
  OBVIOUS
<1>6. ASSUME CurTok \in Ident PROVE Steps(pos, pos + 1) /\ pos \in 1..Len(text) /\ pos + 1 \in Position
  <2>1. Tok(pos) \in Inner
    BY <1>6, InnerWords, Zenon DEF CurTok
  <2> QED
    BY <1>3, <2>1, InnerHere
<1>7. ASSUME CurTok \in Ident PROVE FrameOK(text, ast, g) /\ g.fn = "var"
  <2>1. PICK ns : ns = Append(Top.names, pos)
    OBVIOUS
  <2>2. ns \in Seq(Nat) /\ Within(ns, 1..Len(text))
    <3>1. pos \in Nat /\ Top.names \in Seq(Nat) /\ Within(Top.names, 1..Len(text))
      BY <1>1, <1>2, Facts DEF FrameOK, FrameType
    <3> QED
      BY <1>6, <1>7, <2>1, <3>1, WithinAppend
  <2>3. g = [Top EXCEPT !.names = ns]
    BY <1>5, <2>1
  <2> QED
    BY <1>1, <1>2, <2>2, <2>3 DEF FrameOK, FrameType, Climbs
<1>8. CASE CurTok \in Ident /\ Tok(pos + 1) = "=" /\ Expression(Append(Rest, g), pos + 2) /\ UNCHANGED ast
  <2>1. Tok(pos + 1) \in Inner
    BY <1>8, InnerWords, Zenon
  <2>2. Steps(pos + 1, (pos + 1) + 1) /\ (pos + 1) + 1 = pos + 2
    BY <1>1, <1>3, <1>6, <1>8, <2>1, Facts, InnerHere
  <2>3. Steps(pos, pos + 2)
    BY <1>3, <1>6, <1>8, <2>2, StepsOn
  <2>4. StackOK(text, ast, Append(Rest, g))
    BY <1>2, <1>7, <1>8, PushStack
  <2> QED
    BY <1>1, <1>8, <2>3, <2>4, ExpressionGood
<1>9. CASE CurTok \in Ident /\ VarList([g EXCEPT !.kids = Append(@, 0)], pos + 1)
  <2>1. PICK h, ks : h = [g EXCEPT !.kids = ks] /\ ks = Append(g.kids, 0)
    OBVIOUS
  <2>2. ks \in Seq(Nat) /\ Within(ks, 0..Len(ast))
    <3>1. g.kids \in Seq(Nat) /\ Within(g.kids, 0..Len(ast)) /\ 0 \in 0..Len(ast)
      BY <1>1, <1>7, <1>9, Facts DEF FrameOK, FrameType
    <3> QED
      BY <2>1, <3>1, WithinAppend
  <2>3. FrameOK(text, ast, h) /\ h.fn = "var"
    BY <1>7, <1>9, <2>1, <2>2 DEF FrameOK, FrameType, Climbs
  <2>4. VarList(h, pos + 1)
    BY <1>9, <2>1
  <2> QED
    BY <1>1, <1>6, <1>9, <2>3, <2>4, VarListShape
<1> QED
  BY <1>4, <1>5, <1>8, <1>9, Zenon DEF VarName

LEMMA VarInitShape == ASSUME Here, VarInit PROVE Good
<1>1. PICK f : f = "var"
  OBVIOUS
<1>2. Got(f) /\ f \notin Climbs /\ f # "def"
  <2>1. Got(f)
    BY <1>1, Zenon DEF VarInit
  <2> QED
    BY <1>1, <2>1 DEF Climbs
<1>3. ParserInv /\ Going /\ stack # <<>> /\ Top.fn = f /\ Steps(pos, pos)
  BY <1>2, GotFacts
<1>4. FrameOK(text, ast, WithKid) /\ WithKid.fn = f
  BY <1>2, <1>3, WithKidOK
<1>5. VarList(WithKid, pos)
  BY DEF VarInit
<1> QED
  BY <1>1, <1>3, <1>4, <1>5, VarListShape

LEMMA VarBodyShape == ASSUME Here, VarBody PROVE Good
<1>1. PICK f : f = "varbody"
  OBVIOUS
<1>2. Got(f)
  BY <1>1, Zenon DEF VarBody
<1>3. f \notin Climbs /\ f # "def" /\ "var" \in Kind \ (Protos \cup {"function"})
  BY <1>1 DEF Climbs, Kind, Protos
<1>4. Build(Rest, Node("var", Top.at, Top.at, Top.names, WithKid.kids), pos)
  BY DEF VarBody
<1> QED
  BY <1>2, <1>3, <1>4, GotFacts, CollectShape

-----------------------------------------------------------------------------
\* Unary operators, and what is no expression.
LEMMA UnaryShape == ASSUME Here, ParseUnary PROVE Good
<1>1. ParserInv /\ Going /\ CurTok \in Char
  <2>1. CurTok \in Char
    BY Zenon DEF ParseUnary, IsUnary
  <2>2. phase = "unary"
    BY Zenon DEF ParseUnary
  <2> QED
    BY <2>1, <2>2 DEF Here, Going
<1>2. Tok(pos) \in Inner
  BY <1>1, InnerWords, Zenon DEF CurTok
<1>3. Steps(pos, pos + 1) /\ pos \in 1..Len(text) + 1 /\ text \in Seq(Token)
  BY <1>1, <1>2, Facts, InnerHere DEF ParserInv
<1>4. PICK f : f = Frame("unary", pos)
  OBVIOUS
<1>5. FrameOK(text, ast, f)
  BY <1>3, <1>4, NewFrameOK DEF Frame, Function, Climbs
<1>6. /\ pos' = pos + 1 /\ phase' = "unary" /\ stack' = Append(stack, f)
      /\ UNCHANGED <<ret, ast, said>>
  BY <1>4 DEF ParseUnary
<1> QED
  BY <1>1, <1>3, <1>5, <1>6, Facts, GoesOn

LEMMA UnaryDoneShape == ASSUME Here, UnaryDone PROVE Good
<1>1. PICK f : f = "unary"
  OBVIOUS
<1>2. Got(f) /\ Build(Rest, Node("unary", Top.at, Top.at, <<>>, <<ret>>), pos)
  BY <1>1, Zenon DEF UnaryDone
<1>3. /\ ParserInv /\ Going /\ StackOK(text, ast, Rest) /\ ret \in 1..Len(ast)
      /\ pos \in Position /\ Steps(pos, pos) /\ FrameOK(text, ast, Top)
  BY <1>2, GotFacts
<1>4. "unary" \in Kind \ (Protos \cup {"function"})
  BY DEF Kind, Protos
<1>5. text \in Seq(Token) /\ Len(ast) \in Nat /\ pos - 1 \in Int /\ Top.at \in 1..Len(text) + 1
  BY <1>3, Facts DEF FrameOK
<1>6. PICK ks : ks = <<ret>>
  OBVIOUS
<1>7. ks \in Seq(Nat) /\ Within(ks, 0..Len(ast))
  <2>1. ret \in Nat /\ ret \in 0..Len(ast)
    BY <1>3, <1>5
  <2> QED
    BY <1>6, <2>1, WithinOne
<1>8. Within(<<>>, 1..Len(text)) /\ <<>> \in Seq(Nat)
  BY NoLists
<1>9. NodeOK(text, ast, [Node("unary", Top.at, Top.at, <<>>, ks) EXCEPT !.to = pos - 1], Len(ast))
  BY <1>4, <1>5, <1>7, <1>8, NewNodeOK
<1> QED
  BY <1>2, <1>3, <1>6, <1>9, BuildGood

LEMMA NothingShape == ASSUME Here, ParseNothing PROVE Good
<1>1. ParserInv /\ Going /\ Fail(stack, pos)
  BY DEF Here, ParseNothing, Going
<1>2. Steps(pos, pos) /\ StackOK(text, ast, stack)
  BY <1>1, Facts, StepsStay DEF ParserInv
<1> QED
  BY <1>1, <1>2, FailGood

LEMMA PartFailsShape == ASSUME Here, PartFails PROVE Good
<1>1. /\ ParserInv /\ UNCHANGED <<text, table>> /\ stack # <<>> /\ ret = 0 /\ phase = "return"
      /\ stack' = Rest /\ ret' = 0 /\ phase' = "return" /\ UNCHANGED <<pos, ast, said>>
  BY DEF Here, PartFails, Return
<1>2. StackOK(text, ast', stack') /\ AstOK(text, ast') /\ ret' \in 0..Len(ast')
  BY <1>1, Facts, SplitStack
<1>3. WorkOK(phase', stack', ret', said')
  BY <1>1 DEF ParserInv, WorkOK
<1>4. Steps(pos, pos) /\ pos \in Position
  BY <1>1, Facts, StepsStay DEF ParserInv
<1>5. ParserInv'
  BY <1>1, <1>2, <1>3, <1>4, ParserKeeps
<1> QED
  BY <1>1, <1>4, <1>5 DEF Good

-----------------------------------------------------------------------------
\* parseBinOpRHS.
LEMMA RHSOK ==
    ASSUME NEW t \in Seq(Token), NEW a, AstOK(t, a), NEW at \in 1..Len(t) + 1, NEW min \in Nat,
           NEW n \in 1..Len(a)
    PROVE  FrameOK(t, a, BinOpRHS(at, min, n)) /\ BinOpRHS(at, min, n).fn = "rhs"
<1>1. at \in Nat /\ Len(t) \in Nat /\ n \in Nat /\ n \in 0..Len(a)
  BY LenProperties DEF AstOK
<1>2. PICK ks, f : ks = <<n>> /\ f = Frame("rhs", at)
  OBVIOUS
<1>3. ks \in Seq(Nat) /\ Within(ks, 0..Len(a)) /\ Len(ks) = 1 /\ ks[1] = n
  BY <1>1, <1>2, WithinOne
<1>4. f.fn = "rhs" /\ f.at = at /\ f.op = 0 /\ f.names = <<>> /\ f \in FrameType
  BY <1>1, <1>2 DEF Frame, FrameType, Function
<1>5. PICK g : g = [f EXCEPT !.min = min, !.kids = ks]
  OBVIOUS
<1>6. g.fn = "rhs" /\ g.at = at /\ g.op = 0 /\ g.names = <<>> /\ g.kids = ks /\ g \in FrameType
  BY <1>3, <1>4, <1>5 DEF FrameType
<1>7. Within(g.names, 1..Len(t))
  BY <1>6 DEF Within
<1>8. FrameOK(t, a, g)
  BY <1>1, <1>3, <1>6, <1>7 DEF FrameOK, Climbs
<1>9. g = BinOpRHS(at, min, n)
  BY <1>2, <1>5 DEF BinOpRHS
<1> QED
  BY <1>6, <1>8, <1>9

LEMMA UnaryParsedShape == ASSUME Here, UnaryParsed PROVE Good
<1>1. Got("expr") /\ phase' = "binop" /\ UNCHANGED <<pos, ret, ast, said>>
      /\ stack' = Append(Rest, BinOpRHS(Top.at, 0, ret))
  BY Zenon DEF UnaryParsed
<1>2. /\ ParserInv /\ Going /\ StackOK(text, ast, Rest) /\ ret \in 1..Len(ast)
      /\ Steps(pos, pos) /\ FrameOK(text, ast, Top)
  BY <1>1, GotFacts
<1>3. PICK f : f = BinOpRHS(Top.at, 0, ret)
  OBVIOUS
<1>4. FrameOK(text, ast, f) /\ f.fn = "rhs"
  BY <1>2, <1>3, Facts, RHSOK DEF FrameOK
<1> QED
  BY <1>1, <1>2, <1>3, <1>4, GoesOn

\* A loop of parseBinOpRHS has its left operand.
LEMMA LoopFacts ==
    ASSUME Here, phase = "binop"
    PROVE  /\ ParserInv /\ Going /\ stack # <<>> /\ StackOK(text, ast, Rest)
           /\ FrameOK(text, ast, Top) /\ Top \in FrameType /\ Top.fn = "rhs"
           /\ Len(Top.kids) = 1 /\ Top.kids[1] \in 1..Len(ast)
           /\ pos \in Position /\ Steps(pos, pos) /\ UNCHANGED <<text, table>>
<1>1. ParserInv /\ Going /\ stack # <<>> /\ Top.fn = "rhs" /\ UNCHANGED <<text, table>>
  BY DEF Here, Going, ParserInv, WorkOK, Top
<1>2. StackOK(text, ast, Rest) /\ FrameOK(text, ast, Top) /\ Top \in FrameType
  BY <1>1, Facts, SplitStack
<1>3. Len(Top.kids) = 1 /\ Top.kids[1] # 0
  BY <1>1, <1>2 DEF FrameOK, Climbs
<1>4. Top.kids[1] \in 0..Len(ast)
  BY <1>2, <1>3 DEF FrameOK, Within
<1>5. Top.kids[1] \in 1..Len(ast)
  BY <1>1, <1>3, <1>4, Facts
<1>6. pos \in Position /\ Steps(pos, pos)
  BY <1>1, Facts, StepsStay DEF ParserInv
<1> QED
  BY <1>1, <1>2, <1>3, <1>5, <1>6

LEMMA NoOperatorShape == ASSUME Here, NoOperator PROVE Good
<1>1. phase = "binop" /\ Return(Rest, Top.kids[1]) /\ UNCHANGED <<pos, ast, said>>
  BY DEF NoOperator
<1>2. /\ ParserInv /\ Going /\ StackOK(text, ast, Rest) /\ Top.kids[1] \in 1..Len(ast)
      /\ pos \in Position /\ Steps(pos, pos) /\ UNCHANGED <<text, table>>
  BY <1>1, LoopFacts
<1>3. ParserInv'
  BY <1>1, <1>2, Facts, ReturnShape
<1> QED
  BY <1>1, <1>2, <1>3 DEF Good

LEMMA TakeOperatorShape == ASSUME Here, TakeOperator PROVE Good
<1>1. /\ phase = "binop" /\ phase' = "unary" /\ pos' = pos + 1 /\ UNCHANGED <<ret, ast, said>>
      /\ stack' = Append(Rest, [Top EXCEPT !.fn = "operand", !.op = pos])
      /\ GetPrecedence(CurTok) >= Top.min
  BY DEF TakeOperator
<1>2. /\ ParserInv /\ Going /\ StackOK(text, ast, Rest) /\ pos \in Position
      /\ FrameOK(text, ast, Top) /\ Top.fn = "rhs" /\ Top \in FrameType
  BY <1>1, LoopFacts
<1>3. CurTok \in Char
  <2>1. Top.min \in Nat
    BY <1>2 DEF FrameType
  <2>2. GetPrecedence(CurTok) \in Int /\ (GetPrecedence(CurTok) >= 0 => CurTok \in Char)
    BY <1>2, PrecFacts
  <2> QED
    BY <1>1, <2>1, <2>2
<1>4. Tok(pos) \in Inner
  BY <1>3, InnerWords, Zenon DEF CurTok
<1>5. pos \in 1..Len(text) /\ Steps(pos, pos + 1) /\ pos \in Nat
  BY <1>2, <1>4, Facts, InnerHere
<1>6. PICK f : f = [Top EXCEPT !.fn = "operand", !.op = pos]
  OBVIOUS
<1>7. /\ f \in FrameType /\ f.fn = "operand" /\ f.op = pos /\ f.kids = Top.kids /\ f.at = Top.at
      /\ f.names = Top.names
  BY <1>2, <1>5, <1>6 DEF FrameType, Function
<1>8. FrameOK(text, ast, f)
  BY <1>2, <1>5, <1>7 DEF FrameOK, Climbs
<1> QED
  BY <1>1, <1>2, <1>5, <1>6, <1>8, GoesOn

\* A function with an operator and its left operand gets the right one.
LEMMA OperandFacts ==
    ASSUME Here, Got("operand") \/ Got("merge")
    PROVE  /\ ParserInv /\ Going /\ stack # <<>> /\ StackOK(text, ast, Rest) /\ ret \in 1..Len(ast)
           /\ FrameOK(text, ast, Top) /\ Top \in FrameType /\ Top.fn \in {"operand", "merge"}
           /\ Len(Top.kids) = 1 /\ Top.kids[1] \in 1..Len(ast)
           /\ Top.op \in 1..Len(text) /\ Top.min \in Nat
           /\ pos \in Position /\ Steps(pos, pos)
<1>1. PICK f \in {"operand", "merge"} : Got(f)
  OBVIOUS
<1>2. /\ ParserInv /\ Going /\ stack # <<>> /\ Top.fn = f /\ ret \in 1..Len(ast)
      /\ pos \in Position /\ Steps(pos, pos)
      /\ StackOK(text, ast, Rest) /\ FrameOK(text, ast, Top) /\ Top \in FrameType
  BY <1>1, GotFacts
<1>3. Len(Top.kids) = 1 /\ Top.kids[1] # 0 /\ Top.op # 0
  BY <1>2 DEF FrameOK, Climbs
<1>4. Top.kids[1] \in 0..Len(ast)
  BY <1>2, <1>3 DEF FrameOK, Within
<1>5. Top.kids[1] \in 1..Len(ast)
  BY <1>2, <1>3, <1>4, Facts
<1>6. Top.op \in 1..Len(text) /\ Top.min \in Nat
  BY <1>2, <1>3, Facts DEF FrameOK, FrameType
<1> QED
  BY <1>2, <1>3, <1>5, <1>6

LEMMA BindsRightShape == ASSUME Here, BindsRight PROVE Good
<1>1. PICK prec : prec = GetPrecedence(Tok(Top.op))
  OBVIOUS
<1>2. /\ Got("operand") /\ phase' = "binop" /\ UNCHANGED <<pos, ret, ast, said>>
      /\ stack' = Rest \o <<[Top EXCEPT !.fn = "merge"], BinOpRHS(Top.op + 1, Above(prec), ret)>>
  BY <1>1, Zenon DEF BindsRight
<1>3. /\ ParserInv /\ Going /\ stack # <<>> /\ StackOK(text, ast, Rest) /\ ret \in 1..Len(ast)
      /\ FrameOK(text, ast, Top) /\ Top \in FrameType /\ Top.fn \in {"operand", "merge"}
      /\ Top.op \in 1..Len(text) /\ Steps(pos, pos)
  BY <1>2, OperandFacts
<1>4. PICK m, g : m = [Top EXCEPT !.fn = "merge"] /\ g = BinOpRHS(Top.op + 1, Above(prec), ret)
  OBVIOUS
<1>5. /\ m \in FrameType /\ m.fn = "merge" /\ m.op = Top.op /\ m.kids = Top.kids
      /\ m.at = Top.at /\ m.names = Top.names
  BY <1>3, <1>4 DEF FrameType, Function
<1>6. FrameOK(text, ast, m)
  BY <1>3, <1>5 DEF FrameOK, Climbs
<1>7. prec + 1 \in Nat
  <2>1. prec \in Int /\ prec >= -1
    BY <1>1, <1>3, PrecFacts
  <2> QED
    BY <2>1
<1>8. FrameOK(text, ast, g) /\ g.fn = "rhs"
  <2>1. Top.op + 1 \in 1..Len(text) + 1
    BY <1>3, Facts
  <2> QED
    BY <1>3, <1>4, <1>7, <2>1, Facts, RHSOK DEF Above
<1>9. stack' = Append(Append(Rest, m), g)
  <2>1. m \in FrameType /\ g \in FrameType /\ Rest \in Seq(FrameType)
    BY <1>3, <1>5, <1>8 DEF FrameOK, StackOK
  <2>2. Rest \o <<m, g>> = Append(Append(Rest, m), g)
    BY <2>1
  <2> QED
    BY <1>2, <1>4, <2>2
<1>10. StackOK(text, ast, Append(Rest, m))
  BY <1>3, <1>6, PushStack
<1> QED
  BY <1>2, <1>3, <1>8, <1>9, <1>10, GoesOn

LEMMA MergedShape ==
    ASSUME Here, Got("operand") \/ Got("merge"), NEW x, Merged(x),
           NodeOK(text, ast, [x EXCEPT !.to = pos - 1], Len(ast))
    PROVE  Good
<1>1. /\ ParserInv /\ Going /\ stack # <<>> /\ StackOK(text, ast, Rest) /\ ret \in 1..Len(ast)
      /\ FrameOK(text, ast, Top) /\ Top.min \in Nat /\ pos \in Position /\ Steps(pos, pos)
  BY OperandFacts
<1>2. PICK y, n, f : /\ y = [x EXCEPT !.to = pos - 1] /\ n = Len(ast) + 1
                     /\ f = BinOpRHS(Top.at, Top.min, n)
  OBVIOUS
<1>3. /\ ast' = Append(ast, y) /\ stack' = Append(Rest, f) /\ phase' = "binop"
      /\ UNCHANGED <<pos, ret, said>>
  BY <1>2 DEF Merged
<1>4. NodeOK(text, ast, y, Len(ast)) /\ text \in Seq(Token) /\ AstOK(text, ast)
  BY <1>1, <1>2, Facts
<1>5. /\ AstOK(text, ast') /\ Len(ast') = Len(ast) + 1 /\ Len(ast) \in Nat
      /\ StackOK(text, ast', Rest)
  BY <1>1, <1>3, <1>4, GrowsAst
<1>6. FrameOK(text, ast', f) /\ f.fn = "rhs"
  <2>1. n \in 1..Len(ast') /\ Top.at \in 1..Len(text) + 1
    BY <1>1, <1>2, <1>5 DEF FrameOK
  <2> QED
    BY <1>1, <1>2, <1>4, <1>5, <2>1, RHSOK
<1>7. /\ StackOK(text, ast', stack') /\ stack' # <<>> /\ stack'[Len(stack')] = f
  BY <1>3, <1>5, <1>6, PushStack
<1>8. WorkOK(phase', stack', ret', said')
  BY <1>1, <1>3, <1>6, <1>7, Facts DEF WorkOK
<1>9. ret' \in 0..Len(ast')
  BY <1>1, <1>3, <1>5
<1>10. UNCHANGED <<text, table>> /\ pos' \in Position /\ phase' \in {"unary", "binop", "name", "return"}
  BY <1>1, <1>3 DEF Here
<1>11. ParserInv'
  BY <1>1, <1>5, <1>7, <1>8, <1>9, <1>10, ParserKeeps
<1> QED
  BY <1>1, <1>3, <1>11 DEF Good

LEMMA MergeShape == ASSUME Here, Merge PROVE Good
<1>1. Got("operand") \/ Got("merge")
  BY Zenon DEF Merge
<1>2. /\ ParserInv /\ Going /\ StackOK(text, ast, Rest) /\ ret \in 1..Len(ast)
      /\ FrameOK(text, ast, Top) /\ Top.kids[1] \in 1..Len(ast)
      /\ Top.op \in 1..Len(text) /\ pos \in Position /\ Steps(pos, pos)
  BY <1>1, OperandFacts
<1>3. /\ text \in Seq(Token) /\ Len(text) \in Nat /\ Len(ast) \in Nat /\ pos - 1 \in Int
      /\ Top.at \in 1..Len(text) + 1 /\ Top.op \in 1..Len(text) + 1
      /\ ret \in Nat /\ Top.kids[1] \in Nat /\ ret \in 0..Len(ast) /\ Top.kids[1] \in 0..Len(ast)
  <2>1. Top.at \in 1..Len(text) + 1
    BY <1>2 DEF FrameOK
  <2>2. text \in Seq(Token) /\ Len(text) \in Nat /\ Len(ast) \in Nat /\ pos - 1 \in Int
    BY <1>2, Facts
  <2>3. \A l \in 1..Len(ast) : l \in Nat /\ l \in 0..Len(ast)
    BY <2>2
  <2>4. Top.op \in 1..Len(text) + 1
    BY <1>2, <2>2
  <2> QED
    BY <1>2, <2>1, <2>2, <2>3, <2>4, Zenon
<1>4. CASE Merged(Node("binary", Top.op, Top.at, <<>>, <<Top.kids[1], ret>>))
  <2>1. PICK ks : ks = <<Top.kids[1], ret>>
    OBVIOUS
  <2>2. ks \in Seq(Nat) /\ Len(ks) = 2 /\ ks[1] = Top.kids[1] /\ ks[2] = ret
    BY <1>3, <2>1
  <2>3. Within(ks, 0..Len(ast))
    BY <1>3, <2>2 DEF Within
  <2>4. "binary" \in Kind \ (Protos \cup {"function"})
    BY DEF Kind, Protos
  <2>5. NodeOK(text, ast, [Node("binary", Top.op, Top.at, <<>>, ks) EXCEPT !.to = pos - 1], Len(ast))
    BY <1>3, <2>2, <2>3, <2>4, NoLists, NewNodeOK
  <2> QED
    BY <1>1, <1>4, <2>1, <2>5, MergedShape
<1>5. CASE Merged(Node("assign", Top.op, Top.at, ast[Top.kids[1]].names, <<ret>>))
  <2>1. PICK ks, ns : ks = <<ret>> /\ ns = ast[Top.kids[1]].names
    OBVIOUS
  <2>2. ks \in Seq(Nat) /\ Within(ks, 0..Len(ast))
    BY <1>3, <2>1, WithinOne
  <2>3. ns \in Seq(Nat) /\ Within(ns, 1..Len(text))
    BY <1>2, <2>1, Facts DEF AstOK, NodeOK, NodeType
  <2>4. "assign" \in Kind \ (Protos \cup {"function"})
    BY DEF Kind, Protos
  <2>5. NodeOK(text, ast, [Node("assign", Top.op, Top.at, ns, ks) EXCEPT !.to = pos - 1], Len(ast))
    BY <1>3, <2>2, <2>3, <2>4, NewNodeOK
  <2> QED
    BY <1>1, <1>5, <2>1, <2>5, MergedShape
<1>6. CASE Fail(Rest, pos)
  BY <1>2, <1>6, FailGood
<1> QED
  BY <1>4, <1>5, <1>6, Zenon DEF Merge

-----------------------------------------------------------------------------
\* The ends of a construct.
LEMMA FunctionNodeOK ==
    ASSUME NEW t \in Seq(Token), NEW a, NEW n \in Nat, NEW p \in 1..Len(t) + 1,
           NEW ks \in Seq(Nat), Len(ks) = 2, ks[1] \in 1..n, ks[2] \in 1..n,
           a[ks[1]].kind \in Protos, NEW z \in Int
    PROVE  NodeOK(t, a, [Node("function", p, p, <<>>, ks) EXCEPT !.to = z], n)
<1>1. p \in Nat
  BY LenProperties
<1>2. Within(ks, 0..n)
  <2>1. \A k \in 1..2 : k = 1 \/ k = 2
    OBVIOUS
  <2>2. \A l \in 1..n : l \in 0..n
    OBVIOUS
  <2> QED
    BY <2>1, <2>2 DEF Within
<1>3. PICK x : x = [Node("function", p, p, <<>>, ks) EXCEPT !.to = z]
  OBVIOUS
<1>4. /\ x.kind = "function" /\ x.at = p /\ x.names = <<>> /\ x.kids = ks /\ x.prec = 0
  BY <1>3 DEF Node
<1>5. x \in NodeType
  <2>1. "function" \in Kind /\ <<>> \in Seq(Nat)
    BY DEF Kind
  <2> QED
    BY <1>1, <1>3, <2>1 DEF Node, NodeType
<1>6. x.kind \notin Protos
  BY <1>4 DEF Protos
<1>7. Within(x.names, 1..Len(t))
  BY <1>4 DEF Within
<1>8. ks[1] # 0 /\ ks[2] # 0
  OBVIOUS
<1>9. NodeOK(t, a, x, n)
  BY <1>2, <1>4, <1>5, <1>6, <1>7, <1>8 DEF NodeOK
<1> QED
  BY <1>3, <1>9

LEMMA DefinitionShape == ASSUME Here, Definition PROVE Good
<1>1. PICK f : f = "def"
  OBVIOUS
<1>2. Got(f) /\ Build(Rest, Node("function", Top.at, Top.at, <<>>, WithKid.kids), pos)
  BY <1>1, Zenon DEF Definition
<1>3. /\ ParserInv /\ Going /\ StackOK(text, ast, Rest) /\ ret \in 1..Len(ast) /\ Top.fn = f
      /\ pos \in Position /\ Steps(pos, pos) /\ FrameOK(text, ast, Top) /\ Top \in FrameType
  BY <1>2, GotFacts
<1>4. /\ Len(Top.kids) = 1 /\ Top.kids[1] = 1 /\ ast[1].kind \in Protos
      /\ Top.kids \in Seq(Nat) /\ Top.at \in 1..Len(text) + 1
  BY <1>1, <1>3 DEF FrameOK, FrameType
<1>5. text \in Seq(Token) /\ Len(ast) \in Nat /\ pos - 1 \in Int /\ 1 \in 1..Len(ast) /\ ret \in Nat
  BY <1>3, Facts
<1>6. PICK ks : ks = WithKid.kids
  OBVIOUS
<1>7. ks \in Seq(Nat) /\ Len(ks) = 2 /\ ks[1] = 1 /\ ks[2] = ret
  <2>1. ks = Append(Top.kids, ret)
    BY <1>3, <1>6 DEF WithKid, FrameType
  <2>2. PICK l : l = Top.kids
    OBVIOUS
  <2>3. l \in Seq(Nat) /\ Len(l) = 1 /\ l[1] = 1
    BY <1>4, <2>2
  <2>4. /\ Append(l, ret) \in Seq(Nat) /\ Len(Append(l, ret)) = 2
        /\ Append(l, ret)[1] = 1 /\ Append(l, ret)[2] = ret
    <3>1. /\ Append(l, ret) \in Seq(Nat) /\ Len(Append(l, ret)) = Len(l) + 1
          /\ \A i \in 1..Len(l) : Append(l, ret)[i] = l[i]
          /\ Append(l, ret)[Len(l) + 1] = ret
      <4>1. l \in Seq(Nat) /\ ret \in Nat
        BY <1>5, <2>3
      <4> QED
        BY <4>1, PushFacts
    <3>2. 1 \in 1..Len(l) /\ Len(l) + 1 = 2
      BY <2>3
    <3> QED
      BY <2>3, <3>1, <3>2
  <2> QED
    BY <2>1, <2>2, <2>4
<1>8. NodeOK(text, ast, [Node("function", Top.at, Top.at, <<>>, ks) EXCEPT !.to = pos - 1], Len(ast))
  <2>1. ks[1] \in 1..Len(ast) /\ ks[2] \in 1..Len(ast) /\ ast[ks[1]].kind \in Protos
    BY <1>3, <1>4, <1>5, <1>7
  <2> QED
    BY <1>4, <1>5, <1>7, <2>1, FunctionNodeOK
<1> QED
  BY <1>2, <1>3, <1>6, <1>8, BuildGood

\* The prototype that a top-level expression gets.
LEMMA AnonOK ==
    ASSUME NEW t \in Seq(Token), NEW a, NEW n \in Nat, NEW p \in 1..Len(t) + 1, NEW z \in Int
    PROVE  /\ NodeOK(t, a, [Node("anonproto", p, p, <<>>, <<>>) EXCEPT !.to = z], n)
           /\ [Node("anonproto", p, p, <<>>, <<>>) EXCEPT !.to = z].kind \in Protos
<1>1. p \in Nat
  BY LenProperties
<1>2. PICK x : x = [Node("anonproto", p, p, <<>>, <<>>) EXCEPT !.to = z]
  OBVIOUS
<1>3. /\ x.kind = "anonproto" /\ x.at = p /\ x.names = <<>> /\ x.kids = <<>> /\ x.prec = 0
  BY <1>2 DEF Node
<1>4. x \in NodeType
  <2>1. "anonproto" \in Kind
    BY DEF Kind
  <2> QED
    BY <1>1, <1>2, <2>1, NoLists DEF Node, NodeType
<1>5. x.kind \in Protos /\ x.kind # "binaryproto" /\ x.kind # "function"
  BY <1>3 DEF Protos
<1>6. \A S : Within(x.names, S) /\ Within(x.kids, S)
  BY <1>3 DEF Within
<1>7. NodeOK(t, a, x, n)
  BY <1>3, <1>4, <1>5, <1>6 DEF NodeOK, ProtoOK
<1> QED
  BY <1>2, <1>5, <1>7

LEMMA TopLevelShape == ASSUME Here, TopLevel PROVE Good
<1>1. PICK f : f = "top"
  OBVIOUS
<1>2. PICK n, u, w : /\ n = Len(ast)
                     /\ u = [Node("anonproto", Top.at, Top.at, <<>>, <<>>) EXCEPT !.to = Top.at - 1]
                     /\ w = [Node("function", Top.at, Top.at, <<>>, <<n + 1, ret>>) EXCEPT !.to = pos - 1]
  OBVIOUS
<1>3. Got(f) /\ ast' = ast \o <<u, w>> /\ Return(Rest, n + 2) /\ UNCHANGED <<pos, said>>
  BY <1>1, <1>2, Zenon DEF TopLevel
<1>4. /\ ParserInv /\ Going /\ StackOK(text, ast, Rest) /\ ret \in 1..Len(ast)
      /\ pos \in Position /\ Steps(pos, pos) /\ FrameOK(text, ast, Top)
  BY <1>3, GotFacts
<1>5. /\ text \in Seq(Token) /\ n \in Nat /\ pos - 1 \in Int /\ Top.at \in 1..Len(text) + 1
      /\ Top.at - 1 \in Int /\ ret \in 1..n /\ AstOK(text, ast)
  <2>1. Top.at \in 1..Len(text) + 1
    BY <1>4 DEF FrameOK
  <2>2. text \in Seq(Token) /\ Len(ast) \in Nat /\ pos - 1 \in Int /\ AstOK(text, ast)
    BY <1>4, Facts
  <2>3. Top.at - 1 \in Int
    BY <1>4, <2>1, Facts
  <2> QED
    BY <1>2, <1>4, <2>1, <2>2, <2>3
<1>6. NodeOK(text, ast, u, n) /\ u.kind \in Protos
  BY <1>2, <1>5, AnonOK
<1>7. PICK a : a = Append(ast, u)
  OBVIOUS
<1>8. /\ AstOK(text, a) /\ Len(a) = n + 1 /\ a[n + 1] = u /\ StackOK(text, a, Rest)
  BY <1>2, <1>4, <1>5, <1>6, <1>7, GrowsAst
<1>9. NodeOK(text, a, w, Len(a))
  <2>1. n + 1 \in 1..Len(a) /\ ret \in 1..Len(a) /\ Len(a) \in Nat /\ a[n + 1].kind \in Protos
    BY <1>5, <1>6, <1>8
  <2>2. PICK ks : ks = <<n + 1, ret>>
    OBVIOUS
  <2>3. n + 1 \in Nat /\ ret \in Nat
    BY <1>5
  <2>4. ks \in Seq(Nat) /\ Len(ks) = 2 /\ ks[1] = n + 1 /\ ks[2] = ret
    BY <2>2, <2>3
  <2> QED
    BY <1>2, <1>5, <2>1, <2>2, <2>4, FunctionNodeOK
<1>10. ast' = Append(a, w)
  <2>1. u \in NodeType /\ w \in NodeType /\ ast \in Seq(NodeType)
    BY <1>5, <1>6, <1>9 DEF NodeOK, AstOK
  <2> QED
    BY <1>3, <1>7, <2>1
<1>11. AstOK(text, ast') /\ StackOK(text, ast', Rest) /\ n + 2 \in 1..Len(ast')
  <2>1. PICK b, v : b = Append(a, w) /\ v = Rest
    OBVIOUS
  <2>2. AstOK(text, a) /\ StackOK(text, a, v) /\ text \in Seq(Token)
    BY <1>5, <1>8, <2>1
  <2>3. AstOK(text, b) /\ StackOK(text, b, v) /\ Len(b) = Len(a) + 1
    BY <1>9, <2>1, <2>2, GrowsAst
  <2>4. n + 2 \in 1..Len(b)
    BY <1>5, <1>8, <2>3
  <2> QED
    BY <1>10, <2>1, <2>3, <2>4, Zenon
<1>12. ParserInv'
  BY <1>3, <1>4, <1>11, ReturnShape DEF Here
<1> QED
  BY <1>3, <1>4, <1>12 DEF Good

LEMMA ParserStepGood == ASSUME ParserInv, ParseStep PROVE Good
<1>1. Here
  BY Zenon DEF Here, ParseStep
<1>2. CASE ParseNumber \/ ParseIdentifier \/ CallArgument \/ ParseParen \/ CloseParen
  BY <1>1, <1>2, NumberShape, IdentifierShape, CallArgumentShape, ParenShape, CloseParenShape, Zenon
<1>3. CASE ParseIf \/ IfPart \/ ParseFor \/ ForPart
  BY <1>1, <1>3, IfShape, IfPartShape, ForShape, ForPartShape, Zenon
<1>4. CASE ParseVar \/ VarName \/ VarInit \/ VarBody
  BY <1>1, <1>4, VarShape, VarNameShape, VarInitShape, VarBodyShape, Zenon
<1>5. CASE ParseUnary \/ UnaryDone \/ ParseNothing
  BY <1>1, <1>5, UnaryShape, UnaryDoneShape, NothingShape, Zenon
<1>6. CASE UnaryParsed \/ NoOperator \/ TakeOperator \/ BindsRight \/ Merge
  BY <1>1, <1>6, UnaryParsedShape, NoOperatorShape, TakeOperatorShape, BindsRightShape, MergeShape, Zenon
<1>7. CASE Definition \/ TopLevel \/ PartFails
  BY <1>1, <1>7, DefinitionShape, TopLevelShape, PartFailsShape, Zenon
<1> QED
  BY <1>2, <1>3, <1>4, <1>5, <1>6, <1>7, Zenon DEF ParseStep

-----------------------------------------------------------------------------
\* Prototypes.
LEMMA NamesEndFacts ==
    ASSUME text \in Seq(Token), NEW p \in 1..Len(text)
    PROVE  /\ NamesEnd(p) \in p + 1..Len(text) + 1
           /\ Tok(NamesEnd(p)) \notin Ident
           /\ \A q \in p + 1..NamesEnd(p) - 1 : Tok(q) \in Ident
<1>1. Len(text) \in Nat /\ p \in Nat /\ p + 1 \in Nat
  BY LenProperties
<1>2. PICK m \in Nat : m = Len(text) + 1
  BY <1>1
<1>3. PICK S : S = {e \in p + 1..m : Tok(e) \notin Ident}
  OBVIOUS
<1>4. Tok(m) \notin Ident
  <2>1. Tok(m) = "eof"
    BY <1>1, <1>2 DEF Tok
  <2>2. "eof" \notin Ident
    BY TokenAssumption, Zenon DEF Token
  <2> QED
    BY <2>1, <2>2
<1>5. S # {} /\ S \subseteq Nat
  <2>1. m \in p + 1..m
    BY <1>1, <1>2
  <2>2. m \in S
    BY <1>3, <1>4, <2>1
  <2>3. \A e \in p + 1..m : e \in Nat
    BY <1>1
  <2> QED
    BY <1>3, <2>2, <2>3
<1>6. PICK e \in S : \A n \in S : e <= n
  BY <1>5, LeastExists
<1>7. e \in p + 1..Len(text) + 1 /\ Tok(e) \notin Ident
  BY <1>2, <1>3, <1>6
<1>8. \A q \in p + 1..e - 1 : Tok(q) \in Ident
  <2> SUFFICES ASSUME NEW q \in p + 1..e - 1, Tok(q) \notin Ident PROVE FALSE
    OBVIOUS
  <2>1. q \in p + 1..m /\ q \in Int /\ e \in Int /\ q < e
    BY <1>1, <1>2, <1>7
  <2>2. q \in S
    BY <1>3, <2>1
  <2> QED
    BY <1>6, <2>1, <2>2
<1> QED
  BY <1>7, <1>8, Zenon DEF NamesEnd

\* What a prototype is read from, and the node it gives.
PrototypeNode(x) == \A a, n, z : n \in Nat /\ z \in Int =>
    /\ x.kind \in Protos /\ NodeOK(text, a, x, n) /\ NodeOK(text, a, [x EXCEPT !.to = z], n)
Reads(p, r) == Steps(p, r.next) /\ (r.ok => PrototypeNode(r.node))

LEMMA PrototypeNodeOK ==
    ASSUME text \in Seq(Token), NEW k \in Protos, NEW p \in 1..Len(text) + 1,
           NEW prec \in 0..100, NEW ns \in Seq(Nat), Within(ns, 1..Len(text)), NEW e \in Int,
           k = "binaryproto" => /\ p + 1 \in 1..Len(text) /\ text[p + 1] \in Char
                                /\ prec \in 1..100
    PROVE  PrototypeNode([Node(k, p, p, ns, <<>>) EXCEPT !.prec = prec, !.to = e])
<1>1. p \in Nat /\ prec \in Nat
  BY LenProperties
<1>2. PICK x : x = [Node(k, p, p, ns, <<>>) EXCEPT !.prec = prec, !.to = e]
  OBVIOUS
<1>3. k \in Kind /\ k # "function"
  BY DEF Kind, Protos
<1>4. /\ x.kind = k /\ x.at = p /\ x.names = ns /\ x.kids = <<>> /\ x.prec = prec /\ x \in NodeType
  BY <1>1, <1>2, <1>3, NoLists DEF Node, NodeType
<1>5. \A S : Within(x.kids, S)
  BY <1>4 DEF Within
<1>6. ProtoOK(text, x)
  BY <1>4 DEF ProtoOK
<1>7. \A a, n : n \in Nat => NodeOK(text, a, x, n)
  BY <1>3, <1>4, <1>5, <1>6 DEF NodeOK
<1>8. ASSUME NEW a, NEW n \in Nat, NEW z \in Int PROVE NodeOK(text, a, [x EXCEPT !.to = z], n)
  <2>1. PICK y : y = [x EXCEPT !.to = z]
    OBVIOUS
  <2>2. /\ y.kind = k /\ y.at = p /\ y.names = ns /\ y.kids = <<>> /\ y.prec = prec /\ y \in NodeType
    BY <1>4, <2>1 DEF NodeType
  <2>3. ProtoOK(text, y)
    BY <2>2 DEF ProtoOK
  <2>4. \A S : Within(y.kids, S)
    BY <2>2 DEF Within
  <2>5. NodeOK(text, a, y, n)
    BY <1>3, <2>2, <2>3, <2>4 DEF NodeOK
  <2> QED
    BY <2>1, <2>5
<1> QED
  BY <1>2, <1>4, <1>7, <1>8, Zenon DEF PrototypeNode

LEMMA ParametersRead ==
    ASSUME text \in Seq(Token), NEW k \in Protos, NEW at \in 1..Len(text) + 1,
           NEW prec \in 0..100, NEW open \in Position,
           k = "binaryproto" => /\ at + 1 \in 1..Len(text) /\ text[at + 1] \in Char
                                /\ prec \in 1..100
    PROVE  Reads(open, Parameters(k, at, prec, open))
<1>1. PICK r, e, ns : /\ r = Parameters(k, at, prec, open) /\ e = NamesEnd(open)
                      /\ ns = [i \in 1..e - open - 1 |-> open + i]
  OBVIOUS
<1>2. CASE Tok(open) # "("
  <2>1. r = Stops(open)
    BY <1>1, <1>2, Zenon DEF Parameters
  <2> QED
    BY <1>1, <2>1, StepsStay DEF Reads, Stops
<1>3. CASE Tok(open) = "("
  <2>1. Tok(open) \in Inner
    BY <1>3, InnerWords, Zenon
  <2>2. open \in 1..Len(text) /\ Steps(open, open + 1) /\ Len(text) \in Nat
    BY <2>1, InnerHere, LenProperties
  <2>3. e \in open + 1..Len(text) + 1 /\ \A q \in open + 1..e - 1 : Tok(q) \in Ident
    BY <1>1, <2>2, NamesEndFacts
  <2>4. Steps(open, e) /\ e \in Position
    <3>1. e \in Position /\ open + 1 <= e /\ open + 1 \in Position
      BY <2>2, <2>3 DEF Position
    <3>2. \A q \in open + 1..e - 1 : Tok(q) \in Inner
      <4>1. Ident \subseteq Inner
        BY InnerWords, Zenon
      <4> QED
        BY <2>3, <4>1, Zenon
    <3>3. Steps(open + 1, e)
      BY <3>1, <3>2 DEF Steps
    <3> QED
      BY <2>2, <3>1, <3>3, StepsOn
  <2>5. ASSUME Tok(e) = ")" PROVE Steps(open, e + 1)
    <3>1. Tok(e) \in Inner
      BY <2>5, InnerWords, Zenon
    <3>2. Steps(e, e + 1)
      BY <2>4, <3>1, InnerHere
    <3> QED
      BY <2>4, <3>2, StepsOn
  <2>6. CASE Tok(e) # ")"
    <3>1. r = Stops(e)
      BY <1>1, <1>3, <2>6 DEF Parameters
    <3> QED
      BY <1>1, <2>4, <3>1 DEF Reads, Stops
  <2>7. CASE Tok(e) = ")" /\ ~RightNumber(k, ns)
    <3>1. r = Stops(e + 1)
      BY <1>1, <1>3, <2>7 DEF Parameters
    <3> QED
      BY <1>1, <2>5, <2>7, <3>1 DEF Reads, Stops
  <2>8. CASE Tok(e) = ")" /\ RightNumber(k, ns)
    <3>1. PICK x : x = [Node(k, at, at, ns, <<>>) EXCEPT !.prec = prec, !.to = e]
      OBVIOUS
    <3>2. r = [ok |-> TRUE, next |-> e + 1, node |-> x]
      BY <1>1, <1>3, <2>8, <3>1 DEF Parameters
    <3>3. ns \in Seq(Nat) /\ Within(ns, 1..Len(text))
      <4>1. e - open - 1 \in Nat /\ open \in Nat
        BY <2>2, <2>3
      <4>2. \A i \in 1..e - open - 1 : open + i \in Nat /\ open + i \in 1..Len(text)
        BY <2>2, <2>3
      <4>3. ns \in Seq(Nat) /\ Len(ns) = e - open - 1
        BY <1>1, <4>1, <4>2
      <4>4. \A i \in 1..e - open - 1 : ns[i] = open + i
        BY <1>1, Zenon
      <4>5. \A i \in 1..e - open - 1 : ns[i] \in 1..Len(text)
        BY <4>2, <4>4
      <4> QED
        BY <4>3, <4>5 DEF Within
    <3>4. PrototypeNode(x)
      <4>1. e \in Int
        BY <2>2, <2>3
      <4>2. PrototypeNode([Node(k, at, at, ns, <<>>) EXCEPT !.prec = prec, !.to = e])
        BY <3>3, <4>1, PrototypeNodeOK, Zenon
      <4> QED
        BY <3>1, <4>2, Zenon
    <3>5. Steps(open, e + 1)
      BY <2>5, <2>8
    <3> QED
      BY <1>1, <3>2, <3>4, <3>5 DEF Reads
  <2> QED
    BY <2>6, <2>7, <2>8
<1> QED
  BY <1>2, <1>3

LEMMA PrototypeReads ==
    ASSUME text \in Seq(Token), NEW p \in Position
    PROVE  Reads(p, Prototype(p))
<1>1. PICK r : r = Prototype(p)
  OBVIOUS
<1>2. Len(text) \in Nat /\ p \in 1..Len(text) + 1 /\ p \in Nat
  BY LenProperties DEF Position
<1>3. ASSUME NEW q, Steps(p, q), NEW s, Reads(q, s), r = s PROVE Reads(p, r)
  BY <1>3, StepsOn DEF Reads
<1>4. ASSUME NEW q, Steps(p, q), r = Stops(q) PROVE Reads(p, r)
  BY <1>4 DEF Reads, Stops
<1>5. /\ "unary" \notin Ident /\ "binary" \notin Ident /\ "unary" \in Inner /\ "binary" \in Inner
  <2>1. "unary" \in Keyword /\ "binary" \in Keyword
    BY DEF Keyword
  <2> QED
    BY <2>1, TokenAssumption, InnerWords, Zenon
<1>6. {"proto", "unaryproto", "binaryproto"} \subseteq Protos /\ 30 \in 0..100 /\ 30 \in 1..100
  BY DEF Protos
<1>7. CASE Tok(p) \in Ident
  <2>1. Tok(p) \in Inner
    BY <1>7, InnerWords, Zenon
  <2>2. Steps(p, p + 1) /\ p + 1 \in Position
    BY <2>1, InnerHere
  <2>3. r = Parameters("proto", p, DefaultPrecedence, p + 1)
    BY <1>1, <1>5, <1>7, Zenon DEF Prototype
  <2>4. Reads(p + 1, Parameters("proto", p, DefaultPrecedence, p + 1))
    <3>1. PICK k : k = "proto" /\ k \in Protos
      BY <1>6
    <3> QED
      BY <1>2, <1>6, <2>2, <3>1, ParametersRead DEF DefaultPrecedence
  <2> QED
    BY <1>1, <1>3, <2>2, <2>3, <2>4
<1>8. CASE Tok(p) \in {"unary", "binary"}
  <2>1. Tok(p) \in Inner /\ Tok(p) \notin Ident
    BY <1>5, <1>8, Zenon
  <2>2. Steps(p, p + 1) /\ p + 1 \in Position /\ p \in 1..Len(text)
    BY <2>1, InnerHere
  <2>3. CASE Tok(p + 1) \notin Char
    <3>1. r = Stops(p + 1)
      BY <1>1, <1>8, <2>1, <2>3, Zenon DEF Prototype
    <3> QED
      BY <1>1, <1>4, <2>2, <3>1
  <2>4. CASE Tok(p + 1) \in Char
    <3>1. Tok(p + 1) \in Inner
      BY <2>4, InnerWords, Zenon
    <3>2. /\ Steps(p + 1, p + 2) /\ p + 2 \in Position
          /\ p + 1 \in 1..Len(text) /\ text[p + 1] \in Char
      <4>1. /\ Steps(p + 1, (p + 1) + 1) /\ (p + 1) + 1 \in Position /\ p + 1 \in 1..Len(text)
        BY <2>2, <3>1, InnerHere
      <4>2. (p + 1) + 1 = p + 2
        BY <1>2
      <4>3. Tok(p + 1) = text[p + 1]
        BY <4>1 DEF Tok
      <4> QED
        BY <2>4, <4>1, <4>2, <4>3
    <3>3. Steps(p, p + 2)
      BY <2>2, <3>2, StepsOn
    <3>4. CASE Tok(p) = "unary"
      <4>1. r = Parameters("unaryproto", p, DefaultPrecedence, p + 2)
        BY <1>1, <2>1, <2>4, <3>4 DEF Prototype
      <4>2. PICK k : k = "unaryproto" /\ k \in Protos /\ k # "binaryproto"
        BY <1>6
      <4>3. Reads(p + 2, r)
        BY <1>2, <1>6, <3>2, <4>1, <4>2, ParametersRead DEF DefaultPrecedence
      <4> QED
        BY <1>1, <1>3, <3>3, <4>3
    <3>5. CASE Tok(p) = "binary" /\ Tok(p + 2) \notin Number
      <4>1. r = Parameters("binaryproto", p, DefaultPrecedence, p + 2)
        BY <1>1, <2>1, <2>4, <3>5 DEF Prototype
      <4>2. PICK k : k = "binaryproto" /\ k \in Protos
        BY <1>6
      <4>3. Reads(p + 2, r)
        BY <1>2, <1>6, <3>2, <4>1, <4>2, ParametersRead DEF DefaultPrecedence
      <4> QED
        BY <1>1, <1>3, <3>3, <4>3
    <3>6. CASE Tok(p) = "binary" /\ Tok(p + 2) \in Number
      <4>1. r = IF IsPrecedence(Tok(p + 2))
                THEN Parameters("binaryproto", p, Truncated(Tok(p + 2)), p + 3) ELSE Stops(p + 2)
        BY <1>1, <2>1, <2>4, <3>6 DEF Prototype
      <4>2. CASE ~IsPrecedence(Tok(p + 2))
        BY <1>1, <1>4, <3>3, <4>1, <4>2
      <4>3. CASE IsPrecedence(Tok(p + 2))
        <5>1. PICK t, v : t = Truncated(Tok(p + 2)) /\ v = Halves[Tok(p + 2)]
          OBVIOUS
        <5>2. v \in Nat /\ v >= 2 /\ v <= 200 /\ t = v \div 2
          BY <3>6, <4>3, <5>1, ParserAssumption DEF IsPrecedence, Truncated
        <5>3. t \in 1..100 /\ t \in 0..100
          BY <5>2
        <5>4. Tok(p + 2) \in Inner
          BY <3>6, InnerWords, Zenon
        <5>5. Steps(p + 2, p + 3) /\ p + 3 \in Position
          <6>1. (p + 2) + 1 = p + 3
            BY <1>2
          <6> QED
            BY <3>2, <5>4, <6>1, InnerHere
        <5>6. Steps(p, p + 3)
          BY <3>2, <3>3, <5>5, StepsOn
        <5>7. PICK k : k = "binaryproto" /\ k \in Protos
          BY <1>6
        <5>8. Reads(p + 3, r)
          BY <1>2, <3>2, <4>1, <4>3, <5>1, <5>3, <5>5, <5>7, ParametersRead
        <5> QED
          BY <1>1, <1>3, <5>6, <5>8
      <4> QED
        BY <4>2, <4>3
    <3> QED
      BY <1>8, <3>4, <3>5, <3>6
  <2> QED
    BY <2>3, <2>4
<1>9. CASE Tok(p) \notin Ident /\ Tok(p) \notin {"unary", "binary"}
  <2>1. r = Stops(p)
    BY <1>1, <1>9 DEF Prototype
  <2> QED
    BY <1>1, <1>4, <2>1, StepsStay
<1> QED
  BY <1>7, <1>8, <1>9

-----------------------------------------------------------------------------
\* The operator table, when a program starts and when an operator is entered.
TableOK(f) == \A o \in DOMAIN f : o \in Char /\ f[o] \in 1..100

LEMMA BuiltinOK == TableOK(Builtin)
<1>1. "=" \in Char /\ "<" \in Char /\ "+" \in Char /\ "-" \in Char /\ "*" \in Char
  BY CharAssumption, Zenon
<1>2. \A o \in DOMAIN Builtin : o \in Char
  BY <1>1, Zenon DEF Builtin
<1>3. \A o \in DOMAIN Builtin : Builtin[o] \in 1..100
  BY DEF Builtin
<1> QED
  BY <1>2, <1>3 DEF TableOK

LEMMA ErasedOK == ASSUME TableOK(table), NEW o, Erase(o) PROVE TableOK(table')
BY Zenon DEF TableOK, Erase

LEMMA EnteredOK ==
    ASSUME TableOK(table), NEW c \in Char, NEW v \in 1..100, SetPrecedence(c, v)
    PROVE  TableOK(table')
BY Zenon DEF TableOK, SetPrecedence

\* The operator that a function may enter.
LEMMA OperatorOK ==
    ASSUME ParserInv, ret # 0, ast[ret].kind = "function", NEW o \in Operator(ret)
    PROVE  o.op \in Char /\ o.prec \in 1..100
<1>1. Len(ast) \in Nat /\ ret \in 1..Len(ast) /\ AstOK(text, ast) /\ Len(text) \in Nat
  BY Facts
<1>2. NodeOK(text, ast, ast[ret], ret - 1)
  BY <1>1 DEF AstOK
<1>3. PICK p : p = ast[ret].kids[1]
  OBVIOUS
<1>4. Len(ast[ret].kids) = 2 /\ p # 0 /\ ast[p].kind \in Protos /\ p \in 0..ret - 1
  BY <1>2, <1>3 DEF NodeOK, Within
<1>5. p \in 1..Len(ast)
  BY <1>1, <1>4
<1>6. ProtoOK(text, ast[p])
  BY <1>1, <1>4, <1>5 DEF AstOK, NodeOK
<1>7. PICK x : x = ast[p]
  OBVIOUS
<1>8. x.kind = "binaryproto" /\ o = [op |-> Tok(x.at + 1), prec |-> x.prec]
  BY <1>3, <1>7, Zenon DEF Operator
<1>9. x.at + 1 \in 1..Len(text) /\ text[x.at + 1] \in Char /\ x.prec \in 1..100
  BY <1>6, <1>7, <1>8 DEF ProtoOK
<1>10. Tok(x.at + 1) = text[x.at + 1]
  BY <1>1, <1>9 DEF Tok
<1>11. o.op = Tok(x.at + 1) /\ o.prec = x.prec
  BY <1>8
<1> QED
  BY <1>9, <1>10, <1>11, Zenon

-----------------------------------------------------------------------------
\* A construct begins.
Opened == /\ ParserInv' /\ phase' \in {"unary", "return"}
          /\ pos' = pos \/ Steps(pos + 1, pos')
          /\ (phase' = "return" /\ ret' # 0) => pos' # pos

LEMMA LoopFactsHere ==
    ASSUME FrontendInv, pc = "loop"
    PROVE  /\ ParserInv /\ DumperInv /\ DriverInv /\ phase = "idle" /\ ret = 0 /\ Going
           /\ stack = <<>> /\ visits = <<>> /\ lines = <<>> /\ said = 0
           /\ pos \in Position /\ text \in Seq(Token)
BY DEF FrontendInv, DriverInv, Going, ParserInv, WorkOK

LEMMA WordHere ==
    ASSUME text \in Seq(Token), pos \in Position, CurTok # "eof"
    PROVE  pos \in 1..Len(text) /\ pos + 1 \in Position /\ CurTok = text[pos]
BY TokHere DEF CurTok

LEMMA EmptyStack == \A t, a : StackOK(t, a, <<>>)
BY DEF StackOK

LEMMA BeginDefinition ==
    ASSUME FrontendInv, pc = "loop", UNCHANGED <<text, table>>, CurTok = "def", ParseDefinition
    PROVE  Opened
<1>1. ParserInv /\ Going /\ ret = 0 /\ text \in Seq(Token) /\ pos \in Position
  BY LoopFactsHere
<1>2. pos \in 1..Len(text) /\ pos + 1 \in Position /\ pos \in Nat
  BY <1>1, WordHere
<1>3. PICK r : r = Prototype(pos + 1)
  OBVIOUS
<1>4. Steps(pos + 1, r.next) /\ (r.ok => PrototypeNode(r.node))
  BY <1>1, <1>2, <1>3, PrototypeReads DEF Reads
<1>5. r.next \in Position
  BY <1>4 DEF Steps
<1>6. CASE ~r.ok
  <2>1. Fail(<<>>, r.next)
    BY <1>3, <1>6 DEF ParseDefinition
  <2>2. ParserInv'
    BY <1>1, <1>5, <2>1, EmptyStack, FailShape
  <2> QED
    BY <1>4, <2>1, <2>2 DEF Opened, Fail, Return
<1>7. CASE r.ok
  <2>1. PICK g, f : g = Frame("def", pos) /\ f = [g EXCEPT !.kids = <<1>>]
    OBVIOUS
  <2>2. ast' = <<r.node>> /\ Expression(<<f>>, r.next)
    BY <1>3, <1>7, <2>1 DEF ParseDefinition
  <2>3. PICK x : x = r.node
    OBVIOUS
  <2>4. PICK a : a = <<x>>
    OBVIOUS
  <2>5. x.kind \in Protos /\ NodeOK(text, a, x, 0)
    <3>1. PrototypeNode(x) /\ 0 \in Nat /\ 0 \in Int
      BY <1>4, <1>7, <2>3
    <3> QED
      BY <3>1, Zenon DEF PrototypeNode
  <2>6. x \in NodeType
    BY <2>5 DEF NodeOK
  <2>7. a \in Seq(NodeType) /\ Len(a) = 1 /\ a[1] = x
    BY <2>4, <2>6
  <2>8. AstOK(text, a)
    BY <2>5, <2>7 DEF AstOK
  <2>9. FrameOK(text, a, f)
    <3>1. /\ g \in FrameType /\ g.fn = "def" /\ g.at = pos /\ g.op = 0 /\ g.names = <<>>
      BY <1>2, <2>1, NoLists DEF Frame, FrameType, Function
    <3>2. PICK ks : ks = <<1>>
      OBVIOUS
    <3>3. ks \in Seq(Nat) /\ Within(ks, 0..1) /\ Len(ks) = 1 /\ ks[1] = 1
      BY <3>2, WithinOne
    <3>4. /\ f \in FrameType /\ f.fn = "def" /\ f.at = pos /\ f.op = 0 /\ f.names = <<>>
          /\ f.kids = ks
      BY <2>1, <3>1, <3>2, <3>3 DEF FrameType
    <3>5. f.fn \notin Climbs /\ f.fn # "operand" /\ f.fn # "merge" /\ Within(f.names, 1..Len(text))
      BY <3>4, NoLists DEF Climbs
    <3>6. pos \in 1..Len(text) + 1 /\ 0 \in 0..Len(text)
      BY <1>1, <1>2, Facts
    <3>7. a[1].kind \in Protos
      BY <2>5, <2>7
    <3> QED
      BY <2>7, <3>3, <3>4, <3>5, <3>6, <3>7 DEF FrameOK
  <2>10. StackOK(text, a, <<f>>)
    <3>1. f \in FrameType
      BY <2>9 DEF FrameOK
    <3> QED
      BY <2>9, <3>1 DEF StackOK
  <2>11. AstOK(text, ast') /\ StackOK(text, ast', <<f>>) /\ ret \in 0..Len(ast')
    BY <1>1, <2>2, <2>3, <2>4, <2>7, <2>8, <2>10
  <2>12. ParserInv'
    BY <1>1, <1>5, <2>2, <2>11, ExpressionShape
  <2> QED
    BY <1>4, <2>2, <2>12 DEF Opened, Expression
<1> QED
  BY <1>6, <1>7

LEMMA BeginExtern ==
    ASSUME FrontendInv, pc = "loop", UNCHANGED <<text, table>>, CurTok = "extern", ParseExtern
    PROVE  Opened
<1>1. ParserInv /\ Going /\ ret = 0 /\ text \in Seq(Token) /\ pos \in Position /\ Len(ast) \in Nat
  BY LoopFactsHere, Facts
<1>2. pos \in 1..Len(text) /\ pos + 1 \in Position /\ pos \in Nat
  BY <1>1, WordHere
<1>3. PICK r : r = Prototype(pos + 1)
  OBVIOUS
<1>4. Steps(pos + 1, r.next) /\ (r.ok => PrototypeNode(r.node))
  BY <1>1, <1>2, <1>3, PrototypeReads DEF Reads
<1>5. r.next \in Position /\ r.next - 1 \in Int /\ r.next # pos
  BY <1>2, <1>4 DEF Steps, Position
<1>6. CASE ~r.ok
  <2>1. Fail(<<>>, r.next)
    BY <1>3, <1>6 DEF ParseExtern
  <2>2. ParserInv'
    BY <1>1, <1>5, <2>1, EmptyStack, FailShape
  <2> QED
    BY <1>4, <2>1, <2>2 DEF Opened, Fail, Return
<1>7. CASE r.ok
  <2>1. Build(<<>>, r.node, r.next)
    BY <1>3, <1>7 DEF ParseExtern
  <2>2. NodeOK(text, ast, [r.node EXCEPT !.to = r.next - 1], Len(ast))
    BY <1>1, <1>4, <1>5, <1>7 DEF PrototypeNode
  <2>3. ParserInv'
    BY <1>1, <1>5, <2>1, <2>2, EmptyStack, BuildShape
  <2> QED
    BY <1>4, <1>5, <2>1, <2>3 DEF Opened, Build, Return
<1> QED
  BY <1>6, <1>7

LEMMA BeginExpression ==
    ASSUME FrontendInv, pc = "loop", UNCHANGED <<text, table>>, ParseTopLevelExpr
    PROVE  Opened
<1>1. ParserInv /\ Going /\ ret = 0 /\ text \in Seq(Token) /\ pos \in Position
      /\ ret \in 0..Len(ast) /\ AstOK(text, ast) /\ pos \in 1..Len(text) + 1
  BY LoopFactsHere, Facts
<1>2. PICK f : f = Frame("top", pos)
  OBVIOUS
<1>3. FrameOK(text, ast, f)
  BY <1>1, <1>2, NewFrameOK DEF Function, Climbs
<1>4. StackOK(text, ast, <<f>>)
  <2>1. f \in FrameType
    BY <1>3 DEF FrameOK
  <2> QED
    BY <1>3, <2>1 DEF StackOK
<1>5. Expression(<<f>>, pos) /\ ast' = ast
  BY <1>2 DEF ParseTopLevelExpr
<1>6. AstOK(text, ast') /\ StackOK(text, ast', <<f>>) /\ ret \in 0..Len(ast')
  BY <1>1, <1>4, <1>5
<1>7. ParserInv'
  BY <1>1, <1>5, <1>6, ExpressionShape
<1> QED
  BY <1>5, <1>7 DEF Opened, Expression

-----------------------------------------------------------------------------
\* The actions of the loop keep the first invariant.
LEMMA ParserStays ==
    ASSUME ParserInv, UNCHANGED <<table, parserVars>>
    PROVE  ParserInv'
<1>1. /\ table' = table /\ text' = text /\ pos' = pos /\ phase' = phase /\ stack' = stack
      /\ ret' = ret /\ ast' = ast /\ said' = said
  BY Zenon DEF parserVars
<1>2. Position' = Position
  BY <1>1 DEF Position
<1> QED
  BY <1>1, <1>2 DEF ParserInv

LEMMA DumperStays ==
    ASSUME DumperInv, UNCHANGED dumperVars, UNCHANGED ast \/ (visits = <<>> /\ lines = <<>>)
    PROVE  DumperInv'
BY DEF DumperInv, dumperVars

LEMMA EndShape ==
    ASSUME FrontendInv, EndOfInput \/ SecondExpression
    PROVE  FrontendInv'
<1>1. /\ pc = "loop" /\ pc' = "end" /\ UNCHANGED <<table, parserVars, dumperVars>>
      /\ UNCHANGED <<sawTopLevel, start, historyVars>> /\ Options
  BY Zenon DEF EndOfInput, SecondExpression
<1>2. ParserInv' /\ DumperInv'
  BY <1>1, ParserStays, DumperStays DEF FrontendInv, parserVars
<1>3. DriverInv'
  BY <1>1 DEF FrontendInv, DriverInv, historyVars, Options, parserVars, dumperVars, Position
<1> QED
  BY <1>2, <1>3 DEF FrontendInv

LEMMA BehindFacts ==
    ASSUME text \in Seq(Token), pos \in Position
    PROVE  Behind(pos) \in Position /\ Behind(pos) >= pos
           /\ (pos <= Len(text) => Behind(pos) = pos + 1)
<1>1. Len(text) \in Nat
  BY LenProperties
<1> QED
  BY <1>1 DEF Behind, Position

LEMMA SemicolonShape ==
    ASSUME FrontendInv, Semicolon
    PROVE  FrontendInv'
<1>1. /\ pc = "loop" /\ pos' = Behind(pos)
      /\ UNCHANGED <<table, text, phase, stack, ret, ast, said, dumperVars>>
      /\ UNCHANGED <<pc, sawTopLevel, start, historyVars>> /\ Options
  BY Zenon DEF Semicolon
<1>2. Position' = Position /\ pos' \in Position
  BY <1>1, LoopFactsHere, BehindFacts DEF Position
<1>3. ParserInv'
  BY <1>1, <1>2 DEF FrontendInv, ParserInv
<1>4. DumperInv'
  BY <1>1, DumperStays DEF FrontendInv
<1>5. DriverInv'
  BY <1>1, <1>2 DEF FrontendInv, DriverInv, historyVars, Options, dumperVars
<1> QED
  BY <1>3, <1>4, <1>5 DEF FrontendInv

LEMMA BeginFacts ==
    ASSUME FrontendInv, ReadDefinition \/ ReadExtern \/ ReadExpression
    PROVE  /\ pc = "loop" /\ pc' = "parse" /\ start' = pos /\ begun' = begun \cup {pos}
           /\ UNCHANGED <<table, text, dumperVars, sawTopLevel, dropped, parsed, dumped, defined>> /\ Options
           /\ Opened /\ CurTok # "eof"
<1>1. CASE ReadDefinition
  <2>1. /\ pc = "loop" /\ pc' = "parse" /\ start' = pos /\ begun' = begun \cup {pos}
        /\ UNCHANGED <<table, text, dumperVars, sawTopLevel, dropped, parsed, dumped, defined>> /\ Options
        /\ CurTok = "def" /\ ParseDefinition
    BY <1>1, Zenon DEF ReadDefinition, Begin
  <2>2. Opened
    BY <2>1, BeginDefinition
  <2>3. CurTok # "eof"
    BY <2>1
  <2> QED
    BY <2>1, <2>2, <2>3, Zenon
<1>2. CASE ReadExtern
  <2>1. /\ pc = "loop" /\ pc' = "parse" /\ start' = pos /\ begun' = begun \cup {pos}
        /\ UNCHANGED <<table, text, dumperVars, sawTopLevel, dropped, parsed, dumped, defined>> /\ Options
        /\ CurTok = "extern" /\ ParseExtern
    BY <1>2, Zenon DEF ReadExtern, Begin
  <2>2. Opened
    BY <2>1, BeginExtern
  <2>3. CurTok # "eof"
    BY <2>1
  <2> QED
    BY <2>1, <2>2, <2>3, Zenon
<1>3. CASE ReadExpression
  <2>1. /\ pc = "loop" /\ pc' = "parse" /\ start' = pos /\ begun' = begun \cup {pos}
        /\ UNCHANGED <<table, text, dumperVars, sawTopLevel, dropped, parsed, dumped, defined>> /\ Options
        /\ StartsExpression /\ ParseTopLevelExpr
    BY <1>3, Zenon DEF ReadExpression, Begin
  <2>2. Opened
    BY <2>1, BeginExpression
  <2>3. CurTok # "eof"
    BY <2>1, Zenon DEF StartsExpression
  <2> QED
    BY <2>1, <2>2, <2>3, Zenon
<1> QED
  BY <1>1, <1>2, <1>3, Zenon

LEMMA BeginShape ==
    ASSUME FrontendInv, ReadDefinition \/ ReadExtern \/ ReadExpression
    PROVE  FrontendInv'
<1>1. /\ pc = "loop" /\ pc' = "parse" /\ start' = pos /\ begun' = begun \cup {pos}
      /\ UNCHANGED <<table, text, dumperVars, sawTopLevel, dropped, parsed, dumped, defined>> /\ Options
      /\ Opened /\ CurTok # "eof"
  BY BeginFacts
<1>2. pos \in 1..Len(text) /\ pos \in Position /\ visits = <<>> /\ lines = <<>>
  BY <1>1, LoopFactsHere, WordHere
<1>3. pos \in 0..Len(text) /\ pos # 0 /\ Position' = Position
  BY <1>1, <1>2, Facts DEF FrontendInv, Position
<1>4. DumperInv'
  BY <1>1, <1>2, DumperStays DEF FrontendInv
<1>5. phase' # "idle"
  BY <1>1 DEF Opened
<1>6. DriverInv'
  BY <1>1, <1>2, <1>3, <1>5 DEF FrontendInv, DriverInv, historyVars, Options, dumperVars
<1> QED
  BY <1>1, <1>4, <1>6 DEF FrontendInv, Opened

\* A step of the parser leaves a function at work.
Working == phase' \in {"unary", "binop", "name", "return"}

LEMMA PiecesWork ==
    /\ \A s, x, p : Build(s, x, p) => Working
    /\ \A s, p : Fail(s, p) => Working
    /\ \A s, p : Expression(s, p) => Working
    /\ \A s, p : Wait(s, p) => Working
    /\ \A s, n : Return(s, n) => Working
    /\ \A s, w : Expects(s, w) => Working
    /\ \A x : Merged(x) => Working
    /\ \A f, p : VarList(f, p) => Working
<1>1. "unary" \in {"unary", "binop", "name", "return"} /\ "return" \in {"unary", "binop", "name", "return"}
      /\ "binop" \in {"unary", "binop", "name", "return"} /\ "name" \in {"unary", "binop", "name", "return"}
  OBVIOUS
<1>2. \A s, n : Return(s, n) => Working
  BY <1>1, Zenon DEF Return, Working
<1>3. \A s, p : Fail(s, p) => Working
  BY <1>2, Zenon DEF Fail
<1>4. \A s, p : Expression(s, p) => Working
  BY <1>1, Zenon DEF Expression, Working
<1>5. \A x : Merged(x) => Working
  BY <1>1, Zenon DEF Merged, Working
<1>6. \A f, p : VarList(f, p) => Working
  BY <1>1, <1>3, <1>4, Zenon DEF VarList, Working
<1>7. \A s, x, p : Build(s, x, p) => Working
  BY <1>2, Zenon DEF Build
<1>8. \A s, p : Wait(s, p) => Working
  BY <1>4, Zenon DEF Wait
<1>9. \A s, w : Expects(s, w) => Working
  BY <1>3, <1>4, Zenon DEF Expects
<1> QED
  BY <1>2, <1>3, <1>4, <1>5, <1>6, <1>7, <1>8, <1>9, Zenon

LEMMA ParserGoesOn == ASSUME ParseStep PROVE Working
<1>0. \A w \in {"unary", "binop", "name", "return"} : phase' = w => Working
  BY Zenon DEF Working
<1>1. CASE ParseNumber \/ ParseIdentifier \/ CallArgument
  BY <1>1, PiecesWork, Zenon DEF ParseNumber, ParseIdentifier, CallArgument
<1>2. CASE ParseParen \/ CloseParen \/ ParseIf \/ IfPart
  BY <1>2, PiecesWork, Zenon DEF ParseParen, CloseParen, ParseIf, IfPart
<1>3. CASE ParseFor \/ ForPart
  BY <1>3, PiecesWork, Zenon DEF ParseFor, ForPart
<1>4. CASE ParseVar \/ VarName \/ VarInit \/ VarBody
  BY <1>0, <1>4, PiecesWork, Zenon DEF ParseVar, VarName, VarInit, VarBody
<1>5. CASE ParseUnary
  BY <1>5 DEF ParseUnary, Working
<1>6. CASE UnaryDone \/ ParseNothing
  BY <1>6, PiecesWork, Zenon DEF UnaryDone, ParseNothing
<1>7. CASE UnaryParsed \/ TakeOperator \/ BindsRight
  BY <1>7 DEF UnaryParsed, TakeOperator, BindsRight, Working
<1>8. CASE NoOperator \/ Merge
  BY <1>8, PiecesWork, Zenon DEF NoOperator, Merge
<1>9. CASE Definition \/ TopLevel \/ PartFails
  BY <1>9, PiecesWork, Zenon DEF Definition, TopLevel, PartFails
<1> QED
  BY <1>1, <1>2, <1>3, <1>4, <1>5, <1>6, <1>7, <1>8, <1>9, Zenon DEF ParseStep

LEMMA ParseShape ==
    ASSUME FrontendInv, Parse
    PROVE  FrontendInv'
<1>1. pc = "parse" /\ ParseStep /\ UNCHANGED <<dumperVars, driverVars>> /\ text' = text
  BY Zenon DEF Parse, ParseStep
<1>2. ParserInv'
  BY <1>1, ParserStepGood DEF FrontendInv, Good
<1>3. DumperInv' /\ visits = <<>> /\ lines = <<>>
  <2>1. visits = <<>> /\ lines = <<>>
    BY <1>1 DEF FrontendInv, DriverInv
  <2> QED
    BY <1>1, <2>1, DumperStays DEF FrontendInv
<1>4. phase' # "idle"
  BY <1>1, ParserGoesOn DEF Working
<1>5. DriverInv'
  BY <1>1, <1>3, <1>4 DEF FrontendInv, DriverInv, historyVars, driverVars, dumperVars, Position
<1> QED
  BY <1>2, <1>3, <1>5 DEF FrontendInv

LEMMA NextConstructShape ==
    ASSUME FrontendInv, UNCHANGED <<start, begun, parsed, dumped>>, stack = <<>>, visits = <<>>,
           NextConstruct, TableOK(table'), pos' \in Position, sawTopLevel' \in BOOLEAN,
           dropped' \subseteq Position, defined' \subseteq Position
    PROVE  FrontendInv'
<1>1. /\ phase' = "idle" /\ ast' = <<>> /\ ret' = 0 /\ said' = 0 /\ lines' = <<>> /\ pc' = "loop"
      /\ UNCHANGED <<text, stack, indent, visits, mode, dumpAST>>
  BY Zenon DEF NextConstruct, Options
<1>2. Position' = Position
  BY <1>1 DEF Position
<1>3. StackOK(text, ast', stack') /\ AstOK(text, ast') /\ WorkOK(phase', stack', ret', said')
  BY <1>1 DEF StackOK, AstOK, WorkOK
<1>4. 0 \in 0..Len(ast') /\ ret' \in 0..Len(ast')
  BY <1>1
<1>5. ParserInv'
  BY <1>1, <1>2, <1>3, <1>4 DEF FrontendInv, ParserInv, TableOK
<1>6. DumperInv'
  BY <1>1 DEF FrontendInv, DumperInv
<1>7. DriverInv'
  BY <1>1, <1>2 DEF FrontendInv, DriverInv
<1> QED
  BY <1>5, <1>6, <1>7 DEF FrontendInv

LEMMA RecoverShape ==
    ASSUME FrontendInv, Recover
    PROVE  FrontendInv'
<1>1. /\ pc = "parse" /\ stack = <<>> /\ pos' = Behind(pos) /\ dropped' = dropped \cup {pos}
      /\ NextConstruct /\ UNCHANGED <<table, sawTopLevel, start, begun, parsed, dumped, defined>>
  BY Zenon DEF Recover, Parsed, Recovered
<1>2. text \in Seq(Token) /\ pos \in Position /\ TableOK(table) /\ visits = <<>>
  BY <1>1 DEF FrontendInv, ParserInv, TableOK, DriverInv
<1>3. /\ pos' \in Position /\ dropped' \subseteq Position /\ TableOK(table') /\ sawTopLevel' \in BOOLEAN
      /\ defined' \subseteq Position
  BY <1>1, <1>2, BehindFacts DEF FrontendInv, DriverInv
<1> QED
  BY <1>1, <1>2, <1>3, NextConstructShape

LEMMA GenerateShape ==
    ASSUME FrontendInv, Generate \/ Declare
    PROVE  FrontendInv'
<1>1. /\ pc = "codegen" /\ NextConstruct /\ UNCHANGED <<pos, start, begun, dropped, parsed, dumped>>
  BY Zenon DEF Generate, Declare, historyVars
<1>2. /\ ParserInv /\ pos \in Position /\ TableOK(table) /\ visits = <<>> /\ stack = <<>> /\ ret # 0
      /\ sawTopLevel \in BOOLEAN /\ dropped \subseteq Position
  BY <1>1 DEF FrontendInv, ParserInv, TableOK, DriverInv
<1>3. TableOK(table')
  <2>1. CASE Declare
    BY <1>2, <2>1 DEF Declare
  <2>2. CASE Generate
    <3>1. ast[ret].kind = "function"
      BY <2>2, Zenon DEF Generate
    <3>2. \A o \in Operator(ret) : o.op \in Char /\ o.prec \in 1..100
      BY <1>2, <3>1, OperatorOK
    <3>3. CASE Operator(ret) = {}
      BY <1>2, <2>2, <3>3 DEF Generate
    <3>4. CASE Operator(ret) # {}
      <4>1. PICK o \in Operator(ret) : TRUE
        BY <3>4
      <4>2. SetPrecedence(o.op, o.prec) \/ Erase(o.op)
        BY <2>2, <4>1, Zenon DEF Generate
      <4> QED
        BY <1>2, <3>2, <4>1, <4>2, EnteredOK, ErasedOK, Zenon
    <3> QED
      BY <3>3, <3>4
  <2> QED
    BY <2>1, <2>2
<1>4. sawTopLevel' \in BOOLEAN
  <2>1. CASE Declare
    BY <1>2, <2>1 DEF Declare
  <2>2. CASE Generate
    BY <1>2, <2>2, Zenon DEF Generate
  <2> QED
    BY <2>1, <2>2
<1>5. defined' \subseteq Position
  <2>1. start \in Position /\ defined \subseteq Position
    BY <1>1 DEF FrontendInv, DriverInv
  <2>2. defined' \in {defined, defined \cup {start}}
    <3>1. CASE Declare
      BY <3>1 DEF Declare, historyVars
    <3>2. CASE Generate
      <4>1. \/ defined' = IF Operator(ret) = {} THEN defined ELSE defined \cup {start}
            \/ defined' = defined
        BY <3>2, Zenon DEF Generate
      <4> QED
        BY <4>1
    <3> QED
      BY <3>1, <3>2
  <2> QED
    BY <2>1, <2>2
<1> QED
  BY <1>1, <1>2, <1>3, <1>4, <1>5, NextConstructShape

-----------------------------------------------------------------------------
\* The dumper.
LEMMA LineOK ==
    ASSUME NEW i \in Nat, NEW n \in 0..Len(ast), Len(ast) \in Nat
    PROVE  /\ Line(n, i) \in Seq(LineType) /\ Len(Line(n, i)) = 1 /\ Line(n, i)[1].node = n
<1>1. PICK x : x = [indent |-> i, node |-> n]
  OBVIOUS
<1>2. x \in LineType /\ x.node = n
  BY <1>1 DEF LineType
<1>3. Line(n, i) = <<x>>
  BY <1>1 DEF Line
<1> QED
  BY <1>2, <1>3

LinesOK(l) == l \in Seq(LineType) /\ \A i \in 1..Len(l) : l[i].node \in 0..Len(ast)

LEMMA LinesOne ==
    ASSUME Len(ast) \in Nat, NEW i \in Nat, NEW n \in 0..Len(ast)
    PROVE  LinesOK(Line(n, i))
<1>1. /\ Line(n, i) \in Seq(LineType) /\ Len(Line(n, i)) = 1 /\ Line(n, i)[1].node = n
  BY LineOK
<1> QED
  BY <1>1 DEF LinesOK

LEMMA LinesJoin ==
    ASSUME NEW l, NEW m, LinesOK(l), LinesOK(m)
    PROVE  LinesOK(l \o m)
<1>1. /\ l \in Seq(LineType) /\ m \in Seq(LineType) /\ Len(l) \in Nat /\ Len(m) \in Nat
  BY LenProperties DEF LinesOK
<1>2. /\ l \o m \in Seq(LineType) /\ Len(l \o m) = Len(l) + Len(m)
      /\ \A i \in 1..Len(l) + Len(m) : (l \o m)[i] = IF i <= Len(l) THEN l[i] ELSE m[i - Len(l)]
  BY <1>1, ConcatProperties
<1>3. ASSUME NEW i \in 1..Len(l) + Len(m) PROVE (l \o m)[i].node \in 0..Len(ast)
  <2>1. CASE i <= Len(l)
    <3>1. i \in 1..Len(l) /\ (l \o m)[i] = l[i]
      BY <1>1, <1>2, <2>1
    <3> QED
      BY <3>1 DEF LinesOK
  <2>2. CASE ~ (i <= Len(l))
    <3>1. i - Len(l) \in 1..Len(m) /\ (l \o m)[i] = m[i - Len(l)]
      BY <1>1, <1>2, <2>2
    <3> QED
      BY <3>1 DEF LinesOK
  <2> QED
    BY <2>1, <2>2
<1> QED
  BY <1>2, <1>3 DEF LinesOK

VisitsOK(v) == v \in Seq(VisitType) /\ \A i \in 1..Len(v) : v[i].node \in 1..Len(ast)

LEMMA DumperKeeps ==
    ASSUME UNCHANGED ast, LinesOK(lines'), VisitsOK(visits'), indent' = 2 * Len(visits')
    PROVE  DumperInv'
BY DEF DumperInv, LinesOK, VisitsOK

LEMMA DumperParts ==
    ASSUME DumperInv
    PROVE  LinesOK(lines) /\ VisitsOK(visits) /\ indent = 2 * Len(visits) /\ indent \in Nat
           /\ Len(visits) \in Nat
<1>1. LinesOK(lines) /\ VisitsOK(visits) /\ indent = 2 * Len(visits)
  BY DEF DumperInv, LinesOK, VisitsOK
<1>2. Len(visits) \in Nat
  BY <1>1, LenProperties DEF VisitsOK
<1> QED
  BY <1>1, <1>2

LEMMA VisitOK ==
    ASSUME Len(ast) \in Nat, NEW n \in 1..Len(ast)
    PROVE  VisitsOK(Visit(n)) /\ Len(Visit(n)) = 1
<1>1. PICK x : x = [node |-> n, done |-> 0]
  OBVIOUS
<1>2. x \in VisitType /\ x.node = n
  BY <1>1 DEF VisitType
<1>3. Visit(n) = <<x>>
  BY <1>1 DEF Visit
<1> QED
  BY <1>2, <1>3 DEF VisitsOK

LEMMA FunctionParts ==
    ASSUME ParserInv, NEW n \in 1..Len(ast), ast[n].kind = "function"
    PROVE  ast[n].kids[1] \in 1..Len(ast) /\ ast[n].kids[2] \in 1..Len(ast)
<1>1. Len(ast) \in Nat /\ NodeOK(text, ast, ast[n], n - 1)
  BY Facts DEF AstOK
<1>2. Len(ast[n].kids) = 2 /\ ast[n].kids[1] # 0 /\ ast[n].kids[2] # 0 /\ Within(ast[n].kids, 0..n - 1)
  BY <1>1 DEF NodeOK
<1>3. ast[n].kids[1] \in 0..n - 1 /\ ast[n].kids[2] \in 0..n - 1
  BY <1>2 DEF Within
<1> QED
  BY <1>1, <1>2, <1>3

LEMMA DumpBegins ==
    ASSUME ParserInv, DumperInv, visits = <<>>, ret # 0, Dump(ret), UNCHANGED ast
    PROVE  DumperInv'
<1>1. Len(ast) \in Nat /\ ret \in 1..Len(ast) /\ ret \in 0..Len(ast) /\ 0 \in 0..Len(ast)
  BY Facts
<1>2. indent = 0 /\ VisitsOK(visits)
  BY DumperParts
<1>3. CASE ast[ret].kind = "function"
  <2>1. PICK p, b : p = ast[ret].kids[1] /\ b = ast[ret].kids[2]
    OBVIOUS
  <2>2. p \in 0..Len(ast) /\ b \in 0..Len(ast) /\ b \in 1..Len(ast)
    BY <1>1, <1>3, <2>1, FunctionParts
  <2>3. /\ lines' = Line(ret, indent) \o Line(p, indent + 1) \o Caption(indent + 1) \o Line(b, indent + 2)
        /\ indent' = indent + 2 /\ visits' = Visit(b)
    BY <1>3, <2>1 DEF Dump, DumpFunction
  <2>4. indent \in Nat /\ indent + 1 \in Nat /\ indent + 2 \in Nat
    BY <1>2
  <2>5. LinesOK(lines')
    BY <1>1, <2>2, <2>3, <2>4, LinesOne, LinesJoin, Zenon DEF Caption
  <2>6. VisitsOK(visits') /\ indent' = 2 * Len(visits')
    <3>1. VisitsOK(Visit(b)) /\ Len(Visit(b)) = 1
      BY <1>1, <2>2, VisitOK
    <3>2. indent' = 2
      BY <1>2, <2>3
    <3> QED
      BY <2>3, <3>1, <3>2
  <2> QED
    BY <2>5, <2>6, DumperKeeps
<1>4. CASE ast[ret].kind # "function"
  <2>1. lines' = Line(ret, indent) /\ indent' = indent /\ visits' = visits
    BY <1>4 DEF Dump, DumpPrototype
  <2>2. LinesOK(lines')
    BY <1>1, <1>2, <2>1, LinesOne
  <2> QED
    BY <1>2, <2>1, <2>2, DumperKeeps, DumperParts
<1> QED
  BY <1>3, <1>4

LEMMA DumpGoesOn ==
    ASSUME ParserInv, DumperInv, DumpStep
    PROVE  DumperInv'
<1>1. ast' = ast /\ Len(ast) \in Nat /\ visits # <<>>
  BY Facts, Zenon DEF DumpStep, parserVars, Child, NoChild, Leave, HasPart
<1>2. LinesOK(lines) /\ VisitsOK(visits) /\ indent = 2 * Len(visits) /\ indent \in Nat
  BY DumperParts
<1>3. visits \in Seq(VisitType) /\ Len(visits) \in Nat \ {0}
  BY <1>1, <1>2, PopFacts DEF VisitsOK
<1>4. /\ VisitsOK(Outer) /\ Len(Outer) = Len(visits) - 1 /\ Outer \in Seq(VisitType)
  <2>1. Outer = AllButLast(visits)
    BY DEF Outer, AllButLast
  <2>2. /\ Outer \in Seq(VisitType) /\ Len(Outer) = Len(visits) - 1
        /\ \A i \in 1..Len(visits) - 1 : Outer[i] = visits[i]
    BY <1>1, <1>3, <2>1, PopFacts
  <2>3. \A i \in 1..Len(visits) - 1 : i \in 1..Len(visits)
    BY <1>3
  <2> QED
    BY <1>2, <2>2, <2>3 DEF VisitsOK
<1>5. Current \in VisitType /\ Current.node \in 1..Len(ast) /\ Current.done \in Nat
  <2>1. Len(visits) \in 1..Len(visits)
    BY <1>3
  <2>2. Current \in VisitType /\ Current.node \in 1..Len(ast)
    BY <1>2, <1>3, <2>1 DEF Current, VisitsOK
  <2> QED
    BY <2>2 DEF VisitType
<1>6. VisitsOK(Counted) /\ Len(Counted) = Len(visits) /\ Counted \in Seq(VisitType)
  <2>1. PICK c : c = [Current EXCEPT !.done = @ + 1]
    OBVIOUS
  <2>2. c \in VisitType /\ c.node \in 1..Len(ast)
    BY <1>5, <2>1 DEF VisitType
  <2>3. Counted = Append(Outer, c)
    BY <2>1 DEF Counted
  <2>4. /\ Counted \in Seq(VisitType) /\ Len(Counted) = Len(Outer) + 1 /\ Len(Outer) \in Nat
        /\ \A i \in 1..Len(Outer) : Counted[i] = Outer[i]
        /\ Counted[Len(Outer) + 1] = c
    BY <1>4, <2>2, <2>3, PushFacts
  <2>5. \A i \in 1..Len(Outer) + 1 : i \in 1..Len(Outer) \/ i = Len(Outer) + 1
    BY <2>4
  <2>6. \A i \in 1..Len(Counted) : Counted[i].node \in 1..Len(ast)
    BY <1>4, <2>2, <2>4, <2>5 DEF VisitsOK
  <2> QED
    BY <1>3, <1>4, <2>4, <2>6 DEF VisitsOK
<1>7. 0 \in 0..Len(ast) /\ indent + 1 \in Nat /\ indent + 2 \in Nat
  BY <1>1, <1>2
<1>8. CASE Child
  <2>1. PICK p : p = Part
    OBVIOUS
  <2>2. p \in 1..Len(ast) /\ p \in 0..Len(ast)
    <3>1. NodeOK(text, ast, ast[Current.node], Current.node - 1)
      BY <1>5, Facts DEF AstOK
    <3>2. ast[Current.node].kids \in Seq(Nat) /\ Within(ast[Current.node].kids, 0..Current.node - 1)
      BY <3>1 DEF NodeOK, NodeType
    <3>3. Current.done + 1 \in 1..Len(ast[Current.node].kids)
      <4>1. Current.done < Len(ast[Current.node].kids)
        BY <1>8, Zenon DEF Child, HasPart
      <4>2. PICK c, l : c = Current.done /\ l = Len(ast[Current.node].kids)
        OBVIOUS
      <4>3. l \in Nat
        BY <3>2, <4>2, LenProperties
      <4> QED
        BY <1>5, <4>1, <4>2, <4>3
    <3>4. PICK ks, d, n : ks = ast[Current.node].kids /\ d = Current.done + 1 /\ n = Current.node - 1
      OBVIOUS
    <3>5. p = ks[d]
      BY <2>1, <3>4, Zenon DEF Part
    <3>6. Within(ks, 0..n) /\ d \in 1..Len(ks)
      BY <3>2, <3>3, <3>4, Zenon
    <3>7. p \in 0..n
      BY <3>5, <3>6, Zenon DEF Within
    <3>8. p # 0
      BY <1>8, <2>1 DEF Child
    <3> QED
      BY <1>1, <1>5, <3>4, <3>7, <3>8
  <2>3. /\ lines' = lines \o Caption(indent + 1) \o Line(p, indent + 2)
        /\ indent' = indent + 2 /\ visits' = Counted \o Visit(p)
    BY <1>8, <2>1 DEF Child
  <2>4. LinesOK(lines')
    BY <1>1, <1>2, <1>7, <2>2, <2>3, LinesOne, LinesJoin, Zenon DEF Caption
  <2>5. VisitsOK(visits') /\ Len(visits') = Len(visits) + 1
    <3>1. PICK v : v = [node |-> p, done |-> 0]
      OBVIOUS
    <3>2. v \in VisitType /\ v.node = p
      BY <2>2, <3>1 DEF VisitType
    <3>3. visits' = Append(Counted, v)
      BY <1>6, <2>3, <3>1, <3>2 DEF Visit
    <3>4. /\ visits' \in Seq(VisitType) /\ Len(visits') = Len(Counted) + 1 /\ Len(Counted) \in Nat
          /\ \A i \in 1..Len(Counted) : visits'[i] = Counted[i]
          /\ visits'[Len(Counted) + 1] = v
      BY <1>6, <3>2, <3>3, PushFacts
    <3>5. \A i \in 1..Len(Counted) + 1 : i \in 1..Len(Counted) \/ i = Len(Counted) + 1
      BY <3>4
    <3>6. \A i \in 1..Len(visits') : visits'[i].node \in 1..Len(ast)
      BY <1>6, <2>2, <3>2, <3>4, <3>5 DEF VisitsOK
    <3> QED
      BY <1>6, <3>4, <3>6 DEF VisitsOK
  <2>6. indent' = 2 * Len(visits')
    BY <1>2, <1>3, <2>3, <2>5
  <2> QED
    BY <1>1, <2>4, <2>5, <2>6, DumperKeeps
<1>9. CASE NoChild
  <2>1. /\ visits' = Counted /\ indent' = indent
        /\ lines' = lines \o Caption(indent + 1) \/ lines' = lines
    BY <1>9 DEF NoChild
  <2>2. LinesOK(lines')
    BY <1>1, <1>2, <1>7, <2>1, LinesOne, LinesJoin, Zenon DEF Caption
  <2> QED
    BY <1>1, <1>2, <1>6, <2>1, <2>2, DumperKeeps
<1>10. CASE Leave
  <2>1. /\ visits' = Outer /\ indent' = indent - 2 /\ lines' = lines
    BY <1>10 DEF Leave, Outdented
  <2>2. indent' = 2 * Len(visits')
    BY <1>2, <1>3, <1>4, <2>1
  <2> QED
    BY <1>1, <1>2, <1>4, <2>1, <2>2, DumperKeeps
<1> QED
  BY <1>8, <1>9, <1>10 DEF DumpStep

LEMMA AcceptShape ==
    ASSUME FrontendInv, Accept
    PROVE  FrontendInv'
<1>1. /\ pc = "parse" /\ phase = "return" /\ stack = <<>> /\ ret # 0 /\ parsed' = parsed \cup {start}
      /\ UNCHANGED <<table, parserVars, sawTopLevel, start, begun, dropped, defined>> /\ Options
  BY Zenon DEF Accept, Parsed
<1>2. /\ ParserInv /\ DumperInv /\ visits = <<>> /\ lines = <<>> /\ ast' = ast /\ text' = text
  BY <1>1 DEF FrontendInv, DriverInv, parserVars
<1>3. ParserInv'
  BY <1>1, <1>2, ParserStays
<1>4. start \in Position
  BY <1>1, Facts DEF FrontendInv, DriverInv, Position
<1>5. CASE Dump(ret) /\ pc' = "dump" /\ dumped' = dumped \cup {start}
  <2>1. DumperInv'
    BY <1>1, <1>2, <1>5, DumpBegins
  <2>2. DriverInv'
    BY <1>1, <1>4, <1>5 DEF FrontendInv, DriverInv, historyVars, parserVars, Options, Position
  <2> QED
    BY <1>3, <2>1, <2>2 DEF FrontendInv
<1>6. CASE pc' = "codegen" /\ UNCHANGED <<dumperVars, dumped>>
  <2>1. DumperInv'
    BY <1>2, <1>6, DumperStays
  <2>2. DriverInv'
    BY <1>1, <1>2, <1>4, <1>6 DEF FrontendInv, DriverInv, historyVars, parserVars, dumperVars, Options, Position
  <2> QED
    BY <1>3, <2>1, <2>2 DEF FrontendInv
<1> QED
  BY <1>5, <1>6, Zenon DEF Accept

LEMMA PrintShape ==
    ASSUME FrontendInv, PrintTree
    PROVE  FrontendInv'
<1>1. pc = "dump" /\ ParserInv /\ DumperInv
  BY DEF PrintTree, FrontendInv
<1>2. CASE visits # <<>>
  <2>1. DumpStep /\ UNCHANGED driverVars /\ UNCHANGED <<table, parserVars>>
    BY <1>2, Zenon DEF PrintTree, DumpStep
  <2>2. ParserInv'
    BY <1>1, <2>1, ParserStays
  <2>3. DumperInv'
    BY <1>1, <2>1, DumpGoesOn
  <2>4. DriverInv'
    BY <1>1, <2>1 DEF FrontendInv, DriverInv, historyVars, driverVars, parserVars, Position
  <2> QED
    BY <2>2, <2>3, <2>4 DEF FrontendInv
<1>3. CASE visits = <<>>
  <2>1. /\ pc' = "codegen" /\ UNCHANGED <<table, parserVars>> /\ UNCHANGED dumperVars
        /\ UNCHANGED <<sawTopLevel, start, historyVars>> /\ Options
    BY <1>3, Zenon DEF PrintTree
  <2>2. ParserInv'
    BY <1>1, <2>1, ParserStays
  <2>3. DumperInv'
    BY <1>1, <2>1, DumperStays DEF parserVars
  <2>4. DriverInv'
    BY <1>1, <1>3, <2>1 DEF FrontendInv, DriverInv, historyVars, parserVars, dumperVars, Options, Position
  <2> QED
    BY <2>2, <2>3, <2>4 DEF FrontendInv
<1> QED
  BY <1>2, <1>3

-----------------------------------------------------------------------------
\* The first invariant holds, and what follows from it.
LEMMA InitShape == Init => FrontendInv
<1> SUFFICES ASSUME Init PROVE FrontendInv
  OBVIOUS
<1>1. /\ table = Builtin /\ text \in Seq(Token) /\ pos = 1 /\ phase = "idle" /\ stack = <<>> /\ ret = 0
      /\ ast = <<>> /\ said = 0
  BY ParserAssumption DEF Init, TableInit, ParserInit
<1>2. Len(text) \in Nat
  BY <1>1, LenProperties
<1>3. StackOK(text, ast, stack) /\ AstOK(text, ast) /\ WorkOK(phase, stack, ret, said)
  BY <1>1 DEF StackOK, AstOK, WorkOK
<1>4. \A o \in DOMAIN table : o \in Char /\ table[o] \in 1..100
  BY <1>1, BuiltinOK DEF TableOK
<1>5. pos \in Position /\ ret \in 0..Len(ast)
  BY <1>1, <1>2 DEF Position
<1>6. ParserInv
  BY <1>1, <1>3, <1>4, <1>5 DEF ParserInv
<1>7. DumperInv
  BY DEF Init, DumperInit, DumperInv
<1>8. DriverInv
  <2>1. /\ pc = "loop" /\ mode \in Mode /\ dumpAST \in DumpAST /\ sawTopLevel = FALSE /\ start = 0
        /\ begun = {} /\ dropped = {} /\ parsed = {} /\ dumped = {} /\ defined = {} /\ lines = <<>> /\ visits = <<>>
    BY DEF Init, DumperInit
  <2>2. start \in 0..Len(text)
    BY <1>2, <2>1
  <2>3. /\ pc \in {"loop", "parse", "dump", "codegen", "end"} /\ sawTopLevel \in BOOLEAN
        /\ begun \subseteq Position /\ dropped \subseteq Position
        /\ parsed \subseteq Position /\ dumped \subseteq Position /\ defined \subseteq Position
        /\ pc \notin {"dump", "codegen"} /\ pc # "parse"
    BY <2>1
  <2> QED
    BY <1>1, <2>1, <2>2, <2>3 DEF DriverInv
<1> QED
  BY <1>6, <1>7, <1>8 DEF FrontendInv

LEMMA FrontendStep == ASSUME FrontendInv, [Next]_vars PROVE FrontendInv'
<1>1. CASE EndOfInput \/ Semicolon \/ SecondExpression
  BY <1>1, EndShape, SemicolonShape, Zenon
<1>2. CASE ReadDefinition \/ ReadExtern \/ ReadExpression
  BY <1>2, BeginShape
<1>3. CASE Parse \/ Recover \/ Accept \/ PrintTree \/ Generate \/ Declare
  BY <1>3, ParseShape, RecoverShape, AcceptShape, PrintShape, GenerateShape, Zenon
<1>4. CASE UNCHANGED vars
  <2>1. UNCHANGED <<table, parserVars>> /\ UNCHANGED dumperVars /\ UNCHANGED driverVars
    BY <1>4 DEF vars
  <2>2. ParserInv' /\ DumperInv'
    BY <2>1, ParserStays, DumperStays DEF FrontendInv, parserVars
  <2>3. DriverInv'
    BY <2>1 DEF FrontendInv, DriverInv, historyVars, driverVars, parserVars, dumperVars, Position
  <2> QED
    BY <2>2, <2>3 DEF FrontendInv
<1> QED
  BY <1>1, <1>2, <1>3, <1>4, Zenon DEF Next, Stopped

\* What the parser, the dumper and the loop refer to is there, wherever they are.
THEOREM FrontendShapeHolds == Spec => []FrontendInv
<1>1. FrontendInv /\ [Next]_vars => FrontendInv'
  BY FrontendStep
<1> QED
  BY InitShape, <1>1, PTL DEF Spec

\* Every position, node, name and part that the parser, the dumper and the loop hold is
\* one of the input and of the tree at hand, for any input: nothing refers to a token
\* that was not read or to a node that was not built.
THEOREM FrontendTypeCorrect == Spec => []FrontendTypeOK
<1>1. ASSUME FrontendInv PROVE FrontendTypeOK
  <2>1. /\ ParserInv /\ DumperInv /\ DriverInv /\ Len(text) \in Nat /\ Len(ast) \in Nat
        /\ StackOK(text, ast, stack) /\ AstOK(text, ast)
    BY <1>1, Facts DEF FrontendInv
  <2>2. said \in Nat
    BY <2>1 DEF ParserInv, WorkOK
  <2>3. ASSUME NEW i \in DOMAIN stack
        PROVE  /\ stack[i].fn \in Function /\ stack[i].at \in Position
               /\ \A k \in DOMAIN stack[i].kids : stack[i].kids[k] \in 0..Len(ast)
    <3>1. FrameOK(text, ast, stack[i])
      BY <2>1 DEF StackOK
    <3>2. stack[i].fn \in Function /\ stack[i].at \in Position /\ stack[i].kids \in Seq(Nat)
      BY <3>1 DEF FrameOK, FrameType, Position
    <3>3. DOMAIN stack[i].kids = 1..Len(stack[i].kids)
      BY <3>2
    <3> QED
      BY <3>1, <3>2, <3>3 DEF FrameOK, Within
  <2>4. ASSUME NEW i \in DOMAIN ast
        PROVE  /\ ast[i].kind \in Kind /\ ast[i].at \in Position /\ ast[i].prec \in {0} \cup 1..100
               /\ \A k \in DOMAIN ast[i].names : ast[i].names[k] \in 1..Len(text)
               /\ \A k \in DOMAIN ast[i].kids : ast[i].kids[k] < i
    <3>1. NodeOK(text, ast, ast[i], i - 1) /\ i \in Nat
      BY <2>1 DEF AstOK
    <3>2. /\ ast[i].kind \in Kind /\ ast[i].at \in Position /\ ast[i].prec \in 0..100
          /\ ast[i].names \in Seq(Nat) /\ ast[i].kids \in Seq(Nat)
      BY <3>1 DEF NodeOK, NodeType, Position
    <3>3. DOMAIN ast[i].names = 1..Len(ast[i].names) /\ DOMAIN ast[i].kids = 1..Len(ast[i].kids)
      BY <3>2
    <3>4. \A k \in DOMAIN ast[i].names : ast[i].names[k] \in 1..Len(text)
      BY <3>1, <3>3 DEF NodeOK, Within
    <3>5. \A k \in DOMAIN ast[i].kids : ast[i].kids[k] \in 0..i - 1
      BY <3>1, <3>3 DEF NodeOK, Within
    <3>6. \A z \in 0..i - 1 : z < i
      BY <3>1
    <3>7. ast[i].prec \in {0} \cup 1..100
      BY <3>2
    <3> QED
      BY <3>2, <3>4, <3>5, <3>6, <3>7
  <2>5. ParserTypeOK
    BY <2>1, <2>2, <2>3, <2>4 DEF ParserTypeOK, ParserInv
  <2>6. DumperTypeOK
    <3>1. indent \in Nat /\ LinesOK(lines) /\ VisitsOK(visits)
      BY <2>1, DumperParts
    <3>2. ASSUME NEW i \in DOMAIN lines
          PROVE  lines[i].indent \in Nat /\ lines[i].node \in 0..Len(ast)
      <4>1. PICK l : l = lines
        OBVIOUS
      <4>2. l \in Seq(LineType) /\ DOMAIN l = 1..Len(l)
        BY <3>1, <4>1 DEF LinesOK
      <4>3. l[i] \in LineType /\ l[i].node \in 0..Len(ast)
        BY <3>1, <4>1, <4>2 DEF LinesOK
      <4> QED
        BY <4>1, <4>3 DEF LineType
    <3>3. ASSUME NEW i \in DOMAIN visits
          PROVE  visits[i].node \in 1..Len(ast) /\ visits[i].done \in Nat
      <4>1. PICK l : l = visits
        OBVIOUS
      <4>2. l \in Seq(VisitType) /\ DOMAIN l = 1..Len(l)
        BY <3>1, <4>1 DEF VisitsOK
      <4>3. l[i] \in VisitType /\ l[i].node \in 1..Len(ast)
        BY <3>1, <4>1, <4>2 DEF VisitsOK
      <4> QED
        BY <4>1, <4>3 DEF VisitType
    <3>4. DOMAIN ast = 1..Len(ast)
      BY <2>1 DEF AstOK
    <3> QED
      BY <3>1, <3>2, <3>3, <3>4 DEF DumperTypeOK
  <2> QED
    BY <2>1, <2>5, <2>6 DEF FrontendTypeOK, DriverInv
<1>2. FrontendInv => FrontendTypeOK
  BY <1>1
<1> QED
  BY FrontendShapeHolds, <1>2, PTL

\* A construct that fails has printed one diagnostic when its null reaches the driver,
\* and one that parses none, for any input.
THEOREM OneDiagnosticHolds == Spec => []OneDiagnostic
<1>1. FrontendInv => OneDiagnostic
  BY DEF FrontendInv, ParserInv, WorkOK, OneDiagnostic, Parsed
<1> QED
  BY FrontendShapeHolds, <1>1, PTL

-----------------------------------------------------------------------------
\* No keyword is passed over.
Begins(p) == text[p] \in {"def", "extern"}

LEMMA StepsPassNone ==
    ASSUME text \in Seq(Token), NEW p \in Position, NEW q, Steps(p, q), NEW r \in p..q - 1
    PROVE  ~Begins(r)
<1>1. Tok(r) \in Inner /\ q \in Position
  BY DEF Steps
<1>2. Len(text) \in Nat
  BY LenProperties
<1>3. r \in Position
  BY <1>1, <1>2 DEF Position
<1>4. Tok(r) # "eof"
  BY <1>1, InnerNever
<1>5. Tok(r) = text[r]
  BY <1>3, <1>4, TokHere
<1> QED
  BY <1>1, <1>5, InnerNever, Zenon DEF Begins

LEMMA Ranges ==
    ASSUME NEW m \in Nat, NEW n \in Nat
    PROVE  /\ \A p \in 1..n - 1 : p \in 1..m - 1 \/ p \in m..n - 1
           /\ \A p \in m..n - 1 : p = m \/ p \in m + 1..n - 1
           /\ n = m => \A p \in m..n - 1 : FALSE
           /\ n = m + 1 => \A p \in m..n - 1 : p = m
OBVIOUS

LEMMA KeywordsKept ==
    ASSUME KeywordsBeginConstructs, text' = text, pos \in Nat, pos' \in Nat,
           begun \subseteq begun', dropped \subseteq dropped',
           \A p \in pos..pos' - 1 : Begins(p) => p \in begun' \cup dropped'
    PROVE  KeywordsBeginConstructs'
<1>1. \A p \in 1..pos - 1 : Begins(p) => p \in begun \cup dropped
  BY Zenon DEF KeywordsBeginConstructs, Begins
<1>2. \A p \in 1..pos' - 1 : p \in 1..pos - 1 \/ p \in pos..pos' - 1
  BY Ranges
<1>3. \A p \in 1..pos' - 1 : Begins(p) => p \in begun' \cup dropped'
  BY <1>1, <1>2, Zenon
<1> QED
  BY <1>3, Zenon DEF KeywordsBeginConstructs, Begins

LEMMA KeywordsStep ==
    ASSUME FrontendInv, KeywordsBeginConstructs, [Next]_vars
    PROVE  KeywordsBeginConstructs'
<1>1. FrontendInv' /\ ParserInv /\ text \in Seq(Token) /\ pos \in Position /\ pos \in Nat
  BY FrontendStep, Facts DEF FrontendInv, ParserInv
<1>2. pos' \in Nat
  <2>1. pos' \in 1..Len(text') + 1
    BY <1>1 DEF FrontendInv, ParserInv, Position
  <2> QED
    BY <2>1
<1>3. ASSUME UNCHANGED <<text, pos, begun, dropped>> PROVE KeywordsBeginConstructs'
  BY <1>3 DEF KeywordsBeginConstructs
<1>4. CASE EndOfInput \/ SecondExpression \/ Accept
  <2>1. UNCHANGED <<text, pos, begun, dropped>>
    BY <1>4, Zenon DEF EndOfInput, SecondExpression, Accept, parserVars, historyVars
  <2> QED
    BY <1>3, <2>1
<1>5. CASE PrintTree
  <2>1. UNCHANGED <<text, pos, begun, dropped>>
    BY <1>5, Zenon DEF PrintTree, DumpStep, parserVars, driverVars, historyVars
  <2> QED
    BY <1>3, <2>1
<1>6. CASE Generate \/ Declare
  <2>1. UNCHANGED <<text, pos, begun, dropped>>
    BY <1>6, Zenon DEF Generate, Declare, NextConstruct, historyVars
  <2> QED
    BY <1>3, <2>1
<1>7. CASE Semicolon
  <2>1. pos' = Behind(pos) /\ UNCHANGED <<text, begun, dropped>>
    BY <1>7, Zenon DEF Semicolon, historyVars
  <2>2. CurTok # "eof" /\ CurTok \notin {"def", "extern"}
    BY <1>7, Zenon DEF Semicolon
  <2>3. pos \in 1..Len(text) /\ CurTok = text[pos]
    BY <1>1, <2>2, WordHere
  <2>4. ~Begins(pos)
    BY <2>2, <2>3, Zenon DEF Begins
  <2>5. pos' = pos + 1
    <3>1. pos <= Len(text)
      BY <1>1, <2>3
    <3>2. Behind(pos) = pos + 1
      BY <1>1, <3>1, BehindFacts
    <3> QED
      BY <2>1, <3>2
  <2>6. \A p \in pos..pos' - 1 : p = pos
    BY <1>1, <1>2, <2>5, Ranges
  <2>7. \A p \in pos..pos' - 1 : Begins(p) => p \in begun' \cup dropped'
    BY <2>4, <2>6, Zenon
  <2>8. text' = text /\ begun \subseteq begun' /\ dropped \subseteq dropped'
    BY <2>1
  <2> QED
    BY <1>1, <1>2, <2>7, <2>8, KeywordsKept, Zenon
<1>8. CASE ReadDefinition \/ ReadExtern \/ ReadExpression
  <2>1. begun' = begun \cup {pos} /\ UNCHANGED <<text, dropped>> /\ Opened /\ CurTok # "eof"
    BY <1>8, BeginFacts
  <2>2. pos + 1 \in Position
    BY <1>1, <2>1, WordHere
  <2>3. \A p \in pos..pos' - 1 : p = pos \/ p \in pos + 1..pos' - 1
    BY <1>1, <1>2, Ranges
  <2>4. CASE pos' = pos
    <3>1. \A p \in pos..pos' - 1 : FALSE
      BY <1>1, <1>2, <2>4, Ranges
    <3> QED
      BY <1>1, <1>2, <2>1, <3>1, KeywordsKept
  <2>5. CASE Steps(pos + 1, pos')
    <3>1. \A p \in pos + 1..pos' - 1 : ~Begins(p)
      BY <1>1, <2>2, <2>5, StepsPassNone
    <3>2. \A p \in pos..pos' - 1 : Begins(p) => p \in begun'
      BY <2>1, <2>3, <3>1, Zenon
    <3> QED
      BY <1>1, <1>2, <2>1, <3>2, KeywordsKept
  <2> QED
    BY <2>1, <2>4, <2>5 DEF Opened
<1>9. CASE Parse
  <2>1. ParseStep /\ UNCHANGED <<text, begun, dropped>>
    BY <1>9, Zenon DEF Parse, ParseStep, driverVars, historyVars
  <2>2. Steps(pos, pos')
    BY <1>1, <2>1, ParserStepGood DEF Good
  <2>3. \A p \in pos..pos' - 1 : ~Begins(p)
    BY <1>1, <2>2, StepsPassNone
  <2> QED
    BY <1>1, <1>2, <2>1, <2>3, KeywordsKept
<1>10. CASE Recover
  <2>1. pos' = Behind(pos) /\ dropped' = dropped \cup {pos} /\ UNCHANGED <<text, begun>>
    BY <1>10, Zenon DEF Recover, Recovered, NextConstruct
  <2>2. pos' = pos \/ pos' = pos + 1
    BY <2>1 DEF Behind
  <2>3. \A p \in pos..pos' - 1 : p = pos
    BY <1>1, <1>2, <2>2, Ranges
  <2>4. \A p \in pos..pos' - 1 : Begins(p) => p \in begun' \cup dropped'
    BY <2>1, <2>3, Zenon
  <2>5. text' = text /\ begun \subseteq begun' /\ dropped \subseteq dropped'
    BY <2>1
  <2> QED
    BY <1>1, <1>2, <2>4, <2>5, KeywordsKept, Zenon
<1>11. CASE UNCHANGED vars
  BY <1>3, <1>11 DEF vars, parserVars, driverVars, historyVars
<1> QED
  BY <1>4, <1>5, <1>6, <1>7, <1>8, <1>9, <1>10, <1>11, Zenon DEF Next, Stopped

\* Whatever errors the input has, each `def` and each `extern` that is passed began a
\* construct or is the one token that error recovery dropped: no definition is lost
\* inside another construct, for any input.
THEOREM KeywordsHolds == Spec => []KeywordsBeginConstructs
<1>1. Init => KeywordsBeginConstructs
  <2> SUFFICES ASSUME Init PROVE KeywordsBeginConstructs
    OBVIOUS
  <2>1. pos = 1
    BY DEF Init, ParserInit
  <2>2. \A p \in 1..pos - 1 : FALSE
    BY <2>1
  <2> QED
    BY <2>2, Zenon DEF KeywordsBeginConstructs
<1>2. FrontendInv /\ KeywordsBeginConstructs /\ [Next]_vars => KeywordsBeginConstructs'
  BY KeywordsStep
<1> QED
  BY FrontendShapeHolds, <1>1, <1>2, PTL DEF Spec

-----------------------------------------------------------------------------
\* Each construct takes a token.
LEMMA UnaryAdvances ==
    ASSUME ParserInv, ParseStep, phase = "unary"
    PROVE  phase' = "unary" \/ (phase' = "return" /\ ret' = 0) \/ pos' # pos
<1>1. pos \in Nat
  BY Facts
<1>2. \A s, p : Wait(s, p) => phase' = "unary"
  BY Zenon DEF Wait, Expression
<1>3. \A s, p : Fail(s, p) => phase' = "return" /\ ret' = 0
  BY Zenon DEF Fail, Return
<1>4. \A s, x, p : Build(s, x, p) => pos' = p
  BY Zenon DEF Build
<1>5. CASE ParseNumber
  <2>1. pos' = pos + 1
    BY <1>4, <1>5, Zenon DEF ParseNumber
  <2> QED
    BY <1>1, <2>1
<1>6. CASE ParseIdentifier
  <2>1. pos' = pos + 1 \/ pos' = (pos + 1) + 2 \/ phase' = "unary"
    BY <1>2, <1>4, <1>6, Zenon DEF ParseIdentifier
  <2> QED
    BY <1>1, <2>1
<1>7. CASE ParseParen \/ ParseIf
  BY <1>2, <1>7, Zenon DEF ParseParen, ParseIf
<1>8. CASE ParseFor
  BY <1>2, <1>3, <1>8, Zenon DEF ParseFor
<1>9. CASE ParseVar
  <2>1. pos' = pos + 1
    BY <1>9 DEF ParseVar
  <2> QED
    BY <1>1, <2>1
<1>10. CASE ParseUnary
  BY <1>10 DEF ParseUnary
<1>11. CASE ParseNothing
  BY <1>3, <1>11, Zenon DEF ParseNothing
<1>12. \A f : ~Got(f)
  BY DEF Got
<1>13. phase # "name" /\ phase # "binop" /\ phase # "return"
  OBVIOUS
<1>14. ~ (CallArgument \/ CloseParen \/ IfPart \/ ForPart \/ VarInit \/ VarBody \/ UnaryDone)
  BY <1>12, Zenon DEF CallArgument, CloseParen, IfPart, ForPart, VarInit, VarBody, UnaryDone
<1>15. ~ (UnaryParsed \/ BindsRight \/ Merge \/ Definition \/ TopLevel)
  BY <1>12, Zenon DEF UnaryParsed, BindsRight, Merge, Definition, TopLevel
<1>16. ~ (VarName \/ NoOperator \/ TakeOperator \/ PartFails)
  BY <1>13, Zenon DEF VarName, NoOperator, TakeOperator, PartFails
<1> QED
  BY <1>5, <1>6, <1>7, <1>8, <1>9, <1>10, <1>11, <1>14, <1>15, <1>16, Zenon DEF ParseStep

\* Once a part has failed, the functions that wait only return.
LEMMA FailedOnlyReturns ==
    ASSUME ParseStep, phase = "return", ret = 0
    PROVE  PartFails
<1>1. \A f : ~Got(f)
  BY DEF Got
<1>2. phase # "name" /\ phase # "binop" /\ phase # "unary"
  OBVIOUS
<1>3. ~ (CallArgument \/ CloseParen \/ IfPart \/ ForPart \/ VarInit \/ VarBody \/ UnaryDone)
  BY <1>1, Zenon DEF CallArgument, CloseParen, IfPart, ForPart, VarInit, VarBody, UnaryDone
<1>4. ~ (UnaryParsed \/ BindsRight \/ Merge \/ Definition \/ TopLevel)
  BY <1>1, Zenon DEF UnaryParsed, BindsRight, Merge, Definition, TopLevel
<1>5. ~ (VarName \/ NoOperator \/ TakeOperator)
  BY <1>2, Zenon DEF VarName, NoOperator, TakeOperator
<1>6. ~ (ParseNumber \/ ParseIdentifier \/ ParseParen \/ ParseIf \/ ParseFor \/ ParseVar \/ ParseUnary \/ ParseNothing)
  BY <1>2, Zenon DEF ParseNumber, ParseIdentifier, ParseParen, ParseIf, ParseFor, ParseVar, ParseUnary,
                     ParseNothing, At
<1> QED
  BY <1>3, <1>4, <1>5, <1>6, Zenon DEF ParseStep

LEMMA AdvancedStep ==
    ASSUME FrontendInv, Advanced, [Next]_vars
    PROVE  Advanced'
<1>1. FrontendInv' /\ ParserInv /\ text \in Seq(Token) /\ pos \in Position /\ pos \in Nat
  BY FrontendStep, Facts DEF FrontendInv, ParserInv
<1>2. pos' \in Nat
  <2>1. pos' \in 1..Len(text') + 1
    BY <1>1 DEF FrontendInv, ParserInv, Position
  <2> QED
    BY <2>1
<1>3. CASE EndOfInput \/ SecondExpression \/ Semicolon
  <2>1. pc' = "end" \/ (pc = "loop" /\ pc' = pc)
    BY <1>3, Zenon DEF EndOfInput, SecondExpression, Semicolon
  <2> QED
    BY <2>1 DEF Advanced
<1>4. CASE Recover \/ Generate \/ Declare
  <2>1. pc' = "loop"
    BY <1>4, Zenon DEF Recover, Generate, Declare, NextConstruct
  <2> QED
    BY <2>1 DEF Advanced
<1>5. CASE Accept \/ PrintTree
  <2>1. pc' = "dump" \/ pc' = "codegen" \/ (pc = "dump" /\ pc' = pc)
    BY <1>5, Zenon DEF Accept, PrintTree, driverVars
  <2> QED
    BY <2>1 DEF Advanced
<1>6. CASE ReadDefinition \/ ReadExtern \/ ReadExpression
  <2>1. start' = pos /\ Opened
    BY <1>6, BeginFacts
  <2>2. pos' = pos \/ pos' >= pos + 1
    BY <2>1 DEF Opened, Steps
  <2>3. pos' >= pos /\ (pos' # pos => pos' > pos)
    BY <1>1, <1>2, <2>2
  <2>4. phase' \notin {"binop", "name"} /\ ((phase' = "return" /\ ret' # 0) => pos' # pos)
    BY <2>1 DEF Opened
  <2> QED
    BY <2>1, <2>3, <2>4 DEF Advanced
<1>7. CASE Parse
  <2>1. ParseStep /\ pc = "parse" /\ start' = start
    BY <1>7, Zenon DEF Parse, driverVars
  <2>2. pos' >= pos /\ pos >= start /\ start \in Int
    <3>1. Steps(pos, pos')
      BY <1>1, <2>1, ParserStepGood DEF Good
    <3>2. start \in 0..Len(text)
      BY DEF FrontendInv, DriverInv
    <3> QED
      BY <1>1, <2>1, <3>1, <3>2 DEF Advanced, Steps
  <2>3. phase \in {"unary", "binop", "name", "return"}
    BY <1>1, <2>1 DEF FrontendInv, DriverInv, ParserInv
  <2>4. CASE phase = "unary"
    <3>1. phase' = "unary" \/ (phase' = "return" /\ ret' = 0) \/ pos' # pos
      BY <1>1, <2>1, <2>4, UnaryAdvances
    <3> QED
      BY <1>1, <1>2, <2>1, <2>2, <3>1 DEF Advanced
  <2>5. CASE phase = "return" /\ ret = 0
    <3>1. phase' = "return" /\ ret' = 0
      BY <2>1, <2>5, FailedOnlyReturns DEF PartFails, Return
    <3> QED
      BY <1>1, <1>2, <2>1, <2>2, <3>1 DEF Advanced
  <2>6. CASE phase \in {"binop", "name"} \/ (phase = "return" /\ ret # 0)
    <3>1. pos > start
      BY <2>1, <2>6 DEF Advanced
    <3> QED
      BY <1>1, <1>2, <2>1, <2>2, <3>1 DEF Advanced
  <2> QED
    BY <2>3, <2>4, <2>5, <2>6
<1>8. CASE UNCHANGED vars
  BY <1>8 DEF Advanced, vars, parserVars, driverVars
<1> QED
  BY <1>3, <1>4, <1>5, <1>6, <1>7, <1>8, Zenon DEF Next, Stopped

-----------------------------------------------------------------------------
\* The loop and the parser are the reader that Compile supposes.
Left  == Len(text) + 1 - (IF pc = "parse" THEN start ELSE pos)
Place == CASE pc = "parse" -> "loop" [] pc = "dump" -> "codegen" [] OTHER -> pc

LEMMA ReadingIs ==
    /\ Reading!Init <=> Left \in Nat /\ Place = "loop" /\ sawTopLevel = FALSE
    /\ Reading!Take <=> /\ Place = "loop" /\ Left' \in 0..Left - 1 /\ Place' \in {"loop", "codegen"}
                        /\ UNCHANGED sawTopLevel
    /\ Reading!Generate <=> /\ Place = "codegen" /\ Place' = "loop"
                            /\ sawTopLevel' \in {sawTopLevel, TRUE} /\ UNCHANGED Left
    /\ Reading!End <=> /\ Place = "loop" /\ (Left = 0 \/ sawTopLevel) /\ Place' = "end"
                       /\ UNCHANGED <<Left, sawTopLevel>>
    /\ UNCHANGED Reading!rvars <=> UNCHANGED <<Left, Place, sawTopLevel>>
BY Zenon DEF Reading!Init, Reading!Take, Reading!Generate, Reading!End, Reading!rvars, Left, Place

LEMMA PlaceOf ==
    /\ pc \in {"loop", "parse"} => Place = "loop"
    /\ pc \in {"dump", "codegen"} => Place = "codegen"
    /\ pc = "end" => Place = "end"
    /\ pc' \in {"loop", "parse"} => Place' = "loop"
    /\ pc' \in {"dump", "codegen"} => Place' = "codegen"
    /\ pc' = "end" => Place' = "end"
BY DEF Place

LEMMA LeftOf ==
    /\ pc # "parse" => Left = Len(text) + 1 - pos
    /\ pc = "parse" => Left = Len(text) + 1 - start
    /\ pc' # "parse" => Left' = Len(text') + 1 - pos'
    /\ pc' = "parse" => Left' = Len(text') + 1 - start'
BY DEF Left

LEMMA TakeShape ==
    ASSUME FrontendInv, Advanced, Semicolon \/ Recover \/ Accept
    PROVE  Reading!Take
<1>1. /\ text \in Seq(Token) /\ pos \in Position /\ Len(text) \in Nat /\ pos \in 1..Len(text) + 1
      /\ pos \in Nat
  BY Facts DEF FrontendInv, ParserInv
<1>2. CASE Semicolon
  <2>1. /\ pc = "loop" /\ pc' = pc /\ text' = text /\ pos' = Behind(pos) /\ UNCHANGED sawTopLevel
    BY <1>2, Zenon DEF Semicolon
  <2>2. CurTok # "eof"
    BY <1>2, Zenon DEF Semicolon
  <2>3. pos \in 1..Len(text)
    BY <1>1, <2>2, WordHere
  <2>4. pos <= Len(text)
    BY <1>1, <2>3
  <2>5. Behind(pos) = pos + 1
    BY <1>1, <2>4, BehindFacts
  <2>6. Left = Len(text) + 1 - pos /\ Left' = Len(text) + 1 - (pos + 1)
    BY <2>1, <2>5, LeftOf
  <2>7. Left' \in 0..Left - 1
    BY <1>1, <2>3, <2>6
  <2>8. Place = "loop" /\ Place' = "loop"
    BY <2>1, PlaceOf
  <2> QED
    BY <2>1, <2>7, <2>8, ReadingIs
<1>3. CASE Recover
  <2>1. /\ pc = "parse" /\ pc' = "loop" /\ text' = text /\ pos' = Behind(pos) /\ UNCHANGED sawTopLevel
    BY <1>3, Zenon DEF Recover, Recovered, NextConstruct
  <2>2. start \in 1..Len(text) /\ pos >= start
    BY <1>1, <2>1 DEF FrontendInv, DriverInv, Advanced
  <2>3. Left = Len(text) + 1 - start /\ Left' = Len(text) + 1 - Behind(pos)
    BY <2>1, LeftOf
  <2>4. Behind(pos) \in 1..Len(text) + 1 /\ Behind(pos) > start
    <3>1. CASE pos <= Len(text)
      BY <1>1, <2>2, <3>1, BehindFacts DEF Position
    <3>2. CASE ~ (pos <= Len(text))
      <4>1. Behind(pos) = pos
        BY <3>2 DEF Behind
      <4> QED
        BY <1>1, <2>2, <3>2, <4>1
    <3> QED
      BY <3>1, <3>2
  <2>5. Left' \in 0..Left - 1
    BY <1>1, <2>2, <2>3, <2>4
  <2>6. Place = "loop" /\ Place' = "loop"
    BY <2>1, PlaceOf
  <2> QED
    BY <2>1, <2>5, <2>6, ReadingIs
<1>4. CASE Accept
  <2>1. /\ pc = "parse" /\ pc' \in {"dump", "codegen"} /\ text' = text /\ pos' = pos
        /\ UNCHANGED sawTopLevel /\ phase = "return" /\ ret # 0
    BY <1>4, Zenon DEF Accept, Parsed, parserVars
  <2>2. start \in 1..Len(text) /\ pos > start
    BY <1>1, <2>1 DEF FrontendInv, DriverInv, Advanced
  <2>3. Left = Len(text) + 1 - start /\ Left' = Len(text) + 1 - pos
    BY <2>1, LeftOf
  <2>4. Left' \in 0..Left - 1
    BY <1>1, <2>2, <2>3
  <2>5. Place = "loop" /\ Place' = "codegen"
    BY <2>1, PlaceOf
  <2> QED
    BY <2>1, <2>4, <2>5, ReadingIs
<1> QED
  BY <1>2, <1>3, <1>4

LEMMA EndsShape ==
    ASSUME FrontendInv, EndOfInput \/ SecondExpression
    PROVE  Reading!End
<1>1. /\ pc = "loop" /\ pc' = "end" /\ UNCHANGED <<text, pos, sawTopLevel>>
      /\ CurTok = "eof" \/ sawTopLevel
  BY Zenon DEF EndOfInput, SecondExpression, parserVars
<1>2. /\ text \in Seq(Token) /\ Len(text) \in Nat /\ pos \in 1..Len(text) + 1
  BY Facts DEF FrontendInv
<1>3. UNCHANGED Left /\ Place = "loop" /\ Place' = "end" /\ Left = Len(text) + 1 - pos
  BY <1>1, LeftOf, PlaceOf
<1>4. CurTok = "eof" => Left = 0
  <2> SUFFICES ASSUME CurTok = "eof" PROVE Left = 0
    OBVIOUS
  <2>1. CASE pos <= Len(text)
    <3>1. pos \in 1..Len(text) /\ CurTok = text[pos]
      BY <1>2, <2>1 DEF CurTok, Tok
    <3>2. text[pos] \in Token
      BY <1>2, <3>1
    <3> QED
      BY <3>1, <3>2, TokenAssumption, Zenon
  <2>2. CASE ~ (pos <= Len(text))
    BY <1>2, <1>3, <2>2
  <2> QED
    BY <2>1, <2>2
<1> QED
  BY <1>1, <1>3, <1>4, ReadingIs

LEMMA GeneratesShape ==
    ASSUME FrontendInv, Generate \/ Declare
    PROVE  Reading!Generate
<1>1. /\ pc = "codegen" /\ pc' = "loop" /\ UNCHANGED <<text, pos>>
  BY Zenon DEF Generate, Declare, NextConstruct
<1>2. sawTopLevel' \in {sawTopLevel, TRUE}
  <2>1. sawTopLevel \in BOOLEAN
    BY DEF FrontendInv, DriverInv
  <2>2. CASE Declare
    BY <2>2 DEF Declare
  <2>3. CASE Generate
    <3>1. \/ sawTopLevel' = sawTopLevel
          \/ sawTopLevel' = (sawTopLevel \/ (mode = "compile" /\ IsExpression(ret)))
      BY <2>3, Zenon DEF Generate
    <3> QED
      BY <2>1, <3>1, Zenon
  <2> QED
    BY <2>2, <2>3, Zenon
<1>3. UNCHANGED Left /\ Place = "codegen" /\ Place' = "loop"
  BY <1>1, LeftOf, PlaceOf
<1> QED
  BY <1>1, <1>2, <1>3, ReadingIs, Zenon

LEMMA ReadingStep ==
    ASSUME FrontendInv, Advanced, [Next]_vars
    PROVE  [Reading!Next]_Reading!rvars
<1>1. ASSUME UNCHANGED <<Left, Place, sawTopLevel>> PROVE UNCHANGED Reading!rvars
  BY <1>1, ReadingIs
<1>2. CASE Semicolon \/ Recover \/ Accept
  BY <1>2, TakeShape, Zenon DEF Reading!Next
<1>3. CASE EndOfInput \/ SecondExpression
  BY <1>3, EndsShape, Zenon DEF Reading!Next
<1>4. CASE Generate \/ Declare
  BY <1>4, GeneratesShape, Zenon DEF Reading!Next
<1>5. CASE ReadDefinition \/ ReadExtern \/ ReadExpression
  <2>1. pc = "loop" /\ pc' = "parse" /\ start' = pos /\ UNCHANGED <<text, sawTopLevel>>
    BY <1>5, BeginFacts
  <2>2. UNCHANGED Left /\ UNCHANGED Place
    BY <2>1, LeftOf, PlaceOf
  <2> QED
    BY <1>1, <2>1, <2>2
<1>6. CASE Parse
  <2>1. pc = "parse" /\ pc' = pc /\ start' = start /\ UNCHANGED <<text, sawTopLevel>>
    BY <1>6, Zenon DEF Parse, ParseStep, driverVars
  <2>2. UNCHANGED Left /\ UNCHANGED Place
    BY <2>1, LeftOf, PlaceOf
  <2> QED
    BY <1>1, <2>1, <2>2
<1>7. CASE PrintTree
  <2>1. pc = "dump" /\ pc' \in {"dump", "codegen"} /\ UNCHANGED <<text, pos, sawTopLevel>>
    <3>1. pc = "dump" /\ (pc' = pc \/ pc' = "codegen") /\ UNCHANGED <<text, pos, sawTopLevel>>
      BY <1>7, Zenon DEF PrintTree, DumpStep, driverVars, parserVars
    <3> QED
      BY <3>1
  <2>2. UNCHANGED Left /\ UNCHANGED Place
    BY <2>1, LeftOf, PlaceOf
  <2> QED
    BY <1>1, <2>1, <2>2
<1>8. CASE UNCHANGED vars
  <2>1. UNCHANGED <<pc, start, text, pos, sawTopLevel>>
    BY <1>8, Zenon DEF vars, parserVars, driverVars
  <2> QED
    BY <1>1, <2>1 DEF Left, Place
<1> QED
  BY <1>2, <1>3, <1>4, <1>5, <1>6, <1>7, <1>8, Zenon DEF Next, Stopped

\* The loop of a driver over the parser is a reader: whatever the input and whatever the
\* verdicts of code generation, each construct takes a token at least, an accepted one
\* goes to code generation next, and the loop stops only where it may.  (The safety part
\* of ImplementsReader.)
THEOREM ReaderImplemented == Spec => Reading!Init /\ [][Reading!Next]_Reading!rvars
<1>1. Init => Advanced
  BY DEF Init, Advanced
<1>2. Init => Reading!Init
  <2> SUFFICES ASSUME Init PROVE Reading!Init
    OBVIOUS
  <2>1. FrontendInv /\ pc = "loop" /\ pos = 1 /\ sawTopLevel = FALSE
    BY InitShape DEF Init, ParserInit
  <2>2. Len(text) \in Nat
    BY <2>1, Facts DEF FrontendInv
  <2>3. Left \in Nat /\ Place = "loop"
    BY <2>1, <2>2, LeftOf, PlaceOf
  <2> QED
    BY <2>1, <2>3, ReadingIs
<1>3. FrontendInv /\ Advanced /\ [Next]_vars => Advanced'
  BY AdvancedStep
<1>4. FrontendInv /\ Advanced /\ [Next]_vars => [Reading!Next]_Reading!rvars
  BY ReadingStep
<1> QED
  BY FrontendShapeHolds, <1>1, <1>2, <1>3, <1>4, PTL DEF Spec

-----------------------------------------------------------------------------
\* How the second invariant survives a longer tree, a shorter and a longer stack.
LEMMA TreeGrows ==
    ASSUME NEW P, NEW t \in Seq(Token), NEW a, AstOK(t, a), TreeGrouped(P, a),
           NEW x \in NodeType, Grouped(P, Append(a, x), x)
    PROVE  TreeGrouped(P, Append(a, x))
<1>1. a \in Seq(NodeType)
  BY DEF AstOK
<1>2. PICK b : b = Append(a, x)
  OBVIOUS
<1>3. /\ Len(b) = Len(a) + 1 /\ Len(a) \in Nat /\ \A i \in 1..Len(a) : b[i] = a[i]
      /\ b[Len(a) + 1] = x
  BY <1>1, <1>2, PushFacts
<1>4. ASSUME NEW i \in 1..Len(a) PROVE Grouped(P, b, a[i])
  <2>1. PICK y : y = a[i]
    OBVIOUS
  <2>2. Grouped(P, a, y) /\ NodeOK(t, a, y, i - 1)
    BY <2>1 DEF TreeGrouped, AstOK
  <2>3. ASSUME y.kind \in Operations \cup {"unary"}
        PROVE  b[y.kids[1]] = a[y.kids[1]] /\ b[y.kids[Len(y.kids)]] = a[y.kids[Len(y.kids)]]
    <3>1. y.kids # <<>> /\ y.kids[1] # 0 /\ y.kids[Len(y.kids)] # 0
      BY <2>2, <2>3 DEF Grouped
    <3>2. y.kids \in Seq(Nat) /\ Within(y.kids, 0..i - 1)
      BY <2>2 DEF NodeOK, NodeType
    <3>3. 1 \in 1..Len(y.kids) /\ Len(y.kids) \in 1..Len(y.kids)
      BY <3>1, <3>2, PopFacts
    <3>4. y.kids[1] \in 0..i - 1 /\ y.kids[Len(y.kids)] \in 0..i - 1
      BY <3>2, <3>3 DEF Within
    <3>5. \A n \in 0..i - 1 : n # 0 => n \in 1..Len(a)
      BY <1>3
    <3>6. y.kids[1] \in 1..Len(a) /\ y.kids[Len(y.kids)] \in 1..Len(a)
      BY <3>1, <3>4, <3>5, Zenon
    <3> QED
      BY <1>3, <3>6
  <2>4. Grouped(P, b, y)
    BY <2>2, <2>3 DEF Grouped
  <2> QED
    BY <2>1, <2>4
<1>5. \A i \in 1..Len(a) + 1 : i \in 1..Len(a) \/ i = Len(a) + 1
  BY <1>3
<1>6. TreeGrouped(P, b)
  BY <1>2, <1>3, <1>4, <1>5 DEF TreeGrouped
<1> QED
  BY <1>2, <1>6

LEMMA NestedGrows ==
    ASSUME NEW P, NEW t, NEW a \in Seq(NodeType), NEW s, StackOK(t, a, s), NEW p,
           Nested(P, a, s, p), NEW x \in NodeType
    PROVE  Nested(P, Append(a, x), s, p)
<1>1. PICK b : b = Append(a, x)
  OBVIOUS
<1>2. Len(a) \in Nat /\ \A i \in 1..Len(a) : b[i] = a[i]
  BY <1>1, PushFacts
<1>3. ASSUME NEW i \in 1..Len(s), s[i].fn \in Climbs PROVE Climbing(P, b, s[i])
  <2>1. PICK f : f = s[i]
    OBVIOUS
  <2>2. Climbing(P, a, f) /\ FrameOK(t, a, f)
    BY <1>3, <2>1 DEF Nested, StackOK
  <2>3. f.kids[1] \in 0..Len(a) /\ f.kids[1] # 0
    BY <1>3, <2>1, <2>2 DEF FrameOK, Within
  <2>4. b[f.kids[1]] = a[f.kids[1]]
    BY <1>2, <2>3
  <2>5. Climbing(P, b, f)
    BY <2>2, <2>4 DEF Climbing
  <2> QED
    BY <2>1, <2>5
<1>4. Nested(P, b, s, p)
  BY <1>3 DEF Nested
<1> QED
  BY <1>1, <1>4

LEMMA NestedOn ==
    ASSUME NEW P, NEW a, NEW s \in Seq(FrameType), NEW p \in Nat, NEW q \in Nat, p <= q,
           Nested(P, a, s, p)
    PROVE  Nested(P, a, s, q)
<1>1. ASSUME NEW i \in 1..Len(s) PROVE s[i].at <= q /\ s[i].op < q
  <2>1. PICK f \in FrameType : f = s[i]
    OBVIOUS
  <2>2. f.at \in Nat /\ f.op \in Nat
    BY <2>1 DEF FrameType
  <2>3. f.at <= p /\ f.op < p
    BY <2>1 DEF Nested
  <2>4. f.at <= q /\ f.op < q
    BY <2>2, <2>3
  <2> QED
    BY <2>1, <2>4
<1> QED
  BY <1>1 DEF Nested

LEMMA NestedPop ==
    ASSUME NEW P, NEW a, stack \in Seq(FrameType), stack # <<>>, NEW p, Nested(P, a, stack, p)
    PROVE  /\ Nested(P, a, Rest, p) /\ Rest \in Seq(FrameType)
           /\ Top.at <= p /\ Top.op < p /\ (Top.fn \in Climbs => Climbing(P, a, Top))
           /\ Rest # <<>> => Calls(P, Rest[Len(Rest)], Top) /\ Rest[Len(Rest)] \in FrameType
<1>1. /\ Rest \in Seq(FrameType) /\ Len(stack) \in Nat \ {0} /\ Len(Rest) = Len(stack) - 1
      /\ \A i \in 1..Len(stack) - 1 : Rest[i] = stack[i]
  BY PopFacts DEF Rest, AllButLast
<1>2. Len(stack) \in 1..Len(stack)
  BY <1>1
<1>3. Top.at <= p /\ Top.op < p /\ (Top.fn \in Climbs => Climbing(P, a, Top))
  BY <1>2 DEF Nested, Top
<1>4. Nested(P, a, Rest, p)
  <2>1. \A i \in 1..Len(Rest) : i \in 1..Len(stack) /\ Rest[i] = stack[i]
    BY <1>1
  <2>2. \A i \in 1..Len(Rest) - 1 : /\ i \in 1..Len(stack) - 1 /\ Rest[i] = stack[i]
                                    /\ Rest[i + 1] = stack[i + 1]
    BY <1>1
  <2> QED
    BY <2>1, <2>2 DEF Nested
<1>5. ASSUME Rest # <<>> PROVE Calls(P, Rest[Len(Rest)], Top) /\ Rest[Len(Rest)] \in FrameType
  <2>1. Len(Rest) \in Nat \ {0} /\ Rest[Len(Rest)] \in FrameType
    BY <1>1, <1>5, PopFacts
  <2>2. PICK n \in Nat : n = Len(Rest)
    BY <2>1
  <2>3. n \in 1..Len(stack) - 1 /\ Len(stack) = n + 1 /\ Rest[n] = stack[n]
    BY <1>1, <2>1, <2>2
  <2>4. Calls(P, stack[n], stack[n + 1])
    BY <2>3 DEF Nested
  <2> QED
    BY <2>1, <2>2, <2>3, <2>4 DEF Top
<1> QED
  BY <1>1, <1>3, <1>4, <1>5

LEMMA NestedPush ==
    ASSUME NEW P, NEW a, NEW s \in Seq(FrameType), NEW p, Nested(P, a, s, p), NEW f \in FrameType,
           s # <<>> => Calls(P, s[Len(s)], f), f.at <= p, f.op < p,
           f.fn \in Climbs => Climbing(P, a, f)
    PROVE  /\ Nested(P, a, Append(s, f), p) /\ Append(s, f) \in Seq(FrameType)
           /\ Append(s, f) # <<>> /\ Append(s, f)[Len(Append(s, f))] = f
<1>0. PICK n \in Nat : n = Len(s)
  BY LenProperties
<1>1. PICK u : u = Append(s, f) /\ n = Len(s)
  BY <1>0
<1>2. /\ u \in Seq(FrameType) /\ Len(u) = n + 1 /\ u # <<>> /\ u[n + 1] = f
      /\ \A i \in 1..n : u[i] = s[i]
  BY <1>1, PushFacts
<1>3. ASSUME NEW i \in 1..n + 1
      PROVE  u[i].at <= p /\ u[i].op < p /\ (u[i].fn \in Climbs => Climbing(P, a, u[i]))
  <2>1. CASE i = n + 1
    BY <1>2, <2>1
  <2>2. CASE i \in 1..n
    BY <1>1, <1>2, <2>2 DEF Nested
  <2> QED
    BY <2>1, <2>2
<1>4. ASSUME NEW i \in 1..n PROVE Calls(P, u[i], u[i + 1])
  <2>1. CASE i = n
    <3>1. s # <<>>
      BY <1>1, <2>1, EmptySeq
    <3> QED
      BY <1>1, <1>2, <2>1, <3>1
  <2>2. CASE i # n
    <3>1. i \in 1..n - 1 /\ i + 1 \in 1..n
      BY <2>2
    <3> QED
      BY <1>1, <1>2, <3>1 DEF Nested
  <2> QED
    BY <2>1, <2>2
<1>5. n + 1 - 1 = n
  OBVIOUS
<1>6. Nested(P, a, u, p)
  BY <1>2, <1>3, <1>4, <1>5 DEF Nested
<1> QED
  BY <1>1, <1>2, <1>6

\* Who may call whom.
LEMMA CallsSame ==
    ASSUME NEW P, NEW f, NEW g, NEW h, Calls(P, f, g), h.at = g.at, h.min = g.min,
           g.fn \in Primary => h.fn \in Primary,
           g.fn \in Climbs \cup {"expr"} => h.fn \in Climbs
    PROVE  Calls(P, f, h)
BY DEF Calls

LEMMA FunctionCases ==
    ASSUME NEW f, f.fn \in Function
    PROVE  /\ Wants(f) \/ f.fn \in Whole \/ f.fn = "merge" \/ f.fn = "rhs"
           /\ Wants(f) => f.fn \notin Whole /\ f.fn # "merge" /\ f.fn # "rhs"
           /\ f.fn \in Whole => f.fn # "merge" /\ f.fn # "rhs" /\ f.fn \notin Climbs /\ PartAt(f) = f.at
           /\ f.fn \in {"operand", "merge"} => f.fn \in Climbs /\ PartAt(f) = f.op + 1
BY DEF Function, Wants, Whole, Climbs, PartAt

LEMMA NameCases ==
    /\ Primary \cap (Climbs \cup {"expr"}) = {} /\ Primary \subseteq Function /\ Whole \subseteq Function
    /\ Climbs \subseteq Function /\ "def" \notin Primary \cup Climbs \cup {"expr"}
    /\ "top" \notin Primary \cup Climbs \cup {"expr"} /\ "rhs" \in Climbs /\ "expr" \in Function
    /\ "operand" \in Climbs /\ "merge" \in Climbs
BY DEF Primary, Climbs, Function, Whole

LEMMA PrimaryCalled ==
    ASSUME NEW P, NEW f \in FrameType, NEW g, Calls(P, f, g), g.fn \in Primary
    PROVE  Wants(f) /\ g.at = PartAt(f)
<1>1. f.fn \in Function
  BY DEF FrameType
<1>2. f.fn \notin Whole /\ f.fn # "merge" /\ f.fn # "rhs"
  BY NameCases DEF Calls
<1> QED
  BY <1>1, <1>2, FunctionCases DEF Calls
-----------------------------------------------------------------------------
\* What a step of the parser may do to the second invariant.
GroupHere(P) == Here /\ Good /\ GroupInv /\ P = Precs

LEMMA GroupFacts ==
    ASSUME NEW P, GroupHere(P)
    PROVE  /\ ParserInv /\ text \in Seq(Token) /\ pos \in Position /\ pos \in Nat /\ pos # 0
           /\ pos' \in Position /\ pos' \in Nat /\ pos <= pos'
           /\ TreeGrouped(P, ast) /\ Nested(P, ast, stack, pos)
           /\ Turn(P, ast, stack, phase, pos, ret)
           /\ stack \in Seq(FrameType) /\ ast \in Seq(NodeType) /\ Len(ast) \in Nat
           /\ StackOK(text, ast, stack) /\ AstOK(text, ast)
           /\ stack' \in Seq(FrameType) /\ ast' \in Seq(NodeType)
<1>1. /\ ParserInv /\ UNCHANGED <<text, table>> /\ Steps(pos, pos') /\ ParserInv'
      /\ GroupInv /\ P = Precs
  BY DEF GroupHere, Here, Good
<1>2. pos \in Position /\ pos \in Nat /\ pos # 0 /\ Len(text) \in Nat
  BY <1>1, Facts DEF ParserInv
<1>3. pos' \in Position /\ pos <= pos'
  BY <1>1 DEF Steps
<1>4. pos' \in Nat
  BY <1>2, <1>3 DEF Position
<1>5. stack' \in Seq(FrameType) /\ ast' \in Seq(NodeType)
  BY <1>1 DEF ParserInv, StackOK, AstOK
<1>6. stack \in Seq(FrameType)
  BY <1>1 DEF ParserInv, StackOK
<1> QED
  BY <1>1, <1>2, <1>3, <1>4, <1>5, <1>6, Facts DEF GroupInv

LEMMA PrecAt ==
    ASSUME NEW P, GroupHere(P), NEW p \in Position
    PROVE  P[p] = GetPrecedence(Tok(p)) /\ P[p] \in Int
<1>1. P = Precs /\ ParserInv
  BY DEF GroupHere, Here
<1>2. P[p] = GetPrecedence(Tok(p))
  BY <1>1 DEF Precs
<1> QED
  BY <1>1, <1>2, PrecFacts

LEMMA Regroups ==
    ASSUME NEW P, GroupHere(P), TreeGrouped(P, ast'), Nested(P, ast', stack', pos'),
           Turn(P, ast', stack', phase', pos', ret')
    PROVE  GroupInv'
<1>1. P = Precs /\ text' = text /\ table' = table
  BY DEF GroupHere, Here
<1>2. Precs' = Precs
  BY <1>1 DEF Precs, Position, Tok, GetPrecedence
<1> QED
  BY <1>1, <1>2 DEF GroupInv

\* The tree is the same, or has one node more.
TreeKept(P) == \/ ast' = ast
               \/ \E y \in NodeType : ast' = Append(ast, y) /\ Grouped(P, ast', y)

LEMMA Kept ==
    ASSUME NEW P, GroupHere(P), TreeKept(P), NEW s, StackOK(text, ast, s), Nested(P, ast, s, pos)
    PROVE  TreeGrouped(P, ast') /\ Nested(P, ast', s, pos')
<1>1. /\ text \in Seq(Token) /\ AstOK(text, ast) /\ ast \in Seq(NodeType) /\ TreeGrouped(P, ast)
      /\ pos \in Nat /\ pos' \in Nat /\ pos <= pos' /\ s \in Seq(FrameType)
  BY GroupFacts DEF StackOK
<1>2. CASE ast' = ast
  BY <1>1, <1>2, NestedOn
<1>3. CASE \E y \in NodeType : ast' = Append(ast, y) /\ Grouped(P, ast', y)
  <2>1. PICK y \in NodeType : ast' = Append(ast, y) /\ Grouped(P, ast', y)
    BY <1>3
  <2>2. TreeGrouped(P, ast')
    BY <1>1, <2>1, TreeGrows
  <2>3. Nested(P, ast', s, pos)
    BY <1>1, <2>1, NestedGrows
  <2> QED
    BY <1>1, <2>2, <2>3, NestedOn
<1> QED
  BY <1>2, <1>3 DEF TreeKept

LEMMA PopHere ==
    ASSUME NEW P, GroupHere(P), stack # <<>>
    PROVE  /\ StackOK(text, ast, Rest) /\ Nested(P, ast, Rest, pos) /\ Rest \in Seq(FrameType)
           /\ FrameOK(text, ast, Top) /\ Top \in FrameType /\ Top.fn \in Function
           /\ Top.at <= pos /\ Top.op < pos /\ (Top.fn \in Climbs => Climbing(P, ast, Top))
           /\ Rest # <<>> => Calls(P, Rest[Len(Rest)], Top) /\ Rest[Len(Rest)] \in FrameType
<1>1. stack \in Seq(FrameType) /\ Nested(P, ast, stack, pos) /\ StackOK(text, ast, stack)
  BY GroupFacts
<1>2. StackOK(text, ast, Rest) /\ FrameOK(text, ast, Top) /\ Top \in FrameType
  BY <1>1, SplitStack
<1>3. Top.fn \in Function
  BY <1>2 DEF FrameType
<1> QED
  BY <1>1, <1>2, <1>3, NestedPop

\* A function returns.
LEMMA ReturnGroups ==
    ASSUME NEW P, GroupHere(P), TreeKept(P), NEW s, s = stack \/ (stack # <<>> /\ s = Rest),
           stack' = s, phase' = "return",
           (ret' # 0 /\ s # <<>>) => AtReturn(P, ast', s[Len(s)], pos', ret')
    PROVE  GroupInv'
<1>1. StackOK(text, ast, s) /\ Nested(P, ast, s, pos)
  BY GroupFacts, PopHere
<1>2. TreeGrouped(P, ast') /\ Nested(P, ast', stack', pos')
  BY <1>1, Kept
<1>3. Turn(P, ast', stack', phase', pos', ret')
  BY DEF Turn
<1> QED
  BY <1>2, <1>3, Regroups

LEMMA FailGroups ==
    ASSUME NEW P, GroupHere(P), NEW s, s = stack \/ (stack # <<>> /\ s = Rest), NEW p, Fail(s, p)
    PROVE  GroupInv'
<1>1. stack' = s /\ phase' = "return" /\ ret' = 0 /\ ast' = ast
  BY DEF Fail, Return
<1> QED
  BY <1>1, ReturnGroups DEF TreeKept

\* An expression is parsed next, at p.
LEMMA FrameFields ==
    ASSUME NEW f \in Function, NEW p \in Nat
    PROVE  /\ Frame(f, p) \in FrameType /\ Frame(f, p).fn = f /\ Frame(f, p).at = p
           /\ Frame(f, p).op = 0 /\ Frame(f, p).min = 0 /\ Frame(f, p).kids = <<>>
<1>1. <<>> \in Seq(Nat)
  BY NoLists
<1> QED
  BY <1>1 DEF Frame, FrameType

LEMMA ExpressionNested ==
    ASSUME NEW P, NEW a, NEW s \in Seq(FrameType), NEW q \in Nat, Nested(P, a, s, q),
           NEW p \in Nat, p # 0, q <= p, s # <<>>, s[Len(s)] \in FrameType, s[Len(s)].fn \in Whole,
           s[Len(s)].at <= p, s[Len(s)].fn # "top" => s[Len(s)].at < p
    PROVE  /\ Nested(P, a, Append(s, Frame("expr", p)), p)
           /\ AtUnary(Append(s, Frame("expr", p)), p)
<1>1. PICK g, f : g = Frame("expr", p) /\ f = s[Len(s)]
  OBVIOUS
<1>2. /\ g \in FrameType /\ g.fn = "expr" /\ g.at = p /\ g.op = 0 /\ g.min = 0
  BY <1>1, FrameFields DEF Function
<1>3. Calls(P, f, g)
  <2>1. f \in FrameType /\ f.fn \in Function /\ f.fn \in Whole /\ f.at \in Nat
    BY <1>1 DEF FrameType
  <2>2. ~Wants(f) /\ f.fn # "merge" /\ f.fn # "rhs"
    BY <2>1, FunctionCases
  <2>3. g.at >= f.at /\ (f.fn # "top" => g.at > f.at)
    BY <1>1, <1>2, <2>1
  <2>4. g.fn \in Climbs \cup {"expr"}
    BY <1>2
  <2> QED
    BY <1>2, <2>1, <2>2, <2>3, <2>4 DEF Calls
<1>4. Nested(P, a, s, p)
  BY NestedOn
<1>5. g.fn \notin Climbs /\ g.at <= p /\ g.op < p
  BY <1>2 DEF Climbs
<1>6. PICK u : u = Append(s, g)
  OBVIOUS
<1>7. Nested(P, a, u, p) /\ u # <<>> /\ u[Len(u)] = g
  BY <1>1, <1>2, <1>3, <1>4, <1>5, <1>6, NestedPush
<1>8. Wants(g) /\ PartAt(g) = g.at
  BY <1>2 DEF Wants, PartAt
<1>9. AtUnary(u, p)
  BY <1>2, <1>7, <1>8 DEF AtUnary
<1> QED
  BY <1>1, <1>6, <1>7, <1>9

LEMMA ExpressionGroups ==
    ASSUME NEW P, GroupHere(P), ast' = ast, NEW s \in Seq(FrameType), Nested(P, ast, s, pos),
           NEW p, Expression(s, p), s # <<>>, s[Len(s)] \in FrameType,
           s[Len(s)].fn \in Whole, s[Len(s)].at < p
    PROVE  GroupInv'
<1>1. PICK u : u = Append(s, Frame("expr", p))
  OBVIOUS
<1>2. pos' = p /\ phase' = "unary" /\ stack' = u
  BY <1>1 DEF Expression
<1>3. pos \in Nat /\ p \in Nat /\ pos <= p /\ TreeGrouped(P, ast) /\ p # 0
  BY <1>2, GroupFacts
<1>4. s[Len(s)].at <= p
  <2>1. s[Len(s)].at \in Nat
    BY DEF FrameType
  <2> QED
    BY <1>3, <2>1
<1>5. Nested(P, ast, u, p) /\ AtUnary(u, p)
  BY <1>1, <1>3, <1>4, ExpressionNested
<1>6. Turn(P, ast', stack', phase', pos', ret')
  BY <1>2, <1>5 DEF Turn
<1>7. TreeGrouped(P, ast') /\ Nested(P, ast', stack', pos')
  BY <1>2, <1>3, <1>5
<1> QED
  BY <1>6, <1>7, Regroups

\* The function at the top goes on, with what it has collected.
LEMMA ReplaceTop ==
    ASSUME NEW P, GroupHere(P), stack # <<>>, NEW h \in FrameType, h.at = Top.at, h.min = Top.min,
           h.op < pos, Top.fn \in Primary => h.fn \in Primary,
           Top.fn \in Climbs \cup {"expr"} => h.fn \in Climbs,
           h.fn \in Climbs => Climbing(P, ast, h)
    PROVE  /\ Nested(P, ast, Append(Rest, h), pos) /\ Append(Rest, h) \in Seq(FrameType)
           /\ Append(Rest, h) # <<>> /\ Append(Rest, h)[Len(Append(Rest, h))] = h
<1>1. /\ Nested(P, ast, Rest, pos) /\ Rest \in Seq(FrameType) /\ h.at <= pos
      /\ Rest # <<>> => Calls(P, Rest[Len(Rest)], Top)
  BY PopHere
<1>2. Rest # <<>> => Calls(P, Rest[Len(Rest)], h)
  BY <1>1, CallsSame
<1> QED
  BY <1>1, <1>2, NestedPush

LEMMA PartGroups ==
    ASSUME NEW P, GroupHere(P), stack # <<>>, Top.fn \in Primary, NEW h \in FrameType,
           h.at = Top.at, h.min = Top.min, h.op = Top.op, h.fn \in Primary, h.fn \in Whole,
           ast' = ast, NEW p, p > pos, Expression(Append(Rest, h), p)
    PROVE  GroupInv'
<1>1. Top.at <= pos /\ Top.op < pos /\ Top \in FrameType /\ Top.fn \notin Climbs \cup {"expr"}
  BY PopHere, NameCases
<1>2. h.fn \notin Climbs
  BY NameCases
<1>3. PICK u : u = Append(Rest, h)
  OBVIOUS
<1>4. Nested(P, ast, u, pos) /\ u \in Seq(FrameType) /\ u # <<>> /\ u[Len(u)] = h
  BY <1>1, <1>2, <1>3, ReplaceTop
<1>5. h.at < p
  <2>1. h.at \in Nat /\ pos \in Nat
    BY GroupFacts DEF FrameType
  <2>2. p \in Nat
    BY GroupFacts DEF Expression
  <2> QED
    BY <1>1, <2>1, <2>2
<1> QED
  BY <1>3, <1>4, <1>5, ExpressionGroups

LEMMA ExpectsGroups ==
    ASSUME NEW P, GroupHere(P), stack # <<>>, Top.fn \in Primary, NEW h \in FrameType,
           h.at = Top.at, h.min = Top.min, h.op = Top.op, h.fn \in Primary, h.fn \in Whole,
           NEW w, Expects(Append(Rest, h), w)
    PROVE  GroupInv'
<1>1. CASE Expression(Append(Rest, h), pos + 1) /\ ast' = ast
  <2>1. pos + 1 > pos
    BY GroupFacts
  <2> QED
    BY <1>1, <2>1, PartGroups
<1>2. CASE Fail(Rest, pos)
  BY <1>2, FailGroups
<1> QED
  BY <1>1, <1>2, Zenon DEF Expects

\* A function is called with the current token.
LEMMA CalledHere ==
    ASSUME NEW P, GroupHere(P), phase = "unary", NEW f \in FrameType, f.fn \in Primary,
           f.at = pos, f.op = 0
    PROVE  /\ Nested(P, ast, Append(stack, f), pos) /\ Append(stack, f) \in Seq(FrameType)
           /\ Append(stack, f) # <<>> /\ Append(stack, f)[Len(Append(stack, f))] = f
<1>1. /\ stack \in Seq(FrameType) /\ Nested(P, ast, stack, pos) /\ pos \in Nat /\ pos # 0
      /\ stack # <<>> /\ Wants(stack[Len(stack)]) /\ pos = PartAt(stack[Len(stack)])
  BY GroupFacts DEF Turn, AtUnary
<1>2. PICK g : g = stack[Len(stack)]
  OBVIOUS
<1>3. Wants(g) /\ g.fn \in Function /\ pos = PartAt(g)
  <2>1. g \in FrameType
    BY <1>1, <1>2, PopFacts
  <2> QED
    BY <1>1, <1>2, <2>1 DEF FrameType
<1>4. Calls(P, g, f)
  BY <1>3, FunctionCases DEF Calls
<1>5. f.fn \notin Climbs /\ f.at <= pos /\ f.op < pos
  BY <1>1, NameCases
<1> QED
  BY <1>1, <1>2, <1>4, <1>5, NestedPush

\* The same, and an expression is parsed in it.
LEMMA WaitGroups ==
    ASSUME NEW P, GroupHere(P), phase = "unary", NEW f \in FrameType, f.fn \in Primary, f.fn \in Whole,
           f.at = pos, f.op = 0, NEW p, p > pos, Wait(f, p)
    PROVE  GroupInv'
<1>1. PICK u : u = Append(stack, f)
  OBVIOUS
<1>2. Nested(P, ast, u, pos) /\ u \in Seq(FrameType) /\ u # <<>> /\ u[Len(u)] = f
  BY <1>1, CalledHere
<1>3. ast' = ast /\ Expression(u, p)
  BY <1>1 DEF Wait
<1>4. f.at < p
  <2>1. p \in Nat
    BY <1>3, GroupFacts DEF Expression
  <2> QED
    BY <2>1, GroupFacts
<1> QED
  BY <1>2, <1>3, <1>4, ExpressionGroups
-----------------------------------------------------------------------------
\* Primary expressions keep the second invariant.
LEMMA OtherKinds ==
    ASSUME NEW k, k \in {"number", "variable", "call", "if", "for", "var"}
    PROVE  k \in Kind /\ k \notin Operations /\ k # "unary"
BY DEF Kind, Operations

LEMMA Trivially ==
    ASSUME NEW P, NEW a, NEW y, y.kind \notin Operations, y.kind # "unary"
    PROVE  Grouped(P, a, y)
BY DEF Grouped

LEMMA WantsReceives ==
    ASSUME NEW P, NEW f \in FrameType, Wants(f), NEW x, NEW c, x.from = PartAt(f),
           x.kind \notin Operations, x.kind \in Greedy => c < 0
    PROVE  Received(P, f, x, c) /\ f.fn # "rhs"
<1>1. f.fn \in Function /\ f.at \in Nat /\ f.op \in Nat
  BY DEF FrameType
<1>2. f.fn \notin Whole /\ f.fn # "merge" /\ f.fn # "rhs"
  BY <1>1, FunctionCases
<1>3. x.from >= PartAt(f)
  BY <1>1 DEF PartAt
<1> QED
  BY <1>2, <1>3 DEF Received

LEMMA LeafGroups ==
    ASSUME NEW P, GroupHere(P), phase = "unary", NEW y \in NodeType, ast' = Append(ast, y),
           y.kind \in {"number", "variable", "call"}, y.from = pos, Return(stack, Len(ast) + 1)
    PROVE  GroupInv'
<1>1. /\ ast \in Seq(NodeType) /\ stack \in Seq(FrameType) /\ stack # <<>>
      /\ Wants(stack[Len(stack)]) /\ pos = PartAt(stack[Len(stack)]) /\ Len(ast) \in Nat
  BY GroupFacts DEF Turn, AtUnary
<1>2. PICK f : f = stack[Len(stack)]
  OBVIOUS
<1>3. f \in FrameType
  BY <1>1, <1>2, PopFacts
<1>4. y.kind \notin Operations /\ y.kind # "unary" /\ y.kind \notin Greedy
  BY DEF Operations, Greedy
<1>5. ast'[Len(ast) + 1] = y
  BY <1>1, PushFacts
<1>6. Received(P, f, y, P[pos']) /\ f.fn # "rhs"
  BY <1>1, <1>2, <1>3, <1>4, WantsReceives
<1>7. stack' = stack /\ phase' = "return" /\ ret' = Len(ast) + 1
  BY DEF Return
<1>8. AtReturn(P, ast', stack[Len(stack)], pos', ret')
  BY <1>2, <1>5, <1>6, <1>7 DEF AtReturn
<1>9. TreeKept(P)
  BY <1>4, Trivially DEF TreeKept
<1> QED
  BY <1>7, <1>8, <1>9, ReturnGroups

LEMMA LeafBuilds ==
    ASSUME NEW P, GroupHere(P), phase = "unary", NEW k \in {"number", "variable", "call"},
           NEW ns \in Seq(Nat), NEW p, Build(stack, Node(k, pos, pos, ns, <<>>), p)
    PROVE  GroupInv'
<1>1. PICK z, e, y : z = p - 1 /\ e = <<>> /\ y = [Node(k, pos, pos, ns, e) EXCEPT !.to = z]
  OBVIOUS
<1>2. ast' = Append(ast, y) /\ Return(stack, Len(ast) + 1) /\ pos' = p
  BY <1>1, Zenon DEF Build
<1>3. pos \in Nat /\ pos' \in Nat
  BY GroupFacts
<1>4. z \in Int
  BY <1>1, <1>2, <1>3
<1>5. e \in Seq(Nat)
  BY <1>1, NoLists, Zenon
<1>6. k \in Kind
  BY OtherKinds
<1>7. y \in NodeType /\ y.kind = k /\ y.from = pos
  BY <1>1, <1>3, <1>4, <1>5, <1>6 DEF Node, NodeType
<1> QED
  BY <1>2, <1>7, LeafGroups

\* A function that was called for an expression builds its node and returns.
LEMMA EndGroups ==
    ASSUME NEW P, GroupHere(P), stack # <<>>, Top.fn \in Primary, NEW n, NEW x, x = ast'[n],
           TreeKept(P), Return(Rest, n), x.from = Top.at, x.kind \notin Operations,
           x.kind \in Greedy => P[pos'] < 0
    PROVE  GroupInv'
<1>1. stack' = Rest /\ phase' = "return" /\ ret' = n
  BY DEF Return
<1>2. ASSUME Rest # <<>> PROVE AtReturn(P, ast', Rest[Len(Rest)], pos', ret')
  <2>1. PICK f : f = Rest[Len(Rest)]
    OBVIOUS
  <2>2. f \in FrameType /\ Calls(P, f, Top)
    BY <1>2, <2>1, PopHere
  <2>3. Wants(f) /\ Top.at = PartAt(f)
    BY <2>2, PrimaryCalled
  <2>4. Received(P, f, x, P[pos']) /\ f.fn # "rhs"
    BY <2>2, <2>3, WantsReceives
  <2> QED
    BY <1>1, <2>1, <2>4 DEF AtReturn
<1> QED
  BY <1>1, <1>2, ReturnGroups

LEMMA EndBuilds ==
    ASSUME NEW P, GroupHere(P), stack # <<>>, Top.fn \in Primary,
           NEW k \in {"call", "if", "for", "var"}, NEW ns \in Seq(Nat), NEW ks \in Seq(Nat), NEW p,
           Build(Rest, Node(k, Top.at, Top.at, ns, ks), p), k \in Greedy => P[p] < 0
    PROVE  GroupInv'
<1>1. PICK z, t, y : z = p - 1 /\ t = Top.at /\ y = [Node(k, t, t, ns, ks) EXCEPT !.to = z]
  OBVIOUS
<1>2. ast' = Append(ast, y) /\ Return(Rest, Len(ast) + 1) /\ pos' = p
  BY <1>1, Zenon DEF Build
<1>3. pos' \in Nat /\ ast \in Seq(NodeType) /\ Len(ast) \in Nat
  BY GroupFacts
<1>4. z \in Int
  BY <1>1, <1>2, <1>3
<1>5. t \in Nat
  <2>1. Top \in FrameType
    BY PopHere
  <2> QED
    BY <1>1, <2>1 DEF FrameType
<1>6. k \in {"number", "variable", "call", "if", "for", "var"}
  OBVIOUS
<1>7. k \in Kind /\ k \notin Operations /\ k # "unary"
  BY <1>6, OtherKinds, Zenon
<1>8. y \in NodeType /\ y.kind = k /\ y.from = t
  BY <1>1, <1>4, <1>5, <1>7 DEF Node, NodeType
<1>9. ast'[Len(ast) + 1] = y
  BY <1>2, <1>3, <1>8, PushFacts
<1>10. TreeKept(P)
  BY <1>2, <1>7, <1>8, Trivially DEF TreeKept
<1>11. PICK n : n = Len(ast) + 1
  OBVIOUS
<1>12. Return(Rest, n) /\ y = ast'[n] /\ y.from = Top.at /\ y.kind \notin Operations
  BY <1>1, <1>2, <1>7, <1>8, <1>9, <1>11, Zenon
<1>13. y.kind \in Greedy => P[pos'] < 0
  BY <1>2, <1>8, Zenon
<1> QED
  BY <1>10, <1>12, <1>13, EndGroups

LEMMA GotReceives ==
    ASSUME NEW P, GroupHere(P), NEW f, Got(f)
    PROVE  /\ stack # <<>> /\ Top.fn = f /\ ret \in 1..Len(ast) /\ ret # 0 /\ f # "rhs"
           /\ Received(P, Top, ast[ret], P[pos])
           /\ Top \in FrameType /\ Top.at \in Nat /\ Top.op \in Nat /\ ast[ret] \in NodeType
<1>1. stack # <<>> /\ Top.fn = f /\ ret # 0 /\ phase = "return"
  BY DEF Got
<1>2. ret \in 1..Len(ast)
  BY <1>1, GroupFacts, Facts
<1>3. AtReturn(P, ast, Top, pos, ret)
  BY <1>1, GroupFacts DEF Turn, Top
<1>4. Top \in FrameType /\ ast \in Seq(NodeType)
  BY <1>1, PopHere, GroupFacts
<1>5. ast[ret] \in NodeType
  BY <1>2, <1>4
<1>6. Top.at \in Nat /\ Top.op \in Nat
  BY <1>4 DEF FrameType
<1> QED
  BY <1>1, <1>2, <1>3, <1>4, <1>5, <1>6 DEF AtReturn

LEMMA PrimaryNames ==
    /\ {"paren", "call", "if", "for", "var", "varbody"} \subseteq Primary \cap Whole
    /\ {"paren", "call", "if", "for", "var", "varbody"} \subseteq Function
    /\ "top" \notin {"paren", "call", "if", "for", "var", "varbody"}
    /\ \A f \in {"paren", "call", "if", "for", "var", "varbody"} : f # "def" /\ f \notin Climbs
BY DEF Primary, Whole, Function, Climbs

\* What a function that collects expressions knows when it gets one.
LEMMA CollectReceives ==
    ASSUME NEW P, GroupHere(P), NEW f \in {"paren", "call", "if", "for", "var", "varbody"}, Got(f)
    PROVE  /\ stack # <<>> /\ Top.fn = f /\ Top.fn \in Primary /\ Top.fn \in Whole
           /\ P[pos] < 0 /\ ast[ret].from > Top.at /\ ret # 0 /\ Top \in FrameType
           /\ ParserInv
<1>1. /\ stack # <<>> /\ Top.fn = f /\ Received(P, Top, ast[ret], P[pos]) /\ ret # 0
      /\ Top \in FrameType
  BY GotReceives
<1>2. Top.fn \in Primary /\ Top.fn \in Whole /\ Top.fn # "top"
  BY <1>1, PrimaryNames
<1> QED
  BY <1>1, <1>2, GroupFacts DEF Received

LEMMA CloseParenGroups == ASSUME NEW P, GroupHere(P), CloseParen PROVE GroupInv'
<1>1. PICK f : f = "paren"
  OBVIOUS
<1>2. f \in {"paren", "call", "if", "for", "var", "varbody"} /\ Got(f)
  BY <1>1, Zenon DEF CloseParen
<1>3. /\ stack # <<>> /\ Top.fn \in Primary /\ ast[ret].from > Top.at /\ Top \in FrameType
  BY <1>2, CollectReceives
<1>4. CASE Return(Rest, ret) /\ ast' = ast
  <2>1. stack' = Rest /\ phase' = "return" /\ ret' = ret
    BY <1>4 DEF Return
  <2>2. ASSUME Rest # <<>> PROVE AtReturn(P, ast', Rest[Len(Rest)], pos', ret')
    <3>1. PICK g : g = Rest[Len(Rest)]
      OBVIOUS
    <3>2. g \in FrameType /\ Calls(P, g, Top)
      BY <1>3, <2>2, <3>1, PopHere
    <3>3. Wants(g) /\ Top.at = PartAt(g)
      BY <1>3, <3>2, PrimaryCalled
    <3>4. g.fn \in Function /\ Top.at \in Nat /\ ast[ret].from \in Nat
      BY <1>2, <1>3, <3>2, GotReceives DEF FrameType, NodeType
    <3>5. g.fn \notin Whole /\ g.fn # "merge" /\ g.fn # "rhs"
      BY <3>3, <3>4, FunctionCases
    <3>6. ast[ret].from >= PartAt(g) /\ ast[ret].from > PartAt(g) /\ ast[ret].from # PartAt(g)
      BY <1>3, <3>3, <3>4
    <3>7. Received(P, g, ast[ret], P[pos'])
      BY <3>5, <3>6 DEF Received
    <3> QED
      BY <1>4, <2>1, <3>1, <3>5, <3>7 DEF AtReturn
  <2> QED
    BY <1>3, <1>4, <2>1, <2>2, ReturnGroups DEF TreeKept
<1>5. CASE Fail(Rest, pos)
  BY <1>3, <1>5, FailGroups
<1> QED
  BY <1>4, <1>5, Zenon DEF CloseParen

LEMMA WithKidFields ==
    ASSUME NEW P, GroupHere(P), NEW f \in {"paren", "call", "if", "for", "var", "varbody"}, Got(f)
    PROVE  /\ WithKid \in FrameType /\ WithKid.at = Top.at /\ WithKid.min = Top.min
           /\ WithKid.op = Top.op /\ WithKid.fn = f /\ WithKid.names = Top.names
           /\ WithKid.kids \in Seq(Nat) /\ Top.names \in Seq(Nat)
<1>1. stack # <<>> /\ Top.fn = f /\ ParserInv /\ Top \in FrameType
  BY CollectReceives
<1>2. f \notin Climbs /\ f # "def"
  BY PrimaryNames
<1>3. WithKid.kids \in Seq(Nat) /\ Top.names \in Seq(Nat) /\ FrameOK(text, ast, WithKid)
  BY <1>1, <1>2, WithKidOK
<1>4. WithKid \in FrameType
  BY <1>3 DEF FrameOK
<1>5. PICK ks : ks = Append(Top.kids, ret)
  OBVIOUS
<1>6. WithKid = [Top EXCEPT !.kids = ks]
  BY <1>5 DEF WithKid
<1>7. /\ WithKid.at = Top.at /\ WithKid.min = Top.min /\ WithKid.op = Top.op
      /\ WithKid.fn = Top.fn /\ WithKid.names = Top.names
  BY <1>1, <1>6 DEF FrameType
<1> QED
  BY <1>1, <1>3, <1>4, <1>7

LEMMA NextPartGroups ==
    ASSUME NEW P, GroupHere(P), NEW f \in {"paren", "call", "if", "for", "var", "varbody"}, Got(f),
           NEW w, Expects(Append(Rest, WithKid), w)
    PROVE  GroupInv'
<1>1. stack # <<>> /\ Top.fn = f /\ Top.fn \in Primary /\ Top.fn \in Whole
  BY CollectReceives
<1> QED
  BY <1>1, WithKidFields, ExpectsGroups

LEMMA CallArgumentGroups == ASSUME NEW P, GroupHere(P), CallArgument PROVE GroupInv'
<1>1. PICK f : f = "call"
  OBVIOUS
<1>2. f \in {"paren", "call", "if", "for", "var", "varbody"} /\ Got(f)
  BY <1>1, Zenon DEF CallArgument
<1>3. stack # <<>> /\ Top.fn \in Primary /\ WithKid.kids \in Seq(Nat) /\ Top.names \in Seq(Nat)
  BY <1>2, CollectReceives, WithKidFields
<1>4. CASE Build(Rest, Node("call", Top.at, Top.at, Top.names, WithKid.kids), pos + 1)
  <2>1. "call" \in {"call", "if", "for", "var"} /\ "call" \notin Greedy
    BY DEF Greedy
  <2> QED
    BY <1>3, <1>4, <2>1, EndBuilds
<1>5. CASE \E w : Expects(Append(Rest, WithKid), w)
  BY <1>2, <1>5, NextPartGroups
<1> QED
  BY <1>4, <1>5, Zenon DEF CallArgument

LEMMA IfPartGroups == ASSUME NEW P, GroupHere(P), IfPart PROVE GroupInv'
<1>1. PICK f : f = "if"
  OBVIOUS
<1>2. f \in {"paren", "call", "if", "for", "var", "varbody"} /\ Got(f)
  BY <1>1, Zenon DEF IfPart
<1>3. stack # <<>> /\ Top.fn \in Primary /\ WithKid.kids \in Seq(Nat) /\ P[pos] < 0
  BY <1>2, CollectReceives, WithKidFields
<1>4. CASE Build(Rest, Node("if", Top.at, Top.at, <<>>, WithKid.kids), pos)
  <2>1. "if" \in {"call", "if", "for", "var"} /\ <<>> \in Seq(Nat)
    BY NoLists
  <2> QED
    BY <1>3, <1>4, <2>1, EndBuilds
<1>5. CASE \E w : Expects(Append(Rest, WithKid), w)
  BY <1>2, <1>5, NextPartGroups
<1> QED
  BY <1>4, <1>5, Zenon DEF IfPart
LEMMA NumberGroups == ASSUME NEW P, GroupHere(P), ParseNumber PROVE GroupInv'
<1>1. PICK k : k = "number"
  OBVIOUS
<1>2. phase = "unary" /\ Build(stack, Node(k, pos, pos, <<>>, <<>>), pos + 1)
  BY <1>1, Zenon DEF ParseNumber
<1>3. k \in {"number", "variable", "call"} /\ <<>> \in Seq(Nat)
  BY <1>1, NoLists
<1> QED
  BY <1>2, <1>3, LeafBuilds

\* A function that has read a name waits for an expression.
LEMMA NamedGroups ==
    ASSUME NEW P, GroupHere(P), phase = "unary", NEW k \in {"call", "for"}, NEW ns \in Seq(Nat),
           NEW p, p > pos, Wait([Frame(k, pos) EXCEPT !.names = ns], p)
    PROVE  GroupInv'
<1>1. PICK g, f : g = Frame(k, pos) /\ f = [g EXCEPT !.names = ns]
  OBVIOUS
<1>2. k \in Function /\ k \in Primary /\ k \in Whole
  BY PrimaryNames
<1>3. g \in FrameType /\ g.fn = k /\ g.at = pos /\ g.op = 0
  BY <1>1, <1>2, GroupFacts, FrameFields
<1>4. f \in FrameType /\ f.fn = k /\ f.at = pos /\ f.op = 0
  BY <1>1, <1>3 DEF FrameType
<1>5. Wait(f, p)
  BY <1>1
<1> QED
  BY <1>2, <1>4, <1>5, WaitGroups

LEMMA IdentifierGroups == ASSUME NEW P, GroupHere(P), ParseIdentifier PROVE GroupInv'
<1>1. phase = "unary"
  BY DEF ParseIdentifier
<1>2. pos \in Nat
  BY GroupFacts
<1>3. PICK ns : ns = <<pos>>
  OBVIOUS
<1>4. ns \in Seq(Nat)
  BY <1>2, <1>3, WithinOne
<1>5. CASE Build(stack, Node("variable", pos, pos, ns, <<>>), pos + 1)
  BY <1>1, <1>4, <1>5, LeafBuilds
<1>6. CASE Build(stack, Node("call", pos, pos, ns, <<>>), (pos + 1) + 2)
  BY <1>1, <1>4, <1>6, LeafBuilds
<1>7. CASE Wait([Frame("call", pos) EXCEPT !.names = ns], (pos + 1) + 1)
  <2>1. (pos + 1) + 1 > pos
    BY <1>2
  <2> QED
    BY <1>1, <1>4, <1>7, <2>1, NamedGroups
<1> QED
  BY <1>3, <1>5, <1>6, <1>7, Zenon DEF ParseIdentifier

LEMMA WordGroups ==
    ASSUME NEW P, GroupHere(P), phase = "unary", NEW f \in {"paren", "if"}, Wait(Frame(f, pos), pos + 1)
    PROVE  GroupInv'
<1>1. f \in Function /\ f \in Primary /\ f \in Whole
  BY PrimaryNames
<1>2. pos \in Nat /\ pos + 1 > pos
  BY GroupFacts
<1>3. PICK g : g = Frame(f, pos)
  OBVIOUS
<1>4. g \in FrameType /\ g.fn = f /\ g.at = pos /\ g.op = 0
  BY <1>1, <1>2, <1>3, FrameFields
<1> QED
  BY <1>1, <1>2, <1>3, <1>4, WaitGroups

LEMMA ParenGroups == ASSUME NEW P, GroupHere(P), ParseParen PROVE GroupInv'
<1>1. phase = "unary" /\ Wait(Frame("paren", pos), pos + 1)
  BY Zenon DEF ParseParen, At
<1> QED
  BY <1>1, WordGroups

LEMMA IfGroups == ASSUME NEW P, GroupHere(P), ParseIf PROVE GroupInv'
<1>1. phase = "unary" /\ Wait(Frame("if", pos), pos + 1)
  BY Zenon DEF ParseIf, At
<1> QED
  BY <1>1, WordGroups

LEMMA ForGroups == ASSUME NEW P, GroupHere(P), ParseFor PROVE GroupInv'
<1>1. phase = "unary"
  BY DEF ParseFor, At
<1>2. pos \in Nat /\ pos + 1 \in Nat
  BY GroupFacts
<1>3. PICK ns : ns = <<pos + 1>>
  OBVIOUS
<1>4. ns \in Seq(Nat)
  BY <1>2, <1>3, WithinOne
<1>5. CASE \E p : Fail(stack, p)
  BY <1>5, FailGroups
<1>6. CASE Wait([Frame("for", pos) EXCEPT !.names = ns], (pos + 1) + 2)
  <2>1. (pos + 1) + 2 > pos
    BY <1>2
  <2> QED
    BY <1>1, <1>4, <1>6, <2>1, NamedGroups
<1> QED
  BY <1>3, <1>5, <1>6, Zenon DEF ParseFor

LEMMA SkipGroups ==
    ASSUME NEW P, GroupHere(P), Got("for"), NEW w,
           Expects(Append(Rest, [WithKid EXCEPT !.kids = NullStep(@)]), w)
    PROVE  GroupInv'
<1>1. PICK f : f = "for"
  OBVIOUS
<1>2. f \in {"paren", "call", "if", "for", "var", "varbody"} /\ Got(f)
  BY <1>1
<1>3. /\ WithKid \in FrameType /\ WithKid.at = Top.at /\ WithKid.min = Top.min
      /\ WithKid.op = Top.op /\ WithKid.fn = f /\ WithKid.kids \in Seq(Nat)
  BY <1>2, WithKidFields
<1>4. stack # <<>> /\ Top.fn = f /\ Top.fn \in Primary /\ Top.fn \in Whole
  BY <1>2, CollectReceives
<1>5. PICK v, ks, g : v = WithKid /\ ks = Append(v.kids, 0) /\ g = [v EXCEPT !.kids = ks]
  OBVIOUS
<1>6. ks \in Seq(Nat)
  BY <1>3, <1>5
<1>7. /\ g \in FrameType /\ g.at = v.at /\ g.min = v.min /\ g.op = v.op /\ g.fn = v.fn
  BY <1>3, <1>5, <1>6 DEF FrameType
<1>8. Expects(Append(Rest, g), w)
  BY <1>5 DEF NullStep
<1> QED
  BY <1>3, <1>4, <1>5, <1>7, <1>8, ExpectsGroups

LEMMA ForPartGroups == ASSUME NEW P, GroupHere(P), ForPart PROVE GroupInv'
<1>1. PICK f : f = "for"
  OBVIOUS
<1>2. f \in {"paren", "call", "if", "for", "var", "varbody"} /\ Got(f)
  BY <1>1, Zenon DEF ForPart
<1>3. /\ stack # <<>> /\ Top.fn \in Primary /\ WithKid.kids \in Seq(Nat) /\ Top.names \in Seq(Nat)
      /\ P[pos] < 0
  BY <1>2, CollectReceives, WithKidFields
<1>4. CASE \E w : Expects(Append(Rest, WithKid), w)
  BY <1>2, <1>4, NextPartGroups
<1>5. CASE \E w : Expects(Append(Rest, [WithKid EXCEPT !.kids = NullStep(@)]), w)
  <2>1. Got("for")
    BY <1>1, <1>2
  <2> QED
    BY <1>5, <2>1, SkipGroups
<1>6. CASE Build(Rest, Node("for", Top.at, Top.at, Top.names, WithKid.kids), pos)
  BY <1>3, <1>6, EndBuilds
<1> QED
  <2>1. \/ Expects(Append(Rest, WithKid), ",")
        \/ Expects(Append(Rest, [WithKid EXCEPT !.kids = NullStep(@)]), "in")
        \/ Expects(Append(Rest, WithKid), "in")
        \/ Build(Rest, Node("for", Top.at, Top.at, Top.names, WithKid.kids), pos)
    BY Zenon DEF ForPart
  <2> QED
    BY <1>4, <1>5, <1>6, <2>1, Zenon

-----------------------------------------------------------------------------
\* A `var` and the unary operators keep it.
LEMMA NamesGroup ==
    ASSUME NEW P, GroupHere(P), ast' = ast, phase' = "name", NEW s \in Seq(FrameType),
           Nested(P, ast, s, pos), stack' = s
    PROVE  GroupInv'
<1>1. Nested(P, ast', stack', pos') /\ TreeGrouped(P, ast')
  BY GroupFacts, NestedOn
<1>2. Turn(P, ast', stack', phase', pos', ret')
  BY DEF Turn
<1> QED
  BY <1>1, <1>2, Regroups

LEMMA VarGroups == ASSUME NEW P, GroupHere(P), ParseVar PROVE GroupInv'
<1>1. PICK f : f = Frame("var", pos)
  OBVIOUS
<1>2. phase = "unary" /\ stack' = Append(stack, f) /\ phase' = "name" /\ ast' = ast
  BY <1>1 DEF ParseVar, At
<1>3. PICK k : k = "var"
  OBVIOUS
<1>4. k \in Function /\ k \in Primary
  BY <1>3, PrimaryNames
<1>5. f \in FrameType /\ f.fn = k /\ f.at = pos /\ f.op = 0
  BY <1>1, <1>3, <1>4, GroupFacts, FrameFields
<1>6. Nested(P, ast, Append(stack, f), pos) /\ Append(stack, f) \in Seq(FrameType)
  BY <1>2, <1>4, <1>5, CalledHere
<1> QED
  BY <1>2, <1>6, NamesGroup

LEMMA VarListGroups ==
    ASSUME NEW P, GroupHere(P), stack # <<>>, Top.fn = "var", NEW f \in FrameType, f.fn = "var",
           f.at = Top.at, f.min = Top.min, f.op = Top.op, NEW p \in Nat, pos <= p, VarList(f, p)
    PROVE  GroupInv'
<1>1. PICK k : k = "var"
  OBVIOUS
<1>2. k \in Primary /\ k \in Whole /\ k \notin Climbs \cup {"expr"}
  BY <1>1, PrimaryNames, NameCases
<1>3. Top.fn = k /\ f.fn = k /\ Top.op < pos /\ Top \in FrameType
  BY <1>1, PopHere
<1>4. CASE /\ Tok(p) = "," /\ stack' = Append(Rest, f) /\ phase' = "name" /\ pos' = p + 1
           /\ UNCHANGED <<ret, ast, said>>
  <2>1. stack' = Append(Rest, f) /\ phase' = "name" /\ ast' = ast
    BY <1>4, Zenon
  <2>2. Nested(P, ast, Append(Rest, f), pos) /\ Append(Rest, f) \in Seq(FrameType)
    BY <1>2, <1>3, ReplaceTop
  <2> QED
    BY <2>1, <2>2, NamesGroup
<1>5. CASE /\ Tok(p) = "in" /\ Expression(Append(Rest, [f EXCEPT !.fn = "varbody"]), p + 1)
           /\ UNCHANGED ast
  <2>1. PICK b, g : b = "varbody" /\ g = [f EXCEPT !.fn = b]
    OBVIOUS
  <2>2. b \in Function /\ b \in Primary /\ b \in Whole
    BY <2>1, PrimaryNames
  <2>3. g \in FrameType /\ g.fn = b /\ g.at = f.at /\ g.min = f.min /\ g.op = f.op
    BY <2>1, <2>2 DEF FrameType
  <2>4. Expression(Append(Rest, g), p + 1) /\ ast' = ast
    BY <1>5, <2>1
  <2>5. p + 1 > pos
    BY GroupFacts
  <2> QED
    BY <1>2, <1>3, <2>2, <2>3, <2>4, <2>5, PartGroups
<1>6. CASE Fail(Rest, p)
  BY <1>6, FailGroups
<1> QED
  BY <1>4, <1>5, <1>6, Zenon DEF VarList

LEMMA VarNameGroups == ASSUME NEW P, GroupHere(P), VarName PROVE GroupInv'
<1>1. stack # <<>> /\ Top.fn = "var" /\ phase = "name"
  BY GroupFacts DEF VarName, ParserInv, WorkOK, Top
<1>2. PICK k : k = "var"
  OBVIOUS
<1>3. k \in Primary /\ k \in Whole /\ Top.fn = k
  BY <1>1, <1>2, PrimaryNames
<1>4. PICK t, ns, g : t = Top /\ ns = Append(t.names, pos) /\ g = [t EXCEPT !.names = ns]
  OBVIOUS
<1>5. t \in FrameType /\ t.names \in Seq(Nat) /\ t.kids \in Seq(Nat) /\ pos \in Nat
  BY <1>1, <1>4, PopHere, GroupFacts DEF FrameType
<1>6. ns \in Seq(Nat)
  BY <1>4, <1>5
<1>7. /\ g \in FrameType /\ g.fn = t.fn /\ g.at = t.at /\ g.min = t.min /\ g.op = t.op
      /\ g.kids = t.kids
  BY <1>4, <1>5, <1>6 DEF FrameType
<1>8. g = [Top EXCEPT !.names = Append(@, pos)]
  BY <1>4
<1>9. CASE Fail(Rest, pos)
  BY <1>1, <1>9, FailGroups
<1>10. CASE Expression(Append(Rest, g), pos + 2) /\ UNCHANGED ast
  <2>1. pos + 2 > pos
    BY <1>5
  <2> QED
    BY <1>1, <1>3, <1>4, <1>7, <1>10, <2>1, PartGroups
<1>11. CASE VarList([g EXCEPT !.kids = Append(@, 0)], pos + 1)
  <2>1. PICK h, ks : h = [g EXCEPT !.kids = ks] /\ ks = Append(g.kids, 0)
    OBVIOUS
  <2>2. ks \in Seq(Nat)
    BY <1>5, <1>7, <2>1
  <2>3. h \in FrameType /\ h.fn = g.fn /\ h.at = g.at /\ h.min = g.min /\ h.op = g.op
    BY <1>7, <2>1, <2>2 DEF FrameType
  <2>4. VarList(h, pos + 1)
    BY <1>11, <2>1
  <2>5. pos + 1 \in Nat /\ pos <= pos + 1
    BY <1>5
  <2> QED
    BY <1>1, <1>4, <1>7, <2>3, <2>4, <2>5, VarListGroups
<1> QED
  BY <1>8, <1>9, <1>10, <1>11, Zenon DEF VarName

LEMMA VarInitGroups == ASSUME NEW P, GroupHere(P), VarInit PROVE GroupInv'
<1>1. PICK f : f = "var"
  OBVIOUS
<1>2. f \in {"paren", "call", "if", "for", "var", "varbody"} /\ Got(f) /\ VarList(WithKid, pos)
  BY <1>1, Zenon DEF VarInit
<1>3. /\ WithKid \in FrameType /\ WithKid.at = Top.at /\ WithKid.min = Top.min
      /\ WithKid.op = Top.op /\ WithKid.fn = f
  BY <1>2, WithKidFields
<1>4. stack # <<>> /\ Top.fn = f
  BY <1>2, CollectReceives
<1>5. pos \in Nat /\ pos <= pos
  BY GroupFacts
<1> QED
  BY <1>1, <1>2, <1>3, <1>4, <1>5, VarListGroups

LEMMA VarBodyGroups == ASSUME NEW P, GroupHere(P), VarBody PROVE GroupInv'
<1>1. PICK f : f = "varbody"
  OBVIOUS
<1>2. f \in {"paren", "call", "if", "for", "var", "varbody"} /\ Got(f)
  BY <1>1, Zenon DEF VarBody
<1>3. /\ stack # <<>> /\ Top.fn \in Primary /\ WithKid.kids \in Seq(Nat) /\ Top.names \in Seq(Nat)
      /\ P[pos] < 0
  BY <1>2, CollectReceives, WithKidFields
<1>4. Build(Rest, Node("var", Top.at, Top.at, Top.names, WithKid.kids), pos)
  BY DEF VarBody
<1> QED
  BY <1>3, <1>4, EndBuilds

LEMMA UnaryGroups == ASSUME NEW P, GroupHere(P), ParseUnary PROVE GroupInv'
<1>1. PICK k, f : k = "unary" /\ f = Frame(k, pos)
  OBVIOUS
<1>2. /\ phase = "unary" /\ stack' = Append(stack, f) /\ phase' = "unary" /\ pos' = pos + 1
      /\ ast' = ast
  BY <1>1, Zenon DEF ParseUnary
<1>3. k \in Function /\ k \in Primary /\ k \notin Climbs
  BY <1>1 DEF Function, Primary, Climbs
<1>4. f \in FrameType /\ f.fn = k /\ f.at = pos /\ f.op = 0
  BY <1>1, <1>3, GroupFacts, FrameFields
<1>5. PICK u : u = Append(stack, f)
  OBVIOUS
<1>6. Nested(P, ast, u, pos) /\ u \in Seq(FrameType) /\ u # <<>> /\ u[Len(u)] = f
  BY <1>2, <1>3, <1>4, <1>5, CalledHere
<1>7. stack' = u
  BY <1>2, <1>5
<1>8. Nested(P, ast', stack', pos') /\ TreeGrouped(P, ast')
  BY <1>2, <1>6, <1>7, GroupFacts, NestedOn
<1>9. Wants(f) /\ PartAt(f) = pos + 1
  BY <1>1, <1>4 DEF Wants, PartAt
<1>10. Turn(P, ast', stack', phase', pos', ret')
  BY <1>2, <1>6, <1>7, <1>9 DEF Turn, AtUnary
<1> QED
  BY <1>8, <1>10, Regroups

LEMMA UnaryDoneGroups == ASSUME NEW P, GroupHere(P), UnaryDone PROVE GroupInv'
<1>1. PICK k : k = "unary"
  OBVIOUS
<1>2. Got(k) /\ Build(Rest, Node(k, Top.at, Top.at, <<>>, <<ret>>), pos)
  BY <1>1, Zenon DEF UnaryDone
<1>3. /\ stack # <<>> /\ Top.fn = k /\ ret \in 1..Len(ast) /\ ret # 0
      /\ Received(P, Top, ast[ret], P[pos]) /\ Top.at \in Nat /\ ret \in Nat
  BY <1>2, GotReceives
<1>4. k \in Primary /\ k \in Kind /\ k \notin Operations /\ k \notin Greedy /\ k # "binary"
  BY <1>1 DEF Primary, Kind, Operations, Greedy
<1>5. PICK z, t, e, ks, y : /\ z = pos - 1 /\ t = Top.at /\ e = <<>> /\ ks = <<ret>>
                            /\ y = [Node(k, t, t, e, ks) EXCEPT !.to = z]
  OBVIOUS
<1>6. ast' = Append(ast, y) /\ Return(Rest, Len(ast) + 1) /\ pos' = pos
  BY <1>2, <1>5, Zenon DEF Build
<1>7. z \in Int /\ ast \in Seq(NodeType) /\ Len(ast) \in Nat
  BY <1>5, GroupFacts
<1>8. e \in Seq(Nat)
  BY <1>5, NoLists, Zenon
<1>9. ks \in Seq(Nat) /\ ks # <<>> /\ ks[1] = ret /\ Len(ks) = 1
  BY <1>3, <1>5, WithinOne
<1>10. y \in NodeType /\ y.kind = k /\ y.from = t /\ y.at = t /\ y.kids = ks
  BY <1>3, <1>4, <1>5, <1>7, <1>8, <1>9 DEF Node, NodeType
<1>11. ast'[Len(ast) + 1] = y /\ ast'[ret] = ast[ret]
  BY <1>3, <1>6, <1>7, <1>10, PushFacts
<1>12. ast[ret].from = t + 1 => ast[ret].kind \notin Operations
  <2>1. PICK g, x : g = Top /\ x = ast[ret]
    OBVIOUS
  <2>2. Wants(g) /\ PartAt(g) = t + 1
    BY <1>1, <1>3, <1>5, <2>1 DEF Wants, PartAt
  <2>3. x.kind \in Operations => x.from > t + 1
    BY <1>3, <2>1, <2>2 DEF Received
  <2>4. t + 1 \in Nat
    BY <1>3, <1>5
  <2>5. x.from = t + 1 => x.kind \notin Operations
    BY <2>3, <2>4
  <2> QED
    BY <2>1, <2>5
<1>13. Grouped(P, ast', y)
  BY <1>1, <1>3, <1>4, <1>9, <1>10, <1>11, <1>12 DEF Grouped
<1>14. TreeKept(P)
  BY <1>6, <1>10, <1>13 DEF TreeKept
<1>15. PICK n : n = Len(ast) + 1
  OBVIOUS
<1>16. Return(Rest, n) /\ y = ast'[n] /\ y.from = Top.at /\ y.kind \notin Operations
  BY <1>4, <1>5, <1>6, <1>10, <1>11, <1>15, Zenon
<1>17. y.kind \notin Greedy
  BY <1>4, <1>10, Zenon
<1> QED
  BY <1>3, <1>4, <1>14, <1>16, <1>17, EndGroups

LEMMA NothingGroups == ASSUME NEW P, GroupHere(P), ParseNothing PROVE GroupInv'
<1>1. Fail(stack, pos)
  BY Zenon DEF ParseNothing
<1> QED
  BY <1>1, FailGroups

LEMMA PartFailsGroups == ASSUME NEW P, GroupHere(P), PartFails PROVE GroupInv'
<1>1. stack # <<>> /\ stack' = Rest /\ ret' = 0 /\ phase' = "return" /\ ast' = ast
  BY DEF PartFails, Return
<1> QED
  BY <1>1, ReturnGroups DEF TreeKept
-----------------------------------------------------------------------------
\* Precedence climbing keeps it.
LEMMA RHSFields ==
    ASSUME NEW at \in Nat, NEW min \in Nat, NEW n \in Nat
    PROVE  /\ BinOpRHS(at, min, n) \in FrameType /\ BinOpRHS(at, min, n).fn = "rhs"
           /\ BinOpRHS(at, min, n).at = at /\ BinOpRHS(at, min, n).op = 0
           /\ BinOpRHS(at, min, n).min = min /\ BinOpRHS(at, min, n).kids[1] = n
<1>1. PICK ks, f, g : ks = <<n>> /\ f = Frame("rhs", at) /\ g = BinOpRHS(at, min, n)
  OBVIOUS
<1>2. ks \in Seq(Nat) /\ ks[1] = n
  BY <1>1, WithinOne
<1>3. f.fn = "rhs" /\ f.at = at /\ f.op = 0 /\ f \in FrameType
  BY <1>1, FrameFields DEF Function
<1>4. g = [f EXCEPT !.min = min, !.kids = ks]
  BY <1>1 DEF BinOpRHS
<1>5. /\ g \in FrameType /\ g.fn = "rhs" /\ g.at = at /\ g.op = 0 /\ g.min = min
      /\ g.kids[1] = n
  BY <1>2, <1>3, <1>4 DEF FrameType
<1> QED
  BY <1>1, <1>5, Zenon

LEMMA RHSOf ==
    ASSUME NEW f \in FrameType, NEW i \in Nat
    PROVE  /\ BinOpRHS(f.at, f.min, i) \in FrameType /\ BinOpRHS(f.at, f.min, i).fn = "rhs"
           /\ BinOpRHS(f.at, f.min, i).at = f.at /\ BinOpRHS(f.at, f.min, i).op = 0
           /\ BinOpRHS(f.at, f.min, i).min = f.min /\ BinOpRHS(f.at, f.min, i).kids[1] = i
<1>1. PICK p, q : p = f.at /\ q = f.min
  OBVIOUS
<1>2. p \in Nat /\ q \in Nat
  BY <1>1 DEF FrameType
<1>3. PICK h : h = BinOpRHS(p, q, i)
  OBVIOUS
<1>4. h \in FrameType /\ h.fn = "rhs" /\ h.at = p /\ h.op = 0 /\ h.min = q /\ h.kids[1] = i
  BY <1>2, <1>3, RHSFields
<1> QED
  BY <1>1, <1>3, <1>4, Zenon

LEMMA NodePlace ==
    ASSUME NEW P, GroupHere(P), NEW n \in 1..Len(ast)
    PROVE  /\ ast[n] \in NodeType /\ ast[n].from \in Nat /\ ast[n].at \in Position
           /\ P[ast[n].at] \in Int /\ n \in Nat /\ n # 0
<1>1. AstOK(text, ast) /\ Len(ast) \in Nat
  BY GroupFacts
<1>2. ast[n] \in NodeType /\ ast[n].at \in Position
  BY <1>1 DEF AstOK, NodeOK, Position
<1>3. ast[n].from \in Nat
  BY <1>2 DEF NodeType
<1> QED
  BY <1>1, <1>2, <1>3, PrecAt

LEMMA StartsClimbing ==
    ASSUME NEW P, GroupHere(P), NEW f \in FrameType, Wants(f), NEW n \in 1..Len(ast),
           Received(P, f, ast[n], P[pos]), NEW g \in FrameType, g.fn = "rhs", g.at = PartAt(f),
           g.kids[1] = n
    PROVE  Climbing(P, ast, g) /\ AtBinop(P, ast, g, pos)
<1>1. PICK x : x = ast[n]
  OBVIOUS
<1>2. x.from \in Nat /\ g.at \in Nat
  BY <1>1, NodePlace DEF FrameType
<1>3. /\ x.from >= g.at /\ (x.kind \in Operations => x.from > g.at)
      /\ x.kind \in Greedy /\ x.from = g.at => P[pos] < 0
  BY <1>1 DEF Received
<1>4. x.from = g.at => x.kind \notin Operations
  BY <1>2, <1>3
<1> QED
  BY <1>1, <1>3, <1>4 DEF Climbing, AtBinop

LEMMA LoopGroups ==
    ASSUME NEW P, GroupHere(P), phase' = "binop", TreeGrouped(P, ast'), NEW s \in Seq(FrameType),
           Nested(P, ast', s, pos'), NEW g \in FrameType, s # <<>> => Calls(P, s[Len(s)], g),
           g.at <= pos', g.op < pos', Climbing(P, ast', g), AtBinop(P, ast', g, pos'),
           stack' = Append(s, g)
    PROVE  GroupInv'
<1>1. PICK u : u = Append(s, g)
  OBVIOUS
<1>2. Nested(P, ast', u, pos') /\ u[Len(u)] = g
  BY <1>1, NestedPush
<1>3. Turn(P, ast', stack', phase', pos', ret')
  BY <1>1, <1>2 DEF Turn
<1> QED
  BY <1>1, <1>2, <1>3, Regroups

LEMMA ExprCalled ==
    ASSUME NEW P, NEW f \in FrameType, NEW g, Calls(P, f, g), g.fn = "expr"
    PROVE  g.min = 0
<1>1. f.fn \in Function
  BY DEF FrameType
<1>2. "expr" \notin Primary /\ "expr" \notin Climbs
  BY DEF Primary, Climbs
<1>3. ~Wants(f) /\ f.fn # "merge" /\ f.fn # "rhs"
  BY <1>2 DEF Calls
<1>4. f.fn \in Whole
  BY <1>1, <1>3, FunctionCases
<1> QED
  BY <1>4 DEF Calls

LEMMA ClimbCalled ==
    ASSUME NEW P, NEW f \in FrameType, NEW g, Calls(P, f, g), g.fn \in Climbs
    PROVE  /\ f.fn # "rhs" /\ ~Wants(f)
           /\ \/ f.fn = "merge" /\ f.fn \notin Whole /\ g.at = PartAt(f) /\ g.min = P[f.op] + 1
              \/ /\ f.fn \in Whole /\ f.fn # "merge" /\ g.min = 0 /\ PartAt(f) = f.at
                 /\ g.at >= f.at /\ (f.fn # "top" => g.at > f.at)
<1>1. f.fn \in Function
  BY DEF FrameType
<1>2. g.fn \notin Primary
  BY NameCases
<1>3. ~Wants(f) /\ f.fn # "rhs"
  BY <1>2 DEF Calls
<1>4. f.fn \in Whole \/ f.fn = "merge"
  BY <1>1, <1>3, FunctionCases
<1>5. "merge" \notin Whole
  BY DEF Whole
<1> QED
  BY <1>1, <1>3, <1>4, <1>5, FunctionCases DEF Calls

LEMMA UnaryParsedGroups == ASSUME NEW P, GroupHere(P), UnaryParsed PROVE GroupInv'
<1>1. PICK k : k = "expr"
  OBVIOUS
<1>2. /\ Got(k) /\ phase' = "binop" /\ UNCHANGED <<pos, ret, ast, said>>
      /\ stack' = Append(Rest, BinOpRHS(Top.at, 0, ret))
  BY <1>1, Zenon DEF UnaryParsed
<1>3. PICK f, g : f = Top /\ g = BinOpRHS(f.at, 0, ret)
  OBVIOUS
<1>4. /\ stack # <<>> /\ f.fn = k /\ ret \in 1..Len(ast) /\ Received(P, f, ast[ret], P[pos])
      /\ f \in FrameType /\ f.at \in Nat
  BY <1>2, <1>3, GotReceives
<1>5. ret \in Nat /\ 0 \in Nat
  BY <1>4, NodePlace
<1>6. g \in FrameType /\ g.fn = "rhs" /\ g.at = f.at /\ g.op = 0 /\ g.min = 0 /\ g.kids[1] = ret
  BY <1>3, <1>4, <1>5, RHSFields
<1>7. Wants(f) /\ PartAt(f) = f.at
  BY <1>1, <1>4 DEF Wants, PartAt
<1>8. Climbing(P, ast, g) /\ AtBinop(P, ast, g, pos)
  BY <1>4, <1>6, <1>7, StartsClimbing
<1>9. /\ Nested(P, ast, Rest, pos) /\ Rest \in Seq(FrameType) /\ f.at <= pos
      /\ Rest # <<>> => Calls(P, Rest[Len(Rest)], f) /\ Rest[Len(Rest)] \in FrameType
  BY <1>3, <1>4, PopHere
<1>10. Rest # <<>> => Calls(P, Rest[Len(Rest)], g)
  <2>1. f.fn \notin Primary /\ g.fn \in Climbs
    BY <1>1, <1>4, <1>6 DEF Primary, Climbs
  <2>2. Rest # <<>> => f.min = 0
    BY <1>1, <1>4, <1>9, ExprCalled
  <2> QED
    BY <1>6, <1>9, <2>1, <2>2, CallsSame
<1>11. TreeGrouped(P, ast) /\ pos \in Nat /\ pos # 0
  BY GroupFacts
<1>12. g.at <= pos /\ g.op < pos
  BY <1>6, <1>9, <1>11
<1>13. ast' = ast /\ pos' = pos /\ stack' = Append(Rest, g)
  BY <1>2, <1>3
<1> QED
  BY <1>2, <1>6, <1>8, <1>9, <1>10, <1>11, <1>12, <1>13, LoopGroups

\* At the head of the loop.
LEMMA HeadFacts ==
    ASSUME NEW P, GroupHere(P), phase = "binop"
    PROVE  /\ stack # <<>> /\ Top \in FrameType /\ Top.fn = "rhs" /\ Top.kids[1] \in 1..Len(ast)
           /\ Climbing(P, ast, Top) /\ AtBinop(P, ast, Top, pos)
           /\ P[pos] = GetPrecedence(CurTok) /\ P[pos] \in Int
           /\ Top.min \in Nat /\ Top.at \in Nat /\ Top.at <= pos
<1>1. Here
  BY DEF GroupHere
<1>2. stack # <<>> /\ Top \in FrameType /\ Top.fn = "rhs" /\ Top.kids[1] \in 1..Len(ast)
  BY <1>1, LoopFacts
<1>3. Climbing(P, ast, Top) /\ Top.at <= pos
  BY <1>2, PopHere DEF Climbs
<1>4. AtBinop(P, ast, Top, pos)
  BY GroupFacts DEF Turn, Top
<1>5. P[pos] = GetPrecedence(CurTok) /\ P[pos] \in Int
  BY GroupFacts, PrecAt DEF CurTok
<1>6. Top.min \in Nat /\ Top.at \in Nat
  BY <1>2 DEF FrameType
<1> QED
  BY <1>2, <1>3, <1>4, <1>5, <1>6

\* The place of the operator that a function has taken.
LEMMA OperatorPlace ==
    ASSUME NEW P, GroupHere(P), NEW f, FrameOK(text, ast, f), f.fn \in {"operand", "merge"}
    PROVE  /\ f.op \in 1..Len(text) /\ f.op \in Position /\ f.op \in Nat
           /\ P[f.op] = GetPrecedence(Tok(f.op)) /\ P[f.op] \in Int /\ P[f.op] >= -1
<1>1. ParserInv /\ Len(text) \in Nat
  BY GroupFacts, Facts
<1>2. f.op \in 0..Len(text) /\ f.op # 0
  BY DEF FrameOK
<1>3. f.op \in 1..Len(text) /\ f.op \in Position /\ f.op \in Nat
  BY <1>1, <1>2 DEF Position
<1> QED
  BY <1>1, <1>3, PrecAt, PrecFacts

LEMMA NoOperatorGroups == ASSUME NEW P, GroupHere(P), NoOperator PROVE GroupInv'
<1>1. phase = "binop" /\ GetPrecedence(CurTok) < Top.min /\ Return(Rest, Top.kids[1])
      /\ UNCHANGED <<pos, ast, said>>
  BY DEF NoOperator
<1>2. PICK g, n, x : g = Top /\ n = g.kids[1] /\ x = ast[n]
  OBVIOUS
<1>3. /\ stack # <<>> /\ g \in FrameType /\ g.fn = "rhs" /\ n \in 1..Len(ast)
      /\ Climbing(P, ast, g) /\ P[pos] < g.min /\ P[pos] \in Int /\ g.at \in Nat
  BY <1>1, <1>2, HeadFacts
<1>4. x.from \in Nat /\ P[x.at] \in Int
  BY <1>2, <1>3, NodePlace
<1>5. x.from >= g.at /\ (x.from = g.at /\ x.kind \in Operations => P[x.at] >= g.min)
  BY <1>2, <1>3 DEF Climbing
<1>6. ASSUME Rest # <<>> PROVE AtReturn(P, ast', Rest[Len(Rest)], pos', ret')
  <2>1. PICK f : f = Rest[Len(Rest)]
    OBVIOUS
  <2>2. f \in FrameType /\ Calls(P, f, g) /\ g.fn \in Climbs
    BY <1>2, <1>3, <1>6, <2>1, PopHere DEF Climbs
  <2>3. FrameOK(text, ast, f)
    <3>1. StackOK(text, ast, Rest) /\ Rest \in Seq(FrameType)
      BY <1>3, PopHere
    <3>2. Len(Rest) \in 1..Len(Rest)
      BY <1>6, <3>1, PopFacts
    <3> QED
      BY <2>1, <3>1, <3>2 DEF StackOK
  <2>4. f.fn # "rhs" /\ ~Wants(f)
    BY <2>2, ClimbCalled
  <2>5. ASSUME f.fn = "merge", f.fn \notin Whole, g.at = PartAt(f), g.min = P[f.op] + 1
        PROVE  Received(P, f, x, P[pos])
    <3>1. PICK c, d, e, m : c = P[pos] /\ d = P[f.op] /\ e = P[x.at] /\ m = g.min
      OBVIOUS
    <3>2. d \in Int
      BY <2>3, <2>5, <3>1, OperatorPlace
    <3>3. c \in Int /\ e \in Int /\ c < m /\ m = d + 1
      BY <1>3, <1>4, <2>5, <3>1
    <3>4. c <= d /\ (e >= m => e > d)
      BY <3>2, <3>3
    <3>5. x.from = g.at /\ x.kind \in Operations => P[x.at] > P[f.op]
      BY <1>5, <3>1, <3>4
    <3> QED
      BY <1>5, <2>4, <2>5, <3>1, <3>4, <3>5 DEF Received
  <2>6. ASSUME f.fn \in Whole, f.fn # "merge", g.min = 0, PartAt(f) = f.at,
               g.at >= f.at, f.fn # "top" => g.at > f.at
        PROVE  Received(P, f, x, P[pos])
    <3>1. f.at \in Nat
      BY <2>2 DEF FrameType
    <3>2. P[pos] < 0
      BY <1>3, <2>6
    <3>3. x.from >= f.at /\ (g.at > f.at => x.from > f.at)
      BY <1>3, <1>4, <1>5, <2>6, <3>1
    <3> QED
      BY <2>4, <2>6, <3>2, <3>3 DEF Received
  <2>7. Received(P, f, x, P[pos])
    BY <2>2, <2>5, <2>6, ClimbCalled
  <2>8. ret' = n /\ pos' = pos /\ ast' = ast
    BY <1>1, <1>2 DEF Return
  <2> QED
    BY <1>2, <2>1, <2>4, <2>7, <2>8 DEF AtReturn
<1>7. stack' = Rest /\ phase' = "return" /\ ast' = ast
  BY <1>1 DEF Return
<1> QED
  BY <1>3, <1>6, <1>7, ReturnGroups DEF TreeKept

LEMMA TakeOperatorGroups == ASSUME NEW P, GroupHere(P), TakeOperator PROVE GroupInv'
<1>0. PICK t, x, c : t = Top /\ x = ast[t.kids[1]] /\ c = P[pos]
  OBVIOUS
<1>1. /\ phase = "binop" /\ phase' = "unary" /\ pos' = pos + 1 /\ UNCHANGED <<ret, ast, said>>
      /\ stack' = Append(Rest, [Top EXCEPT !.fn = "operand", !.op = pos])
      /\ GetPrecedence(CurTok) >= Top.min
  BY DEF TakeOperator
<1>2. PICK f : f = [t EXCEPT !.fn = "operand", !.op = pos] /\ t = Top /\ x = ast[t.kids[1]] /\ c = P[pos]
  BY <1>0
<1>3. /\ stack # <<>> /\ t \in FrameType /\ t.fn = "rhs" /\ t.kids[1] \in 1..Len(ast)
      /\ Climbing(P, ast, t) /\ AtBinop(P, ast, t, pos) /\ c \in Int
      /\ t.min \in Nat /\ t.at \in Nat /\ t.at <= pos
  BY <1>1, <1>2, HeadFacts
<1>4. c >= t.min
  BY <1>1, <1>2, HeadFacts
<1>5. pos \in Nat /\ TreeGrouped(P, ast)
  BY GroupFacts
<1>6. /\ f \in FrameType /\ f.fn = "operand" /\ f.op = pos /\ f.kids = t.kids /\ f.at = t.at
      /\ f.min = t.min
  BY <1>2, <1>3, <1>5 DEF FrameType, Function
<1>7. Climbing(P, ast, f)
  <2>1. /\ x.from >= t.at
        /\ x.from = t.at /\ x.kind \in Operations => P[x.at] >= t.min
    BY <1>2, <1>3 DEF Climbing
  <2>2. /\ x.from = t.at /\ x.kind \in Greedy => c < 0
        /\ x.from = t.at /\ x.kind \in Operations => c <= P[x.at]
    BY <1>2, <1>3 DEF AtBinop
  <2>3. ~(c < 0)
    BY <1>3, <1>4
  <2>4. x.from = t.at /\ x.kind \in Operations => P[x.at] >= c
    BY <2>2
  <2> QED
    BY <1>2, <1>4, <1>6, <2>1, <2>2, <2>3, <2>4 DEF Climbing
<1>8. /\ Nested(P, ast, Rest, pos) /\ Rest \in Seq(FrameType)
      /\ Rest # <<>> => Calls(P, Rest[Len(Rest)], t)
  BY <1>2, <1>3, PopHere
<1>9. Rest # <<>> => Calls(P, Rest[Len(Rest)], f)
  <2>1. t.fn \notin Primary /\ f.fn \in Climbs
    BY <1>3, <1>6 DEF Primary, Climbs
  <2> QED
    BY <1>6, <1>8, <2>1, CallsSame
<1>10. pos + 1 \in Nat /\ pos <= pos + 1 /\ f.at <= pos + 1 /\ f.op < pos + 1
  BY <1>3, <1>5, <1>6
<1>11. Nested(P, ast, Rest, pos + 1)
  BY <1>5, <1>8, <1>10, NestedOn
<1>12. PICK u : u = Append(Rest, f)
  OBVIOUS
<1>13. Nested(P, ast, u, pos + 1) /\ u # <<>> /\ u[Len(u)] = f
  BY <1>6, <1>7, <1>8, <1>9, <1>10, <1>11, <1>12, NestedPush
<1>14. Wants(f) /\ PartAt(f) = pos + 1
  BY <1>6 DEF Wants, PartAt
<1>15. AtUnary(u, pos + 1)
  BY <1>13, <1>14 DEF AtUnary
<1>16. stack' = u /\ ast' = ast
  BY <1>1, <1>2, <1>12
<1>17. Turn(P, ast', stack', phase', pos', ret')
  BY <1>1, <1>15, <1>16 DEF Turn
<1> QED
  BY <1>1, <1>5, <1>13, <1>16, <1>17, Regroups

LEMMA BindsRightGroups == ASSUME NEW P, GroupHere(P), BindsRight PROVE GroupInv'
<1>1. PICK k, prec : k = "operand" /\ prec = GetPrecedence(Tok(Top.op))
  OBVIOUS
<1>2. /\ Got(k) /\ phase' = "binop" /\ UNCHANGED <<pos, ret, ast, said>>
      /\ stack' = Rest \o <<[Top EXCEPT !.fn = "merge"], BinOpRHS(Top.op + 1, Above(prec), ret)>>
  BY <1>1, Zenon DEF BindsRight
<1>3. PICK t, m, g : /\ t = Top /\ m = [t EXCEPT !.fn = "merge"]
                     /\ g = BinOpRHS(t.op + 1, prec + 1, ret)
  OBVIOUS
<1>4. /\ stack # <<>> /\ t.fn = "operand" /\ ret \in 1..Len(ast) /\ Received(P, t, ast[ret], P[pos])
      /\ t \in FrameType /\ t.at \in Nat /\ t.op \in Nat
  BY <1>1, <1>2, <1>3, GotReceives
<1>5. /\ Nested(P, ast, Rest, pos) /\ Rest \in Seq(FrameType) /\ FrameOK(text, ast, t)
      /\ t.at <= pos /\ t.op < pos /\ Climbing(P, ast, t)
  BY <1>3, <1>4, PopHere DEF Climbs
<1>6. prec = P[t.op] /\ prec \in Int /\ prec >= -1 /\ t.op + 1 \in Nat /\ prec + 1 \in Nat
  <2>1. t.fn \in {"operand", "merge"}
    BY <1>4
  <2>2. P[t.op] = GetPrecedence(Tok(t.op)) /\ P[t.op] \in Int /\ P[t.op] >= -1 /\ t.op \in Nat
    BY <1>5, <2>1, OperatorPlace
  <2>3. prec = GetPrecedence(Tok(t.op))
    BY <1>1, <1>3, Zenon
  <2> QED
    BY <2>2, <2>3
<1>7. /\ m \in FrameType /\ m.fn = "merge" /\ m.op = t.op /\ m.kids = t.kids
      /\ m.at = t.at /\ m.min = t.min
  BY <1>3, <1>4 DEF FrameType, Function
<1>8. ret \in Nat
  BY <1>4, NodePlace
<1>9. /\ g \in FrameType /\ g.fn = "rhs" /\ g.at = t.op + 1 /\ g.op = 0 /\ g.min = prec + 1
      /\ g.kids[1] = ret
  BY <1>3, <1>6, <1>8, RHSFields
<1>10. Wants(t) /\ PartAt(t) = t.op + 1
  BY <1>4 DEF Wants, PartAt
<1>11. Climbing(P, ast, g) /\ AtBinop(P, ast, g, pos)
  BY <1>4, <1>9, <1>10, StartsClimbing
<1>12. Climbing(P, ast, m)
  BY <1>4, <1>5, <1>7 DEF Climbing
<1>13. PICK s : s = Append(Rest, m)
  OBVIOUS
<1>14. Nested(P, ast, s, pos) /\ s \in Seq(FrameType) /\ s # <<>> /\ s[Len(s)] = m
  <2>1. t.fn \notin Primary /\ m.fn \in Climbs /\ m.op < pos
    BY <1>4, <1>5, <1>7 DEF Primary, Climbs
  <2>2. Top.fn \notin Primary /\ m.at = Top.at /\ m.min = Top.min
    BY <1>3, <1>7, <2>1
  <2>3. m \in FrameType
    BY <1>7
  <2> QED
    BY <1>4, <1>12, <1>13, <2>1, <2>2, <2>3, ReplaceTop
<1>15. Calls(P, m, g)
  <2>1. ~Wants(m) /\ m.fn \notin Whole /\ PartAt(m) = t.op + 1 /\ g.fn \in Climbs
    BY <1>7, <1>9 DEF Wants, Whole, PartAt, Climbs
  <2> QED
    BY <1>6, <1>7, <1>9, <2>1 DEF Calls
<1>16. pos \in Nat /\ pos # 0 /\ TreeGrouped(P, ast)
  BY GroupFacts
<1>17. g.at <= pos /\ g.op < pos
  BY <1>4, <1>5, <1>9, <1>16
<1>18. stack' = Append(s, g) /\ ast' = ast /\ pos' = pos
  <2>1. Rest \o <<m, g>> = Append(Append(Rest, m), g)
    BY <1>5, <1>7, <1>9
  <2>2. g = BinOpRHS(Top.op + 1, Above(prec), ret) /\ m = [Top EXCEPT !.fn = "merge"]
    BY <1>3 DEF Above
  <2> QED
    BY <1>2, <1>13, <2>1, <2>2
<1> QED
  BY <1>2, <1>9, <1>11, <1>14, <1>15, <1>16, <1>17, <1>18, LoopGroups

\* A function that has both operands.
MayMerge == \/ Got("operand") /\ ~Tighter(GetPrecedence(Tok(Top.op)), GetPrecedence(CurTok))
            \/ Got("merge")

LEMMA MergeFacts ==
    ASSUME NEW P, GroupHere(P), MayMerge
    PROVE  /\ stack # <<>> /\ Top \in FrameType /\ Top.fn \in {"operand", "merge"}
           /\ ret \in 1..Len(ast) /\ Top.kids[1] \in 1..Len(ast) /\ Climbing(P, ast, Top)
           /\ P[pos] <= P[Top.op] /\ Top.op \in Nat /\ Top.at \in Nat /\ Top.min \in Nat
           /\ (ast[ret].from = Top.op + 1 /\ ast[ret].kind \in Operations =>
                P[ast[ret].at] > P[Top.op])
<1>1. PICK k \in {"operand", "merge"} : Got(k)
  BY DEF MayMerge
<1>2. PICK t, x : t = Top /\ x = ast[ret]
  OBVIOUS
<1>3. /\ stack # <<>> /\ t.fn = k /\ ret \in 1..Len(ast) /\ Received(P, t, x, P[pos])
      /\ t \in FrameType /\ t.at \in Nat /\ t.op \in Nat
  BY <1>1, <1>2, GotReceives, Zenon
<1>4. t.fn \in {"operand", "merge"}
  BY <1>3
<1>5. t.fn \in Climbs /\ t.min \in Nat
  BY <1>3, <1>4 DEF Climbs, FrameType
<1>6. FrameOK(text, ast, t) /\ Climbing(P, ast, t)
  BY <1>2, <1>3, <1>5, PopHere
<1>7. P[t.op] \in Int /\ P[t.op] = GetPrecedence(Tok(t.op))
  BY <1>4, <1>6, OperatorPlace
<1>8. t.kids[1] \in 1..Len(ast)
  <2>1. Got("operand") \/ Got("merge")
    BY DEF MayMerge
  <2> QED
    BY <1>2, <2>1, OperandFacts DEF GroupHere
<1>9. P[pos] \in Int /\ P[pos] = GetPrecedence(CurTok)
  BY GroupFacts, PrecAt DEF CurTok
<1>10. PartAt(t) = t.op + 1 /\ x.from \in Nat
  BY <1>2, <1>3, <1>4, NodePlace DEF PartAt
<1>11. CASE t.fn = "operand"
  <2>1. ~Got("merge")
    BY <1>2, <1>11 DEF Got
  <2>2. ~Tighter(GetPrecedence(Tok(t.op)), GetPrecedence(CurTok))
    BY <1>2, <2>1 DEF MayMerge
  <2>3. P[pos] <= P[t.op]
    BY <1>7, <1>9, <2>2 DEF Tighter
  <2>4. Wants(t)
    BY <1>11 DEF Wants
  <2>5. x.kind \in Operations => x.from > t.op + 1
    BY <1>3, <1>10, <2>4 DEF Received
  <2>6. ~(x.from = t.op + 1 /\ x.kind \in Operations)
    BY <1>3, <1>10, <2>5
  <2> QED
    BY <1>2, <1>3, <1>4, <1>5, <1>6, <1>8, <2>3, <2>6
<1>12. CASE t.fn = "merge"
  <2>1. P[pos] <= P[t.op] /\ (x.from = t.op + 1 /\ x.kind \in Operations => P[x.at] > P[t.op])
    BY <1>3, <1>10, <1>12 DEF Received
  <2> QED
    BY <1>2, <1>3, <1>4, <1>5, <1>6, <1>8, <2>1
<1> QED
  BY <1>4, <1>11, <1>12

LEMMA MergedGroups ==
    ASSUME NEW P, GroupHere(P), MayMerge, NEW k \in Operations, NEW ns \in Seq(Nat),
           NEW ks \in Seq(Nat), ks # <<>>, ks[1] # 0, ks[Len(ks)] = ret,
           k = "binary" => ks[1] = Top.kids[1], Merged(Node(k, Top.op, Top.at, ns, ks))
    PROVE  GroupInv'
<1>1. PICK t, x, n, l, z, y, m, g :
        /\ t = Top /\ x = ast[ret] /\ n = t.kids[1] /\ l = ast[n] /\ z = pos - 1
        /\ y = [Node(k, t.op, t.at, ns, ks) EXCEPT !.to = z] /\ m = Len(ast) + 1
        /\ g = BinOpRHS(t.at, t.min, m)
  OBVIOUS
<1>2. /\ ast' = Append(ast, y) /\ stack' = Append(Rest, g) /\ phase' = "binop" /\ pos' = pos
  BY <1>1, Zenon DEF Merged
<1>3. /\ stack # <<>> /\ t \in FrameType /\ t.fn \in {"operand", "merge"}
      /\ ret \in 1..Len(ast) /\ n \in 1..Len(ast) /\ Climbing(P, ast, t)
      /\ P[pos] <= P[t.op] /\ t.op \in Nat /\ t.at \in Nat /\ t.min \in Nat
      /\ (x.from = t.op + 1 /\ x.kind \in Operations => P[x.at] > P[t.op])
  BY <1>1, MergeFacts
<1>4. z \in Int /\ m \in Nat /\ ast \in Seq(NodeType) /\ Len(ast) \in Nat /\ pos \in Nat /\ pos # 0
  <2>1. ast \in Seq(NodeType) /\ Len(ast) \in Nat /\ pos \in Nat /\ pos # 0
    BY GroupFacts
  <2>2. z = pos - 1 /\ m = Len(ast) + 1
    BY <1>1, Zenon
  <2> QED
    BY <2>1, <2>2
<1>5. k \in Kind /\ k # "unary" /\ k \notin Greedy
  BY DEF Operations, Kind, Greedy
<1>6. y \in NodeType /\ y.kind = k /\ y.from = t.at /\ y.at = t.op /\ y.kids = ks
  BY <1>1, <1>3, <1>4, <1>5 DEF Node, NodeType
<1>7. ast'[m] = y /\ ast'[ret] = x /\ ast'[n] = l
  BY <1>1, <1>2, <1>3, <1>4, <1>6, PushFacts
<1>8. /\ P[t.op] >= t.min
      /\ l.from = t.at => l.kind \notin Greedy /\ (l.kind \in Operations => P[l.at] >= P[t.op])
  <2>1. t.fn # "rhs"
    BY <1>3
  <2> QED
    BY <1>1, <1>3, <2>1 DEF Climbing
<1>9. ret # 0
  BY <1>3, NodePlace
<1>10. Grouped(P, ast', y)
  <2>1. ks[1] # 0 /\ ks[Len(ks)] # 0 /\ ks # <<>> /\ ast'[ks[Len(ks)]] = x
    BY <1>7, <1>9
  <2>2. k = "binary" => ast'[ks[1]] = l
    BY <1>1, <1>7
  <2> QED
    BY <1>3, <1>5, <1>6, <1>8, <2>1, <2>2 DEF Grouped
<1>11. TreeKept(P)
  BY <1>2, <1>6, <1>10 DEF TreeKept
<1>12. /\ Nested(P, ast, Rest, pos) /\ Rest \in Seq(FrameType) /\ t.at <= pos
       /\ StackOK(text, ast, Rest) /\ (Rest # <<>> => Calls(P, Rest[Len(Rest)], t))
  BY <1>1, <1>3, PopHere
<1>13. TreeGrouped(P, ast') /\ Nested(P, ast', Rest, pos')
  BY <1>11, <1>12, Kept
<1>14. /\ g \in FrameType /\ g.fn = "rhs" /\ g.at = t.at /\ g.op = 0 /\ g.min = t.min
       /\ g.kids[1] = m
  <2>1. g = BinOpRHS(t.at, t.min, m) /\ t \in FrameType /\ m \in Nat
    BY <1>1, <1>3, <1>4, Zenon
  <2> QED
    BY <2>1, RHSOf, Zenon
<1>15. Rest # <<>> => Calls(P, Rest[Len(Rest)], g)
  <2>1. t.fn \notin Primary /\ g.fn \in Climbs
    BY <1>3, <1>14 DEF Primary, Climbs
  <2> QED
    BY <1>12, <1>14, <2>1, CallsSame
<1>16. Climbing(P, ast', g)
  <2>1. ast'[g.kids[1]] = y /\ y.from = g.at /\ P[y.at] >= g.min
    BY <1>6, <1>7, <1>8, <1>14
  <2>2. y.from >= g.at
    BY <1>3, <1>14, <2>1
  <2>3. g.fn = "rhs"
    BY <1>14
  <2> QED
    BY <2>1, <2>2, <2>3 DEF Climbing
<1>17. AtBinop(P, ast', g, pos')
  BY <1>2, <1>3, <1>5, <1>6, <1>7, <1>14 DEF AtBinop
<1>18. g.at <= pos' /\ g.op < pos'
  BY <1>2, <1>4, <1>12, <1>14
<1> QED
  BY <1>2, <1>12, <1>13, <1>14, <1>15, <1>16, <1>17, <1>18, LoopGroups

LEMMA MergeGroups == ASSUME NEW P, GroupHere(P), Merge PROVE GroupInv'
<1>1. MayMerge
  BY Zenon DEF Merge, MayMerge
<1>2. stack # <<>> /\ ret \in 1..Len(ast) /\ Top.kids[1] \in 1..Len(ast)
  BY <1>1, MergeFacts
<1>3. PICK l, r : l = Top.kids[1] /\ r = ret
  OBVIOUS
<1>4. l \in Nat /\ l # 0 /\ r \in Nat /\ r # 0 /\ ast[l].names \in Seq(Nat)
  BY <1>2, <1>3, NodePlace DEF NodeType
<1>5. CASE Merged(Node("binary", Top.op, Top.at, <<>>, <<l, r>>))
  <2>1. PICK ks : ks = <<l, r>>
    OBVIOUS
  <2>2. ks \in Seq(Nat) /\ ks # <<>> /\ ks[1] = l /\ ks[Len(ks)] = r
    BY <1>4, <2>1
  <2>3. "binary" \in Operations /\ <<>> \in Seq(Nat)
    BY NoLists DEF Operations
  <2> QED
    BY <1>1, <1>3, <1>4, <1>5, <2>1, <2>2, <2>3, MergedGroups
<1>6. CASE Merged(Node("assign", Top.op, Top.at, ast[l].names, <<r>>))
  <2>1. PICK ks : ks = <<r>>
    OBVIOUS
  <2>2. ks \in Seq(Nat) /\ ks # <<>> /\ ks[1] = r /\ ks[Len(ks)] = r
    BY <1>4, <2>1
  <2>3. "assign" \in Operations /\ "assign" # "binary"
    BY DEF Operations
  <2> QED
    BY <1>1, <1>3, <1>4, <1>6, <2>1, <2>2, <2>3, MergedGroups
<1>7. CASE Fail(Rest, pos)
  BY <1>2, <1>7, FailGroups
<1> QED
  BY <1>3, <1>5, <1>6, <1>7, Zenon DEF Merge

-----------------------------------------------------------------------------
\* The ends of a construct keep it: no function waits beneath.
LEMMA OutermostFunction ==
    ASSUME NEW P, GroupHere(P), stack # <<>>, Top.fn \in {"def", "top"}
    PROVE  Rest = <<>>
<1>1. SUFFICES ASSUME Rest # <<>> PROVE FALSE
  OBVIOUS
<1>2. PICK f : f = Rest[Len(Rest)]
  OBVIOUS
<1>3. Calls(P, f, Top) /\ f \in FrameType
  BY <1>1, <1>2, PopHere
<1>4. f.fn \in Function
  BY <1>3 DEF FrameType
<1>5. Top.fn \notin Primary /\ Top.fn \notin Climbs \cup {"expr"}
  BY NameCases
<1>6. ~Wants(f) /\ f.fn # "merge" /\ f.fn \notin Whole /\ f.fn # "rhs"
  BY <1>3, <1>5 DEF Calls
<1> QED
  BY <1>4, <1>6, FunctionCases

LEMMA FunctionKind ==
    /\ "function" \in Kind /\ "function" \notin Operations /\ "function" # "unary"
    /\ Protos \subseteq Kind /\ "unary" \notin Protos /\ Protos \cap Operations = {}
BY DEF Kind, Operations, Protos

LEMMA DefinitionGroups == ASSUME NEW P, GroupHere(P), Definition PROVE GroupInv'
<1>1. PICK k, f : k = "function" /\ f = "def"
  OBVIOUS
<1>2. Got(f) /\ Build(Rest, Node(k, Top.at, Top.at, <<>>, WithKid.kids), pos)
  BY <1>1, Zenon DEF Definition
<1>3. stack # <<>> /\ Top.fn = f /\ ret \in 1..Len(ast) /\ Top \in FrameType
  BY <1>2, GotReceives
<1>4. k \in Kind /\ k \notin Operations /\ k # "unary"
  BY <1>1, FunctionKind, Zenon
<1>5. PICK t, e, ks, z, y : /\ t = Top.at /\ e = <<>> /\ ks = WithKid.kids /\ z = pos - 1
                            /\ y = [Node(k, t, t, e, ks) EXCEPT !.to = z]
  OBVIOUS
<1>6. ast' = Append(ast, y) /\ Return(Rest, Len(ast) + 1)
  BY <1>2, <1>5, Zenon DEF Build
<1>7. t \in Nat /\ e \in Seq(Nat)
  BY <1>3, <1>5, NoLists DEF FrameType
<1>8. ks \in Seq(Nat)
  <2>1. ret \in Nat
    BY <1>3, NodePlace
  <2>2. PICK l : l = Top.kids
    OBVIOUS
  <2>3. l \in Seq(Nat)
    BY <1>3, <2>2 DEF FrameType
  <2>4. ks = Append(l, ret)
    BY <1>3, <1>5, <2>2 DEF WithKid, FrameType
  <2> QED
    BY <2>1, <2>3, <2>4
<1>9. z \in Int
  <2>1. pos \in Nat /\ z = pos - 1
    BY <1>5, GroupFacts, Zenon
  <2> QED
    BY <2>1
<1>10. y \in NodeType /\ y.kind = k
  BY <1>4, <1>5, <1>7, <1>8, <1>9 DEF Node, NodeType
<1>11. TreeKept(P)
  BY <1>4, <1>6, <1>10, Trivially DEF TreeKept
<1>12. Rest = <<>>
  BY <1>1, <1>3, OutermostFunction
<1> QED
  BY <1>3, <1>6, <1>11, <1>12, ReturnGroups DEF Return

\* When no function waits, only the tree matters.
LEMMA NoneWaits ==
    ASSUME TreeGrouped(Precs', ast'), stack' = <<>>, phase' \in {"idle", "return"}
    PROVE  GroupInv'
<1>1. Nested(Precs', ast', stack', pos')
  BY DEF Nested
<1>2. Turn(Precs', ast', stack', phase', pos', ret')
  BY DEF Turn
<1> QED
  BY <1>1, <1>2 DEF GroupInv

LEMMA SamePrecs == ASSUME UNCHANGED <<text, table>> PROVE Precs' = Precs
BY DEF Precs, Position, Tok, GetPrecedence

LEMMA TopLevelGroups == ASSUME NEW P, GroupHere(P), TopLevel PROVE GroupInv'
<1>1. PICK f : f = "top"
  OBVIOUS
<1>2. PICK n, u, w : /\ n = Len(ast)
                     /\ u = [Node("anonproto", Top.at, Top.at, <<>>, <<>>) EXCEPT !.to = Top.at - 1]
                     /\ w = [Node("function", Top.at, Top.at, <<>>, <<n + 1, ret>>) EXCEPT !.to = pos - 1]
  OBVIOUS
<1>3. Got(f) /\ ast' = ast \o <<u, w>> /\ stack' = Rest /\ phase' = "return"
  BY <1>1, <1>2, Zenon DEF TopLevel, Return
<1>4. /\ stack # <<>> /\ Top.fn = f /\ ret \in 1..Len(ast) /\ Top \in FrameType
      /\ FrameOK(text, ast, Top)
  BY <1>3, GotReceives, PopHere
<1>5. Rest = <<>>
  BY <1>1, <1>4, OutermostFunction
<1>6. /\ text \in Seq(Token) /\ n \in Nat /\ AstOK(text, ast) /\ TreeGrouped(P, ast) /\ pos \in Nat
      /\ ast \in Seq(NodeType)
  BY <1>2, GroupFacts
<1>7. Top.at \in 1..Len(text) + 1 /\ Top.at \in Nat /\ Top.at - 1 \in Int /\ pos - 1 \in Int
  BY <1>4, <1>6 DEF FrameOK, FrameType
<1>8. NodeOK(text, ast, u, n) /\ u.kind \in Protos
  BY <1>2, <1>6, <1>7, AnonOK
<1>9. w \in NodeType /\ w.kind = "function"
  <2>1. PICK ks : ks = <<n + 1, ret>>
    OBVIOUS
  <2>2. ks \in Seq(Nat)
    BY <1>4, <1>6, <2>1, NodePlace
  <2> QED
    BY <1>2, <1>7, <2>1, <2>2, FunctionKind, NoLists DEF Node, NodeType
<1>10. PICK a : a = Append(ast, u)
  OBVIOUS
<1>11. u \in NodeType
  BY <1>8 DEF NodeOK
<1>12. AstOK(text, a)
  BY <1>2, <1>6, <1>8, <1>10, GrowsAst
<1>13. u.kind \notin Operations /\ u.kind # "unary" /\ w.kind \notin Operations /\ w.kind # "unary"
  BY <1>8, <1>9, FunctionKind, Zenon
<1>14. TreeGrouped(P, a)
  BY <1>6, <1>10, <1>11, <1>13, Trivially, TreeGrows
<1>15. ast' = Append(a, w)
  BY <1>3, <1>6, <1>9, <1>10, <1>11
<1>16. TreeGrouped(P, ast')
  BY <1>6, <1>9, <1>12, <1>13, <1>14, <1>15, Trivially, TreeGrows
<1>17. P = Precs /\ UNCHANGED <<text, table>>
  BY DEF GroupHere, Here
<1>18. P = Precs'
  BY <1>17, SamePrecs
<1> QED
  BY <1>3, <1>5, <1>16, <1>18, NoneWaits

LEMMA ParserStepGroups == ASSUME ParserInv, GroupInv, ParseStep PROVE GroupInv'
<1>1. PICK P : P = Precs
  OBVIOUS
<1>2. GroupHere(P)
  BY <1>1, ParserStepGood, Zenon DEF GroupHere, Here, ParseStep
<1>3. CASE ParseNumber \/ ParseIdentifier \/ CallArgument \/ ParseParen \/ CloseParen
  BY <1>2, <1>3, NumberGroups, IdentifierGroups, CallArgumentGroups, ParenGroups, CloseParenGroups, Zenon
<1>4. CASE ParseIf \/ IfPart \/ ParseFor \/ ForPart
  BY <1>2, <1>4, IfGroups, IfPartGroups, ForGroups, ForPartGroups, Zenon
<1>5. CASE ParseVar \/ VarName \/ VarInit \/ VarBody
  BY <1>2, <1>5, VarGroups, VarNameGroups, VarInitGroups, VarBodyGroups, Zenon
<1>6. CASE ParseUnary \/ UnaryDone \/ ParseNothing
  BY <1>2, <1>6, UnaryGroups, UnaryDoneGroups, NothingGroups, Zenon
<1>7. CASE UnaryParsed \/ NoOperator \/ TakeOperator \/ BindsRight \/ Merge
  BY <1>2, <1>7, UnaryParsedGroups, NoOperatorGroups, TakeOperatorGroups, BindsRightGroups,
     MergeGroups, Zenon
<1>8. CASE Definition \/ TopLevel \/ PartFails
  BY <1>2, <1>8, DefinitionGroups, TopLevelGroups, PartFailsGroups, Zenon
<1> QED
  BY <1>3, <1>4, <1>5, <1>6, <1>7, <1>8, Zenon DEF ParseStep

-----------------------------------------------------------------------------
\* The loop keeps it.
LEMMA PrototypesGrouped ==
    ASSUME NEW P, NEW a, NEW x, PrototypeNode(x)
    PROVE  x.kind \in Protos /\ Grouped(P, a, x) /\ TreeGrouped(P, <<x>>)
<1>1. x.kind \in Protos
  <2>1. PrototypeNode(x) /\ 0 \in Nat /\ 0 \in Int
    OBVIOUS
  <2> QED
    BY <2>1, Zenon DEF PrototypeNode
<1>2. x.kind \notin Operations /\ x.kind # "unary"
  BY <1>1, FunctionKind, Zenon
<1>3. \A b : Grouped(P, b, x)
  BY <1>2, Trivially
<1>4. PICK s : s = <<x>>
  OBVIOUS
<1>5. Len(s) = 1 /\ s[1] = x
  BY <1>4
<1>6. TreeGrouped(P, s)
  BY <1>3, <1>5 DEF TreeGrouped
<1> QED
  BY <1>1, <1>3, <1>4, <1>6

LEMMA FirstExpression ==
    ASSUME NEW P, P = Precs', NEW f \in FrameType, f.fn \in {"def", "top"}, f.op = 0,
           NEW p, p \in Nat, p # 0, f.at <= p, f.fn = "def" => f.at < p, Expression(<<f>>, p),
           TreeGrouped(P, ast')
    PROVE  GroupInv'
<1>1. PICK s : s = <<f>>
  OBVIOUS
<1>2. s \in Seq(FrameType) /\ s # <<>> /\ s[Len(s)] = f /\ Len(s) = 1 /\ s[1] = f
  BY <1>1
<1>3. f.fn \in Whole /\ f.fn \notin Climbs
  BY DEF Whole, Climbs
<1>4. Nested(P, ast', s, p)
  BY <1>2, <1>3 DEF Nested
<1>5. f.fn # "top" => f.at < p
  OBVIOUS
<1>6. PICK u : u = Append(s, Frame("expr", p))
  OBVIOUS
<1>7. Nested(P, ast', u, p) /\ AtUnary(u, p)
  <2>1. PICK a : a = ast'
    OBVIOUS
  <2>2. p \in Nat /\ p # 0 /\ p <= p /\ f.at <= p
    OBVIOUS
  <2>3. /\ s \in Seq(FrameType) /\ s # <<>> /\ s[Len(s)] \in FrameType /\ s[Len(s)].fn \in Whole
        /\ s[Len(s)].at <= p /\ (s[Len(s)].fn # "top" => s[Len(s)].at < p)
    BY <1>2, <1>3, <1>5
  <2>4. Nested(P, a, s, p)
    BY <1>4, <2>1
  <2>5. Nested(P, a, Append(s, Frame("expr", p)), p) /\ AtUnary(Append(s, Frame("expr", p)), p)
    BY <2>2, <2>3, <2>4, ExpressionNested
  <2> QED
    BY <1>6, <2>1, <2>5
<1>8. pos' = p /\ phase' = "unary" /\ stack' = u
  BY <1>1, <1>6 DEF Expression
<1>9. Turn(P, ast', stack', phase', pos', ret')
  BY <1>7, <1>8 DEF Turn
<1> QED
  BY <1>7, <1>8, <1>9 DEF GroupInv

LEMMA BeginGroups ==
    ASSUME FrontendInv, GroupInv, ReadDefinition \/ ReadExtern \/ ReadExpression
    PROVE  GroupInv'
<1>1. /\ pc = "loop" /\ UNCHANGED <<table, text>> /\ CurTok # "eof"
  BY BeginFacts
<1>2. /\ ParserInv /\ text \in Seq(Token) /\ pos \in Position /\ ast \in Seq(NodeType)
      /\ AstOK(text, ast) /\ stack = <<>>
  BY <1>1, LoopFactsHere, Facts
<1>3. PICK P : P = Precs
  OBVIOUS
<1>4. P = Precs' /\ TreeGrouped(P, ast)
  BY <1>1, <1>3, SamePrecs DEF GroupInv
<1>5. pos \in 1..Len(text) /\ pos + 1 \in Position /\ pos \in Nat /\ pos # 0
  BY <1>1, <1>2, WordHere
<1>6. PICK r : r = Prototype(pos + 1)
  OBVIOUS
<1>7. Steps(pos + 1, r.next) /\ (r.ok => PrototypeNode(r.node))
  BY <1>2, <1>5, <1>6, PrototypeReads DEF Reads
<1>8. r.next \in Nat /\ pos < r.next /\ r.next # 0
  BY <1>2, <1>5, <1>7, Facts DEF Steps, Position
<1>9. ASSUME NEW p, Fail(<<>>, p) PROVE GroupInv'
  BY <1>4, <1>9, NoneWaits DEF Fail, Return
<1>10. CASE ReadDefinition
  <2>1. ParseDefinition
    BY <1>10, Zenon DEF ReadDefinition, Begin
  <2>2. CASE ~r.ok
    BY <1>6, <1>9, <2>1, <2>2 DEF ParseDefinition
  <2>3. CASE r.ok
    <3>1. PICK g, ks : g = Frame("def", pos) /\ ks = <<1>>
      OBVIOUS
    <3>2. PICK f : f = [g EXCEPT !.kids = ks] /\ g = Frame("def", pos) /\ ks = <<1>>
      BY <3>1
    <3>3. ast' = <<r.node>> /\ Expression(<<f>>, r.next)
      BY <1>6, <2>1, <2>3, <3>2 DEF ParseDefinition
    <3>4. g \in FrameType /\ g.fn = "def" /\ g.at = pos /\ g.op = 0
      BY <1>5, <3>1, FrameFields DEF Function
    <3>5. ks \in Seq(Nat)
      BY <3>1, WithinOne
    <3>6. f \in FrameType /\ f.fn = "def" /\ f.at = pos /\ f.op = 0
      BY <3>2, <3>4, <3>5 DEF FrameType
    <3>7. TreeGrouped(P, ast')
      BY <1>7, <2>3, <3>3, PrototypesGrouped
    <3>8. f.at <= r.next /\ f.at < r.next
      BY <1>5, <1>8, <3>6
    <3> QED
      BY <1>4, <1>8, <3>3, <3>6, <3>7, <3>8, FirstExpression
  <2> QED
    BY <2>2, <2>3
<1>11. CASE ReadExtern
  <2>1. ParseExtern
    BY <1>11, Zenon DEF ReadExtern, Begin
  <2>2. CASE ~r.ok
    BY <1>6, <1>9, <2>1, <2>2 DEF ParseExtern
  <2>3. CASE r.ok
    <3>1. PICK z, y : z = r.next - 1 /\ y = [r.node EXCEPT !.to = z]
      OBVIOUS
    <3>2. ast' = Append(ast, y) /\ stack' = <<>> /\ phase' = "return"
      <4>1. Build(<<>>, r.node, r.next)
        BY <1>6, <2>1, <2>3 DEF ParseExtern
      <4> QED
        BY <3>1, <4>1, Zenon DEF Build, Return
    <3>3. PrototypeNode(r.node) /\ z \in Int
      BY <1>7, <1>8, <2>3, <3>1
    <3>4. r.node.kind \in Protos
      BY <3>3, PrototypesGrouped
    <3>5. y \in NodeType /\ y.kind = r.node.kind
      <4>1. r.node \in NodeType
        <5>1. NodeOK(text, ast, r.node, 0)
          <6>1. 0 \in Nat /\ 0 \in Int
            OBVIOUS
          <6> QED
            BY <3>3, <6>1, Zenon DEF PrototypeNode
        <5> QED
          BY <5>1 DEF NodeOK
      <4> QED
        BY <3>1, <3>3, <4>1 DEF NodeType
    <3>6. y.kind \notin Operations /\ y.kind # "unary"
      BY <3>4, <3>5, FunctionKind, Zenon
    <3>7. TreeGrouped(P, ast')
      BY <1>2, <1>4, <3>2, <3>5, <3>6, Trivially, TreeGrows
    <3> QED
      BY <1>4, <3>2, <3>7, NoneWaits
  <2> QED
    BY <2>2, <2>3
<1>12. CASE ReadExpression
  <2>1. ParseTopLevelExpr
    BY <1>12, Zenon DEF ReadExpression, Begin
  <2>2. PICK f : f = Frame("top", pos)
    OBVIOUS
  <2>3. Expression(<<f>>, pos) /\ ast' = ast
    BY <2>1, <2>2 DEF ParseTopLevelExpr
  <2>4. f \in FrameType /\ f.fn = "top" /\ f.at = pos /\ f.op = 0
    BY <1>5, <2>2, FrameFields DEF Function
  <2>5. f.at <= pos
    BY <1>5, <2>4
  <2> QED
    BY <1>4, <1>5, <2>3, <2>4, <2>5, FirstExpression
<1> QED
  BY <1>10, <1>11, <1>12

LEMMA GroupStep == ASSUME FrontendInv, GroupInv, [Next]_vars PROVE GroupInv'
<1>1. ParserInv /\ DriverInv
  BY DEF FrontendInv
<1>2. ASSUME UNCHANGED <<table, text, phase, stack, ast>>, stack = <<>>, phase \in {"idle", "return"}
      PROVE  GroupInv'
  <2>1. TreeGrouped(Precs', ast')
    BY <1>2, SamePrecs DEF GroupInv
  <2> QED
    BY <1>2, <2>1, NoneWaits
<1>3. ASSUME NextConstruct, stack = <<>> PROVE GroupInv'
  <2>1. ast' = <<>> /\ stack' = <<>> /\ phase' = "idle"
    BY <1>3, Zenon DEF NextConstruct
  <2>2. TreeGrouped(Precs', ast')
    BY <2>1 DEF TreeGrouped
  <2> QED
    BY <2>1, <2>2, NoneWaits
<1>4. CASE EndOfInput \/ Semicolon \/ SecondExpression
  <2>1. pc = "loop" /\ UNCHANGED <<table, text, phase, stack, ast>>
    BY <1>4, Zenon DEF EndOfInput, Semicolon, SecondExpression, parserVars
  <2>2. stack = <<>> /\ phase = "idle"
    BY <2>1, LoopFactsHere
  <2> QED
    BY <1>2, <2>1, <2>2
<1>5. CASE ReadDefinition \/ ReadExtern \/ ReadExpression
  BY <1>5, BeginGroups
<1>6. CASE Parse
  BY <1>1, <1>6, ParserStepGroups, Zenon DEF Parse
<1>7. CASE Recover \/ Generate \/ Declare
  <2>1. NextConstruct /\ (pc = "codegen" \/ stack = <<>>)
    BY <1>7, Zenon DEF Recover, Generate, Declare, Parsed
  <2>2. stack = <<>>
    BY <1>1, <2>1 DEF DriverInv
  <2> QED
    BY <1>3, <2>1, <2>2
<1>8. CASE Accept
  <2>1. Parsed /\ UNCHANGED <<table, text, phase, stack, ast>>
    BY <1>8, Zenon DEF Accept, parserVars
  <2> QED
    BY <1>2, <2>1 DEF Parsed
<1>9. CASE PrintTree
  <2>1. pc = "dump" /\ UNCHANGED <<table, text, phase, stack, ast>>
    BY <1>9, Zenon DEF PrintTree, DumpStep, parserVars
  <2>2. stack = <<>> /\ phase = "return"
    BY <1>1, <2>1 DEF DriverInv
  <2> QED
    BY <1>2, <2>1, <2>2
<1>10. CASE UNCHANGED vars
  <2>1. UNCHANGED <<table, text, phase, stack, ast, pos, ret>>
    BY <1>10 DEF vars, parserVars
  <2>2. Precs' = Precs
    BY <2>1, SamePrecs
  <2> QED
    BY <2>1, <2>2 DEF GroupInv
<1> QED
  BY <1>4, <1>5, <1>6, <1>7, <1>8, <1>9, <1>10, Zenon DEF Next, Stopped

\* Every tree that the parser builds, for any tokens and any table of operators, is
\* grouped by precedence and from the left: what an operator has on its right binds
\* tighter than it does, what it has on its left at least as tight, unless parentheses
\* are around it, and the operand of a unary operator is no binary expression.
THEOREM GroupsHolds == Spec => []GroupsByPrecedence
<1>1. Init => GroupInv
  <2> SUFFICES ASSUME Init PROVE GroupInv
    OBVIOUS
  <2>1. ast = <<>> /\ stack = <<>> /\ phase = "idle"
    BY DEF Init, ParserInit
  <2> QED
    BY <2>1 DEF GroupInv, TreeGrouped, Nested, Turn
<1>2. FrontendInv /\ GroupInv /\ [Next]_vars => GroupInv'
  BY GroupStep
<1>3. FrontendInv /\ GroupInv => GroupsByPrecedence
  <2> SUFFICES ASSUME FrontendInv, GroupInv, NEW i \in DOMAIN ast
               PROVE  LET n     == ast[i]
                          right == n.kids[Len(n.kids)]
                      IN  /\ (n.kind = "binary" /\ ast[n.kids[1]].from = n.from =>
                                /\ ast[n.kids[1]].kind \notin {"if", "for", "var"}
                                /\ (IsOperation(ast[n.kids[1]]) => OpOf(ast[n.kids[1]]) >= OpOf(n)))
                          /\ (IsOperation(n) /\ ast[right].from = n.at + 1 /\ IsOperation(ast[right]) =>
                                OpOf(ast[right]) > OpOf(n))
                          /\ (n.kind = "unary" /\ ast[right].from = n.at + 1 => ~IsOperation(ast[right]))
    BY Zenon DEF GroupsByPrecedence
  <2>1. AstOK(text, ast) /\ ast \in Seq(NodeType)
    BY Facts DEF FrontendInv
  <2>2. i \in 1..Len(ast) /\ Len(ast) \in Nat
    BY <2>1
  <2>3. ASSUME NEW j \in 1..Len(ast) PROVE Precs[ast[j].at] = OpOf(ast[j])
    <3>1. ast[j].at \in Position
      BY <2>1 DEF AstOK, NodeOK, Position
    <3> QED
      BY <3>1 DEF Precs, OpOf
  <2>4. PICK n, l, r : n = ast[i] /\ l = n.kids[1] /\ r = n.kids[Len(n.kids)]
    OBVIOUS
  <2>5. ASSUME n.kind \in Operations \cup {"unary"}
        PROVE  l \in 1..Len(ast) /\ r \in 1..Len(ast)
    <3>1. n.kids # <<>> /\ l # 0 /\ r # 0
      BY <2>2, <2>4, <2>5 DEF GroupInv, TreeGrouped, Grouped
    <3>2. NodeOK(text, ast, n, i - 1)
      BY <2>1, <2>2, <2>4 DEF AstOK
    <3>3. n.kids \in Seq(Nat) /\ Within(n.kids, 0..i - 1)
      BY <3>2 DEF NodeOK, NodeType
    <3>4. 1 \in 1..Len(n.kids) /\ Len(n.kids) \in 1..Len(n.kids)
      BY <3>1, <3>3, PopFacts
    <3>5. l \in 0..i - 1 /\ r \in 0..i - 1
      BY <2>4, <3>3, <3>4 DEF Within
    <3> QED
      BY <2>2, <3>1, <3>5
  <2>6. PICK P : P = Precs
    OBVIOUS
  <2>7. Grouped(P, ast, n) /\ P[n.at] = OpOf(n)
    BY <2>2, <2>3, <2>4, <2>6 DEF GroupInv, TreeGrouped
  <2>8. ASSUME n.kind \in Operations \cup {"unary"}
        PROVE  P[ast[l].at] = OpOf(ast[l]) /\ P[ast[r].at] = OpOf(ast[r])
    BY <2>3, <2>5, <2>6, <2>8
  <2>9. \A x : IsOperation(x) <=> x.kind \in Operations
    BY DEF IsOperation, Operations
  <2>10. "binary" \in Operations
    BY DEF Operations
  <2>11. /\ (n.kind = "binary" /\ ast[l].from = n.from =>
                /\ ast[l].kind \notin Greedy
                /\ (ast[l].kind \in Operations => OpOf(ast[l]) >= OpOf(n)))
    BY <2>4, <2>7, <2>8, <2>10 DEF Grouped
  <2>12. (n.kind \in Operations /\ ast[r].from = n.at + 1 /\ ast[r].kind \in Operations =>
                OpOf(ast[r]) > OpOf(n))
    BY <2>4, <2>7, <2>8 DEF Grouped
  <2>13. (n.kind = "unary" /\ ast[r].from = n.at + 1 => ast[r].kind \notin Operations)
    BY <2>4, <2>7, <2>8 DEF Grouped
  <2> QED
    BY <2>4, <2>9, <2>11, <2>12, <2>13, Zenon DEF Greedy
<1> QED
  BY FrontendShapeHolds, <1>1, <1>2, <1>3, PTL DEF Spec

-----------------------------------------------------------------------------
\* The function at the bottom of the stack is there until the construct ends, and so is
\* the first node.
Over(s, x) == \E S : s \in Seq(S) /\ s # <<>> /\ s[1] = x

LEMMA OverIs ==
    ASSUME NEW s, NEW x, Over(s, x)
    PROVE  s # <<>> /\ s[1] = x
BY DEF Over

LEMMA OverMore ==
    ASSUME NEW s, NEW x, Over(s, x), NEW y, NEW z
    PROVE  Over(Append(s, y), x) /\ Over(s \o << y, z >>, x)
<1>1. PICK S : s \in Seq(S) /\ s # <<>> /\ s[1] = x
  BY DEF Over
<1>2. PICK T : T = S \cup {y, z}
  OBVIOUS
<1>3. s \in Seq(T) /\ y \in T /\ z \in T /\ Len(s) \in Nat \ {0}
  <2>1. Len(s) \in Nat \ {0} /\ S \subseteq T
    BY <1>1, <1>2, EmptySeq, LenProperties
  <2>2. \A i \in 1..Len(s) : s[i] \in T
    BY <1>1, <2>1, ElementOfSeq
  <2> QED
    BY <1>1, <1>2, <2>1, <2>2
<1>4. PICK u : u = Append(s, y)
  OBVIOUS
<1>5. u \in Seq(T) /\ u # <<>> /\ u[1] = x
  BY <1>1, <1>3, <1>4, PushFacts
<1>6. PICK w : w = << y, z >>
  OBVIOUS
<1>7. w \in Seq(T)
  BY <1>3, <1>6
<1>8. PICK c : c = s \o w
  OBVIOUS
<1>9. c \in Seq(T) /\ Len(c) = Len(s) + Len(w) /\ c[1] = s[1] /\ Len(w) \in Nat
  BY <1>3, <1>7, <1>8, ConcatProperties, LenProperties
<1>10. c # <<>>
  BY <1>3, <1>9
<1> QED
  BY <1>1, <1>4, <1>5, <1>6, <1>8, <1>9, <1>10, Zenon DEF Over

\* What a step makes of a sequence that it may only add to.
Onto(t, s) == t = s \/ (\E x : t = Append(s, x)) \/ (\E x, y : t = s \o << x, y >>)
GoesOver == \/ Onto(stack', Rest) \/ Onto(stack', stack)
            \/ \E x : Onto(stack', Append(Rest, x)) \/ Onto(stack', Append(stack, x))
AstGoesOver == Onto(ast', ast)

LEMMA OntoKeeps ==
    ASSUME NEW s, NEW t, NEW x, Over(s, x), Onto(t, s)
    PROVE  Over(t, x)
BY OverMore, Zenon DEF Onto

LEMMA PiecesGoOver ==
    /\ \A s, n : Return(s, n) => Onto(stack', s)
    /\ \A s, p : Fail(s, p) => Onto(stack', s) /\ AstGoesOver
    /\ \A s, x, p : Build(s, x, p) => Onto(stack', s) /\ AstGoesOver
    /\ \A s, p : Expression(s, p) => Onto(stack', s)
    /\ \A f, p : Wait(f, p) => GoesOver /\ AstGoesOver
    /\ \A s, w : Expects(s, w) => (Onto(stack', s) \/ Onto(stack', Rest)) /\ AstGoesOver
    /\ \A x : Merged(x) => GoesOver /\ AstGoesOver
    /\ \A f, p : VarList(f, p) => GoesOver /\ AstGoesOver
<1>1. \A s, n : Return(s, n) => Onto(stack', s)
  BY Zenon DEF Return, Onto
<1>2. \A s, p : Fail(s, p) => Onto(stack', s) /\ AstGoesOver
  BY <1>1, Zenon DEF Fail, Onto, AstGoesOver
<1>3. \A s, x, p : Build(s, x, p) => Onto(stack', s) /\ AstGoesOver
  BY <1>1, Zenon DEF Build, Onto, AstGoesOver
<1>4. \A s, p : Expression(s, p) => Onto(stack', s)
  BY Zenon DEF Expression, Onto
<1>5. \A f, p : Wait(f, p) => GoesOver /\ AstGoesOver
  BY <1>4, Zenon DEF Wait, Onto, AstGoesOver, GoesOver
<1>6. \A s, w : Expects(s, w) => (Onto(stack', s) \/ Onto(stack', Rest)) /\ AstGoesOver
  BY <1>2, <1>4, Zenon DEF Expects, Onto, AstGoesOver
<1>7. \A x : Merged(x) => GoesOver /\ AstGoesOver
  BY Zenon DEF Merged, Onto, AstGoesOver, GoesOver
<1>8. \A f, p : VarList(f, p) => GoesOver /\ AstGoesOver
  BY <1>2, <1>4, Zenon DEF VarList, Onto, AstGoesOver, GoesOver
<1> QED
  BY <1>1, <1>2, <1>3, <1>4, <1>5, <1>6, <1>7, <1>8, Zenon

LEMMA StepGoesOver ==
    ASSUME ParseStep
    PROVE  GoesOver /\ (AstGoesOver \/ TopLevel)
<1>1. CASE ParseNumber \/ ParseIdentifier \/ ParseParen \/ ParseIf \/ ParseFor \/ ParseNothing
  BY <1>1, PiecesGoOver, Zenon DEF ParseNumber, ParseIdentifier, ParseParen, ParseIf, ParseFor, ParseNothing,
                                   GoesOver
<1>2. CASE CallArgument \/ CloseParen
  <2>1. Onto(ast', ast) <=> AstGoesOver
    BY DEF AstGoesOver
  <2> QED
    BY <1>2, <2>1, PiecesGoOver, Zenon DEF CallArgument, CloseParen, GoesOver, Onto
<1>3. CASE IfPart \/ ForPart
  BY <1>3, PiecesGoOver, Zenon DEF IfPart, ForPart, GoesOver
<1>4. CASE ParseVar \/ VarInit \/ VarBody
  BY <1>4, PiecesGoOver, Zenon DEF ParseVar, VarInit, VarBody, GoesOver, AstGoesOver, Onto
<1>5. CASE VarName
  <2>1. PICK x : x = [Top EXCEPT !.names = Append(@, pos)]
    OBVIOUS
  <2>2. PICK y : y = [x EXCEPT !.kids = Append(@, 0)]
    OBVIOUS
  <2>3. \/ Fail(Rest, pos)
        \/ Expression(Append(Rest, x), pos + 2) /\ UNCHANGED ast
        \/ VarList(y, pos + 1)
    BY <1>5, <2>1, <2>2, Zenon DEF VarName
  <2>4. AstGoesOver
    BY <2>3, PiecesGoOver, Zenon DEF AstGoesOver, Onto
  <2> QED
    BY <2>3, <2>4, PiecesGoOver, Zenon DEF GoesOver
<1>6. CASE ParseUnary \/ UnaryDone
  BY <1>6, PiecesGoOver, Zenon DEF ParseUnary, UnaryDone, GoesOver, AstGoesOver, Onto
<1>7. CASE UnaryParsed \/ NoOperator \/ TakeOperator \/ PartFails
  BY <1>7, PiecesGoOver, Zenon DEF UnaryParsed, NoOperator, TakeOperator, PartFails, GoesOver, AstGoesOver, Onto
<1>8. CASE BindsRight
  BY <1>8, Zenon DEF BindsRight, GoesOver, AstGoesOver, Onto
<1>9. CASE Merge
  BY <1>9, PiecesGoOver, Zenon DEF Merge, GoesOver
<1>10. CASE Definition
  BY <1>10, PiecesGoOver, Zenon DEF Definition, GoesOver
<1>11. CASE TopLevel
  BY <1>11, PiecesGoOver, Zenon DEF TopLevel, GoesOver
<1> QED
  BY <1>1, <1>2, <1>3, <1>4, <1>5, <1>6, <1>7, <1>8, <1>9, <1>10, <1>11, Zenon DEF ParseStep

\* The last function of a construct that waits, and none at all, only ends it.
LEMMA OutermostReturns ==
    ASSUME ParserInv, GroupInv, ParseStep, phase # "idle",
           stack = <<>> \/ Top.fn \in {"def", "top"}
    PROVE  stack # <<>> /\ phase = "return" /\ (PartFails \/ (ret # 0 /\ (Definition \/ TopLevel)))
<1>1. phase # "unary" /\ phase # "binop" /\ phase # "name" /\ phase = "return"
  <2>1. phase # "unary"
    BY DEF GroupInv, Turn, AtUnary, Wants, Top
  <2>2. phase # "binop" /\ phase # "name"
    BY DEF ParserInv, WorkOK, Top
  <2> QED
    BY <2>1, <2>2 DEF ParserInv
<1>2. \A f : Got(f) => f \in {"def", "top"} /\ stack # <<>> /\ ret # 0
  BY Zenon DEF Got
<1>3. \A w \in {"paren", "call", "if", "for", "var", "varbody", "unary", "expr", "operand", "merge"} :
        w # "def" /\ w # "top"
  OBVIOUS
<1>4. \A w \in {"paren", "call", "if", "for", "var", "varbody", "unary", "expr", "operand", "merge"} : ~Got(w)
  BY <1>2, <1>3, Zenon
<1>5. ~ (CallArgument \/ CloseParen \/ IfPart \/ ForPart \/ VarInit \/ VarBody \/ UnaryDone)
  BY <1>4, Zenon DEF CallArgument, CloseParen, IfPart, ForPart, VarInit, VarBody, UnaryDone
<1>6. ~ (UnaryParsed \/ BindsRight \/ Merge)
  BY <1>4, Zenon DEF UnaryParsed, BindsRight, Merge
<1>7. ~ (VarName \/ NoOperator \/ TakeOperator)
  BY <1>1, Zenon DEF VarName, NoOperator, TakeOperator
<1>8. ~ (ParseNumber \/ ParseIdentifier \/ ParseParen \/ ParseIf \/ ParseFor \/ ParseVar \/ ParseUnary \/ ParseNothing)
  BY <1>1, Zenon DEF ParseNumber, ParseIdentifier, ParseParen, ParseIf, ParseFor, ParseVar, ParseUnary,
                     ParseNothing, At
<1>9. Definition \/ TopLevel \/ PartFails
  BY <1>5, <1>6, <1>7, <1>8, Zenon DEF ParseStep
<1>10. Definition \/ TopLevel => stack # <<>> /\ ret # 0
  BY <1>2, Zenon DEF Definition, TopLevel
<1>11. PartFails => stack # <<>>
  BY DEF PartFails
<1> QED
  BY <1>1, <1>9, <1>10, <1>11

-----------------------------------------------------------------------------
\* What the first node of a definition says of its operator: what the text does.
HeadIs(x, p) ==
    /\ x.kind = "binaryproto" <=> Tok(p) = "binary"
    /\ x.kind = "binaryproto" => x.at = p /\ x.prec = AskedFor(p - 1)

\* The tree of a construct that begins at p.
RootOf(a, r, p) ==
    LET x == a[a[r].kids[1]]
    IN  \/ Tok(p) = "def" /\ a[r].kind = "function" /\ HeadIs(x, p + 1)
        \/ Tok(p) \notin {"def", "extern"} /\ a[r].kind = "function" /\ x.kind = "anonproto"
        \/ Tok(p) = "extern" /\ a[r].kind # "function"

\* What is at the bottom of the stack while it is parsed.
Opening(a, f, p) == \/ f.fn = "def" /\ Tok(p) = "def" /\ \E h : Over(a, h) /\ HeadIs(h, p + 1)
                    \/ f.fn = "top" /\ Tok(p) \notin {"def", "extern"}
Under(a, s, p) == \E f : Over(s, f) /\ Opening(a, f, p)
Rooting(a, s, r, p) == Under(a, s, p) \/ (s = <<>> /\ (r = 0 \/ RootOf(a, r, p)))

Rooted ==
    /\ pc = "parse" => Rooting(ast, stack, ret, start)
    /\ pc \in {"dump", "codegen"} => RootOf(ast, ret, start)

LEMMA ParametersHead ==
    ASSUME NEW k, NEW at, NEW prec, NEW open, NEW r, r = Parameters(k, at, prec, open), r.ok
    PROVE  r.node.kind = k /\ r.node.at = at /\ r.node.prec = prec
<1>1. PICK e, ns : e = NamesEnd(open) /\ ns = [i \in 1..e - open - 1 |-> open + i]
  OBVIOUS
<1>2. \A q : ~Stops(q).ok
  BY DEF Stops
<1>3. r = [ok |-> TRUE, next |-> e + 1,
           node |-> [Node(k, at, at, ns, <<>>) EXCEPT !.prec = prec, !.to = e]]
  BY <1>1, <1>2, Zenon DEF Parameters
<1>4. PICK n, x : n = Node(k, at, at, ns, <<>>) /\ x = [n EXCEPT !.prec = prec, !.to = e]
  OBVIOUS
<1>5. x.kind = k /\ x.at = at /\ x.prec = prec
  BY <1>4 DEF Node
<1>6. r = [ok |-> TRUE, next |-> e + 1, node |-> x]
  BY <1>3, <1>4, Zenon
<1>7. r.node = x
  BY <1>6
<1> QED
  BY <1>5, <1>7

LEMMA PrototypeHead ==
    ASSUME NEW p \in Nat, NEW r, r = Prototype(p), r.ok
    PROVE  HeadIs(r.node, p)
<1>1. \A q : ~Stops(q).ok
  BY DEF Stops
<1>2. "unary" \notin Ident /\ "binary" \notin Ident /\ "unary" # "binary"
  <2>1. "unary" \in Keyword /\ "binary" \in Keyword
    BY DEF Keyword
  <2> QED
    BY <2>1, TokenAssumption, Zenon
<1>3. CASE Tok(p) \in Ident
  <2>1. r = Parameters("proto", p, DefaultPrecedence, p + 1)
    BY <1>2, <1>3, Zenon DEF Prototype
  <2>2. PICK k : k = "proto"
    OBVIOUS
  <2>3. r.node.kind = k
    BY <2>1, <2>2, ParametersHead
  <2> QED
    BY <1>2, <1>3, <2>2, <2>3 DEF HeadIs
<1>4. CASE Tok(p) = "unary"
  <2>1. r = Parameters("unaryproto", p, DefaultPrecedence, p + 2)
    BY <1>1, <1>2, <1>4 DEF Prototype
  <2>2. PICK k : k = "unaryproto"
    OBVIOUS
  <2>3. r.node.kind = k
    BY <2>1, <2>2, ParametersHead
  <2> QED
    BY <1>4, <2>2, <2>3 DEF HeadIs
<1>5. CASE Tok(p) = "binary"
  <2>1. PICK k, c : k = "binaryproto" /\ c = IF Tok(p + 2) \in Number THEN Truncated(Tok(p + 2)) ELSE DefaultPrecedence
    OBVIOUS
  <2>2. r = Parameters(k, p, c, p + 2) \/ r = Parameters(k, p, c, p + 3)
    BY <1>1, <1>2, <1>5, <2>1 DEF Prototype
  <2>3. r.node.kind = k /\ r.node.at = p /\ r.node.prec = c
    BY <2>2, ParametersHead
  <2>4. (p - 1) + 3 = p + 2
    OBVIOUS
  <2>5. c = AskedFor(p - 1)
    BY <2>1, <2>4 DEF AskedFor, Truncated, DefaultPrecedence
  <2> QED
    BY <1>5, <2>1, <2>3, <2>5 DEF HeadIs
<1>6. CASE Tok(p) \notin Ident /\ Tok(p) # "unary" /\ Tok(p) # "binary"
  BY <1>1, <1>6 DEF Prototype
<1> QED
  BY <1>3, <1>4, <1>5, <1>6

LEMMA OverOne == \A x, y : Over(<< x >>, x) /\ Over(Append(<< x >>, y), x)
<1>1. ASSUME NEW x PROVE Over(<< x >>, x)
  <2>1. PICK s : s = << x >>
    OBVIOUS
  <2>2. s \in Seq({x}) /\ s # <<>> /\ s[1] = x
    BY <2>1
  <2>3. Over(s, x)
    BY <2>2 DEF Over
  <2> QED
    BY <2>1, <2>3
<1>2. ASSUME NEW x, NEW y PROVE Over(Append(<< x >>, y), x)
  <2>1. PICK s : s = << x >>
    OBVIOUS
  <2>2. Over(s, x)
    BY <1>1, <2>1
  <2>3. Over(Append(s, y), x)
    BY <2>2, OverMore
  <2> QED
    BY <2>1, <2>3
<1> QED
  BY <1>1, <1>2

LEMMA TreeGoesOver ==
    ASSUME ParserInv, ParseStep, NEW h, Over(ast, h)
    PROVE  Over(ast', h)
<1>1. CASE AstGoesOver
  BY <1>1, OntoKeeps DEF AstGoesOver
<1>2. CASE TopLevel
  <2>1. \E x, y : ast' = ast \o << x, y >>
    BY <1>2, Zenon DEF TopLevel
  <2> QED
    BY <2>1, OverMore, Zenon
<1> QED
  BY <1>1, <1>2, StepGoesOver

LEMMA StackGoesOver ==
    ASSUME ParserInv, ParseStep, Rest # <<>>, stack # <<>>, NEW f, Over(stack, f)
    PROVE  Over(stack', f)
<1>1. StackOK(text, ast, stack)
  BY Facts
<1>2. /\ StackOK(text, ast, Rest) /\ Len(Rest) = Len(stack) - 1 /\ Len(stack) \in Nat \ {0}
      /\ \A i \in 1..Len(Rest) : Rest[i] = stack[i]
  BY <1>1, SplitStack
<1>3. PICK s : s = Rest
  OBVIOUS
<1>4. s \in Seq(FrameType) /\ s # <<>>
  BY <1>2, <1>3 DEF StackOK
<1>5. 1 \in 1..Len(s)
  BY <1>4, EmptySeq, LenProperties
<1>6. s[1] = f
  BY <1>2, <1>3, <1>5, OverIs
<1>7. Over(Rest, f)
  BY <1>3, <1>4, <1>6 DEF Over
<1>8. \A x : Over(Append(Rest, x), f) /\ Over(Append(stack, x), f)
  BY <1>7, OverMore
<1> QED
  BY <1>7, <1>8, StepGoesOver, OntoKeeps, Zenon DEF GoesOver

LEMMA DefinitionRoot ==
    ASSUME ParserInv, Definition, NEW p, Tok(p) = "def", NEW h, Over(ast, h), HeadIs(h, p + 1)
    PROVE  RootOf(ast', ret', p)
<1>1. Got("def") /\ stack # <<>> /\ Top.fn = "def" /\ StackOK(text, ast, stack) /\ ast \in Seq(NodeType)
  BY Facts DEF Definition, Got
<1>2. FrameOK(text, ast, Top) /\ Top \in FrameType
  BY <1>1, SplitStack
<1>3. PICK ks : ks = WithKid.kids
  OBVIOUS
<1>4. ks[1] = 1
  <2>1. PICK l : l = Top.kids
    OBVIOUS
  <2>2. l \in Seq(Nat) /\ Len(l) = 1 /\ l[1] = 1
    BY <1>1, <1>2, <2>1 DEF FrameOK, FrameType
  <2>3. ks = Append(l, ret)
    BY <1>2, <1>3, <2>1 DEF WithKid, FrameType
  <2>4. ret \in Nat
    BY Facts
  <2> QED
    BY <2>2, <2>3, <2>4
<1>5. PICK t, e, z, y : t = Top.at /\ e = <<>> /\ z = pos - 1 /\ y = [Node("function", t, t, e, ks) EXCEPT !.to = z]
  OBVIOUS
<1>6. y.kind = "function" /\ y.kids = ks
  BY <1>5 DEF Node
<1>7. ast' = Append(ast, y) /\ ret' = Len(ast) + 1
  BY <1>3, <1>5, Zenon DEF Definition, Build, Return
<1>8. ast'[ret'] = y
  <2>1. PICK S : S = NodeType \cup {y}
    OBVIOUS
  <2>2. ast \in Seq(S) /\ y \in S
    <3>1. \A i \in 1..Len(ast) : ast[i] \in NodeType
      BY <1>1, ElementOfSeq
    <3> QED
      BY <1>1, <2>1, <3>1
  <2> QED
    BY <1>7, <2>2, PushFacts
<1>9. Over(ast', h)
  BY <1>7, OverMore
<1>10. ast'[1] = h
  BY <1>9, OverIs
<1>11. ast'[ret'].kind = "function" /\ ast'[ast'[ret'].kids[1]] = h
  BY <1>4, <1>6, <1>8, <1>10
<1> QED
  BY <1>11, Zenon DEF RootOf

LEMMA ExpressionRoot ==
    ASSUME ParserInv, TopLevel, NEW p, Tok(p) \notin {"def", "extern"}
    PROVE  RootOf(ast', ret', p)
<1>1. Len(ast) \in Nat /\ ast \in Seq(NodeType)
  BY Facts
<1>2. PICK n, u, w : /\ n = Len(ast)
                     /\ u = [Node("anonproto", Top.at, Top.at, <<>>, <<>>) EXCEPT !.to = Top.at - 1]
                     /\ w = [Node("function", Top.at, Top.at, <<>>, << n + 1, ret >>) EXCEPT !.to = pos - 1]
  OBVIOUS
<1>3. ast' = ast \o << u, w >> /\ ret' = n + 2
  BY <1>2, Zenon DEF TopLevel, Return
<1>4. u.kind = "anonproto" /\ w.kind = "function" /\ w.kids[1] = n + 1
  BY <1>2 DEF Node
<1>5. ast'[n + 1] = u /\ ast'[n + 2] = w
  <2>1. PICK S : S = NodeType \cup {u, w}
    OBVIOUS
  <2>2. ast \in Seq(S) /\ u \in S /\ w \in S
    <3>1. \A i \in 1..Len(ast) : ast[i] \in NodeType
      BY <1>1, ElementOfSeq
    <3> QED
      BY <1>1, <2>1, <3>1
  <2>3. PICK a : a = Append(ast, u)
    OBVIOUS
  <2>4. a \in Seq(S) /\ Len(a) = n + 1 /\ a[n + 1] = u
    BY <1>2, <2>2, <2>3, PushFacts
  <2>5. Append(a, w)[n + 1] = u /\ Append(a, w)[n + 2] = w
    BY <1>1, <1>2, <2>2, <2>4, PushFacts
  <2>6. ast' = Append(a, w)
    BY <1>3, <2>2, <2>3
  <2> QED
    BY <1>2, <2>5, <2>6
<1> QED
  BY <1>3, <1>4, <1>5 DEF RootOf

LEMMA RootingStep ==
    ASSUME ParserInv, GroupInv, ParseStep, phase # "idle", NEW p, Rooting(ast, stack, ret, p)
    PROVE  Rooting(ast', stack', ret', p)
<1>1. stack # <<>>
  BY OutermostReturns
<1>2. PICK f : Over(stack, f) /\ Opening(ast, f, p)
  BY <1>1 DEF Rooting, Under
<1>3. CASE Rest # <<>>
  <2>1. Over(stack', f)
    BY <1>1, <1>2, <1>3, StackGoesOver
  <2>2. Opening(ast', f, p)
    BY <1>2, TreeGoesOver, Zenon DEF Opening
  <2> QED
    BY <2>1, <2>2, Zenon DEF Rooting, Under
<1>4. CASE Rest = <<>>
  <2>1. Len(stack) = 1
    <3>1. StackOK(text, ast, stack)
      BY Facts
    <3>2. Len(Rest) = Len(stack) - 1 /\ Len(stack) \in Nat
      BY <1>1, <3>1, SplitStack
    <3> QED
      BY <1>4, <3>2
  <2>2. Top = f
    BY <1>2, <2>1, OverIs DEF Top
  <2>3. Top.fn \in {"def", "top"}
    BY <1>2, <2>2 DEF Opening
  <2>4. CASE PartFails
    BY <1>4, <2>4, Zenon DEF PartFails, Return, Rooting
  <2>5. CASE Definition
    <3>1. Top.fn = "def" /\ stack' = <<>>
      BY <1>4, <2>5, Zenon DEF Definition, Got, Build, Return
    <3>2. PICK h : Over(ast, h) /\ HeadIs(h, p + 1) /\ Tok(p) = "def"
      BY <1>2, <2>2, <3>1 DEF Opening
    <3> QED
      BY <2>5, <3>1, <3>2, DefinitionRoot DEF Rooting
  <2>6. CASE TopLevel
    <3>1. Top.fn = "top" /\ stack' = <<>>
      BY <1>4, <2>6, Zenon DEF TopLevel, Got, Return
    <3>2. Tok(p) \notin {"def", "extern"}
      BY <1>2, <2>2, <3>1 DEF Opening
    <3> QED
      BY <2>6, <3>1, <3>2, ExpressionRoot DEF Rooting
  <2> QED
    BY <2>3, <2>4, <2>5, <2>6, OutermostReturns
<1> QED
  BY <1>3, <1>4

-----------------------------------------------------------------------------
\* A construct begins with it.
LEMMA BeginRooted ==
    ASSUME FrontendInv, ReadDefinition \/ ReadExtern \/ ReadExpression
    PROVE  Rooting(ast', stack', ret', pos)
<1>1. pos \in Nat /\ pc = "loop" /\ Len(ast) \in Nat /\ ast \in Seq(NodeType)
  BY BeginFacts, Facts DEF FrontendInv
<1>2. PICK r : r = Prototype(pos + 1)
  OBVIOUS
<1>3. CASE ReadDefinition
  <2>1. ParseDefinition /\ Tok(pos) = "def"
    BY <1>3, Zenon DEF ReadDefinition, Begin, CurTok
  <2>2. CASE ~r.ok
    <3>1. stack' = <<>> /\ ret' = 0
      BY <1>2, <2>1, <2>2 DEF ParseDefinition, Fail, Return
    <3> QED
      BY <3>1 DEF Rooting
  <2>3. CASE r.ok
    <3>1. PICK f, g, x : f = [Frame("def", pos) EXCEPT !.kids = << 1 >>] /\ g = Frame("expr", r.next) /\ x = r.node
      OBVIOUS
    <3>2. ast' = << x >> /\ stack' = Append(<< f >>, g)
      BY <1>2, <2>1, <2>3, <3>1 DEF ParseDefinition, Expression
    <3>3. Over(ast', x) /\ Over(stack', f)
      BY <3>2, OverOne
    <3>4. f.fn = "def"
      BY <3>1 DEF Frame
    <3>5. HeadIs(x, pos + 1)
      BY <1>1, <1>2, <2>3, <3>1, PrototypeHead
    <3> QED
      BY <2>1, <3>3, <3>4, <3>5, Zenon DEF Rooting, Under, Opening
  <2> QED
    BY <2>2, <2>3
<1>4. CASE ReadExtern
  <2>1. ParseExtern /\ Tok(pos) = "extern"
    BY <1>4, Zenon DEF ReadExtern, Begin, CurTok
  <2>2. CASE ~r.ok
    <3>1. stack' = <<>> /\ ret' = 0
      BY <1>2, <2>1, <2>2 DEF ParseExtern, Fail, Return
    <3> QED
      BY <3>1 DEF Rooting
  <2>3. CASE r.ok
    <3>1. PICK x, y, z : x = r.node /\ z = r.next - 1 /\ y = [x EXCEPT !.to = z]
      OBVIOUS
    <3>2. ast' = Append(ast, y) /\ stack' = <<>> /\ ret' = Len(ast) + 1
      BY <1>2, <2>1, <2>3, <3>1 DEF ParseExtern, Build, Return
    <3>3. y \in NodeType /\ y.kind \in Protos
      <4>1. pos + 1 \in Position /\ text \in Seq(Token)
        <5>1. CurTok # "eof"
          BY <1>4, BeginFacts
        <5> QED
          BY <1>1, <5>1, LoopFactsHere, WordHere
      <4>2. PrototypeNode(x) /\ r.next \in Position
        BY <1>2, <2>3, <3>1, <4>1, PrototypeReads DEF Reads, Steps
      <4>3. z \in Int
        BY <3>1, <4>2 DEF Position
      <4>4. NodeOK(text, ast, y, 0) /\ x.kind \in Protos /\ NodeOK(text, ast, x, 0)
        BY <3>1, <4>2, <4>3 DEF PrototypeNode
      <4>5. x \in NodeType /\ y \in NodeType
        BY <4>4 DEF NodeOK
      <4>6. y.kind = x.kind
        BY <3>1, <4>5 DEF NodeType
      <4> QED
        BY <4>4, <4>5, <4>6
    <3>4. ast'[ret'] = y
      BY <1>1, <3>2, <3>3, PushFacts
    <3>5. y.kind # "function"
      BY <3>3 DEF Protos
    <3> QED
      BY <2>1, <3>2, <3>4, <3>5, Zenon DEF Rooting, RootOf
  <2> QED
    BY <2>2, <2>3
<1>5. CASE ReadExpression
  <2>1. ParseTopLevelExpr /\ Tok(pos) \notin {"def", "extern"}
    BY <1>5, Zenon DEF ReadExpression, Begin, CurTok, StartsExpression
  <2>2. PICK f, g : f = Frame("top", pos) /\ g = Frame("expr", pos)
    OBVIOUS
  <2>3. stack' = Append(<< f >>, g)
    BY <2>1, <2>2 DEF ParseTopLevelExpr, Expression
  <2>4. Over(stack', f)
    BY <2>3, OverOne
  <2>5. f.fn = "top"
    BY <2>2 DEF Frame
  <2> QED
    BY <2>1, <2>4, <2>5, Zenon DEF Rooting, Under, Opening
<1> QED
  BY <1>3, <1>4, <1>5

LEMMA RootedNext ==
    ASSUME text' = text, pc' = "parse" => Rooting(ast', stack', ret', start'),
           pc' \in {"dump", "codegen"} => RootOf(ast', ret', start')
    PROVE  Rooted'
<1>1. RootOf(ast, ret, start)' <=> RootOf(ast', ret', start')
  BY DEF RootOf, HeadIs, AskedFor, Tok
<1>2. Under(ast, stack, start)' <=> Under(ast', stack', start')
  BY DEF Under, Opening, HeadIs, AskedFor, Tok
<1>3. Rooting(ast, stack, ret, start)' <=> Rooting(ast', stack', ret', start')
  BY <1>1, <1>2, Zenon DEF Rooting
<1> QED
  BY <1>1, <1>3, Zenon DEF Rooted

LEMMA RootedStep ==
    ASSUME FrontendInv, GroupInv, Rooted, [Next]_vars
    PROVE  Rooted'
<1>1. ParserInv /\ DriverInv
  BY DEF FrontendInv
<1>2. CASE EndOfInput \/ Semicolon \/ SecondExpression \/ Recover \/ Generate \/ Declare
  <2>1. pc' \in {"loop", "end"}
    <3>1. pc' = "loop" \/ pc' = "end"
      BY <1>2, Zenon DEF EndOfInput, Semicolon, SecondExpression, Recover, Generate, Declare, NextConstruct
    <3> QED
      BY <3>1
  <2> QED
    BY <2>1 DEF Rooted
<1>3. CASE ReadDefinition \/ ReadExtern \/ ReadExpression
  <2>1. text' = text /\ pc' = "parse" /\ start' = pos
    BY <1>3, BeginFacts
  <2>2. Rooting(ast', stack', ret', start')
    BY <1>3, <2>1, BeginRooted
  <2> QED
    BY <2>1, <2>2, RootedNext
<1>4. CASE Parse
  <2>1. ParseStep /\ pc = "parse" /\ pc' = pc /\ start' = start /\ text' = text
    BY <1>4, Zenon DEF Parse, ParseStep, driverVars
  <2>2. phase # "idle" /\ Rooting(ast, stack, ret, start)
    BY <1>1, <2>1 DEF DriverInv, Rooted
  <2>3. Rooting(ast', stack', ret', start')
    <3>1. PICK p : p = start
      OBVIOUS
    <3> QED
      BY <1>1, <2>1, <2>2, <3>1, RootingStep
  <2> QED
    BY <2>1, <2>3, RootedNext
<1>5. CASE Accept
  <2>1. /\ pc = "parse" /\ stack = <<>> /\ ret # 0 /\ pc' # "parse"
        /\ UNCHANGED << text, ast, ret, start >>
    BY <1>5, Zenon DEF Accept, Parsed, parserVars
  <2>2. RootOf(ast, ret, start)
    BY <2>1, OverIs DEF Rooted, Rooting, Under
  <2> QED
    BY <2>1, <2>2, RootedNext
<1>6. CASE PrintTree
  <2>1. pc = "dump" /\ pc' # "parse" /\ UNCHANGED << text, ast, ret, start >>
    BY <1>6, Zenon DEF PrintTree, DumpStep, parserVars, driverVars
  <2>2. RootOf(ast, ret, start)
    BY <2>1 DEF Rooted
  <2> QED
    BY <2>1, <2>2, RootedNext
<1>7. CASE UNCHANGED vars
  <2>1. UNCHANGED << text, ast, ret, start, stack, pc >>
    BY <1>7 DEF vars, parserVars, driverVars
  <2> QED
    BY <2>1, RootedNext DEF Rooted
<1> QED
  BY <1>2, <1>3, <1>4, <1>5, <1>6, <1>7, Zenon DEF Next, Stopped

-----------------------------------------------------------------------------
\* Constructs are read one behind the other.
Reached == IF pc \in {"loop", "end"} THEN pos ELSE start
Ordered ==
    /\ \A d \in Completed : d < Reached
    /\ pc \in {"dump", "codegen"} => start < pos
    /\ defined \subseteq Completed

LEMMA OrderedSame ==
    ASSUME Ordered, Completed' = Completed, defined' = defined, Reached <= Reached',
           Reached \in Nat, Reached' \in Nat, Completed \subseteq Nat,
           pc' \in {"dump", "codegen"} => start' < pos'
    PROVE  Ordered'
BY DEF Ordered

LEMMA Numbers ==
    ASSUME FrontendInv
    PROVE  /\ pos \in Nat /\ start \in Nat /\ parsed \subseteq Nat /\ Completed \subseteq Nat
           /\ Reached \in Nat /\ defined \subseteq Nat
<1>1. pos \in Nat /\ Len(text) \in Nat
  BY Facts DEF FrontendInv
<1>2. start \in 0..Len(text) /\ parsed \subseteq Position /\ defined \subseteq Position
  BY DEF FrontendInv, DriverInv
<1>3. Position \subseteq Nat
  BY <1>1 DEF Position
<1> QED
  BY <1>1, <1>2, <1>3 DEF Completed, Reached

LEMMA OrderedStep ==
    ASSUME FrontendInv, Advanced, Ordered, [Next]_vars
    PROVE  Ordered'
<1>1. FrontendInv' /\ ParserInv /\ DriverInv /\ text \in Seq(Token) /\ pos \in Position
  BY FrontendStep DEF FrontendInv, ParserInv
<1>2. /\ pos \in Nat /\ start \in Nat /\ parsed \subseteq Nat /\ Completed \subseteq Nat /\ Reached \in Nat
      /\ pos' \in Nat /\ start' \in Nat /\ Reached' \in Nat
  <2>1. FrontendInv'
    BY <1>1
  <2>2. pos' \in Nat /\ start' \in Nat
    <3>1. pos' \in 1..Len(text') + 1 /\ start' \in 0..Len(text')
      BY <2>1 DEF FrontendInv, ParserInv, DriverInv, Position
    <3> QED
      BY <3>1
  <2>3. Reached' \in Nat
    BY <2>2 DEF Reached
  <2> QED
    BY <2>2, <2>3, Numbers
<1>3. CASE EndOfInput \/ SecondExpression
  <2>1. pc = "loop" /\ pc' = "end" /\ UNCHANGED << pos, start, parsed, defined >>
    BY <1>3, Zenon DEF EndOfInput, SecondExpression, parserVars, historyVars
  <2>2. Completed' = Completed /\ Reached' = Reached
    BY <2>1 DEF Completed, Reached
  <2> QED
    BY <1>2, <2>1, <2>2, OrderedSame
<1>4. CASE Semicolon
  <2>1. pc = "loop" /\ pc' = pc /\ pos' = Behind(pos) /\ UNCHANGED << start, parsed, defined >>
    BY <1>4, Zenon DEF Semicolon, historyVars
  <2>2. pos <= pos'
    BY <1>2, <2>1 DEF Behind
  <2>3. Completed' = Completed /\ Reached' = pos' /\ Reached = pos
    BY <2>1 DEF Completed, Reached
  <2> QED
    BY <1>2, <2>1, <2>2, <2>3, OrderedSame
<1>5. CASE ReadDefinition \/ ReadExtern \/ ReadExpression
  <2>1. pc = "loop" /\ pc' = "parse" /\ start' = pos /\ UNCHANGED << parsed, defined >>
    BY <1>5, BeginFacts
  <2>2. Completed' = Completed /\ Reached' = Reached
    BY <2>1 DEF Completed, Reached
  <2> QED
    BY <1>2, <2>1, <2>2, OrderedSame
<1>6. CASE Parse
  <2>1. pc = "parse" /\ pc' = pc /\ UNCHANGED << start, parsed, defined >>
    BY <1>6, Zenon DEF Parse, driverVars, historyVars
  <2>2. Completed' = Completed /\ Reached' = Reached
    BY <2>1 DEF Completed, Reached
  <2> QED
    BY <1>2, <2>1, <2>2, OrderedSame
<1>7. CASE Recover
  <2>1. pc = "parse" /\ pc' = "loop" /\ pos' = Behind(pos) /\ UNCHANGED << start, parsed, defined >>
    BY <1>7, Zenon DEF Recover, Recovered, NextConstruct
  <2>2. start <= pos /\ pos <= pos'
    BY <1>2, <2>1 DEF Behind, Advanced
  <2>3. Completed' = Completed /\ Reached' = pos' /\ Reached = start
    BY <2>1 DEF Completed, Reached
  <2> QED
    BY <1>2, <2>1, <2>2, <2>3, OrderedSame
<1>8. CASE Accept
  <2>1. /\ pc = "parse" /\ phase = "return" /\ ret # 0 /\ parsed' = parsed \cup {start}
        /\ UNCHANGED << pos, start, defined >>
    BY <1>8, Zenon DEF Accept, Parsed, parserVars
  <2>2. pc' \in {"dump", "codegen"} /\ start < pos
    <3>1. pc' = "dump" \/ pc' = "codegen"
      BY <1>8, Zenon DEF Accept
    <3> QED
      BY <1>2, <2>1, <3>1 DEF Advanced
  <2>3. start \notin parsed
    BY <1>2, <2>1 DEF Ordered, Completed, Reached
  <2>4. Completed' = Completed /\ Reached' = Reached
    BY <2>1, <2>2, <2>3 DEF Completed, Reached
  <2> QED
    BY <1>2, <2>1, <2>2, <2>4, OrderedSame
<1>9. CASE PrintTree
  <2>1. pc = "dump" /\ (pc' = pc \/ pc' = "codegen") /\ UNCHANGED << pos, start, parsed, defined >>
    BY <1>9, Zenon DEF PrintTree, DumpStep, parserVars, driverVars, historyVars
  <2>2. Completed' = Completed /\ Reached' = Reached
    BY <2>1 DEF Completed, Reached
  <2> QED
    BY <1>2, <2>1, <2>2, OrderedSame DEF Ordered
<1>10. CASE Generate \/ Declare
  <2>1. pc = "codegen" /\ pc' = "loop" /\ UNCHANGED << pos, parsed >> /\ defined' \subseteq defined \cup {start}
    BY <1>10, Zenon DEF Generate, Declare, NextConstruct, historyVars
  <2>2. start \in parsed /\ start < pos
    BY <1>1, <2>1 DEF DriverInv, Ordered
  <2>3. Completed' = parsed /\ Reached' = pos /\ Completed = parsed \ {start} /\ Reached = start
    BY <2>1 DEF Completed, Reached
  <2> QED
    BY <1>2, <2>1, <2>2, <2>3 DEF Ordered
<1>11. CASE UNCHANGED vars
  <2>1. UNCHANGED << pc, pos, start, parsed, defined >>
    BY <1>11 DEF vars, parserVars, driverVars, historyVars
  <2>2. Completed' = Completed /\ Reached' = Reached
    BY <2>1 DEF Completed, Reached
  <2> QED
    BY <1>2, <2>1, <2>2, OrderedSame DEF Ordered
<1> QED
  BY <1>3, <1>4, <1>5, <1>6, <1>7, <1>8, <1>9, <1>10, <1>11, Zenon DEF Next, Stopped

-----------------------------------------------------------------------------
\* What the last definition of an operator says, and what the table has.
LEMMA EnteredGives ==
    ASSUME NEW c, NEW v \in 1..100, SetPrecedence(c, v), NEW o
    PROVE  GetPrecedence(o)' = IF o = c THEN v ELSE GetPrecedence(o)
BY DEF SetPrecedence, GetPrecedence

LEMMA ErasedGives ==
    ASSUME NEW c, Erase(c), NEW o
    PROVE  GetPrecedence(o)' = IF o = c THEN -1 ELSE GetPrecedence(o)
BY DEF Erase, GetPrecedence

LEMMA OperatorIs ==
    ASSUME start \in Nat, RootOf(ast, ret, start), ast[ret].kind = "function"
    PROVE  Operator(ret) = IF Tok(start) = "def" /\ Tok(start + 1) = "binary"
                           THEN {[op |-> Tok(start + 2), prec |-> AskedFor(start)]} ELSE {}
<1>1. PICK x : x = ast[ast[ret].kids[1]]
  OBVIOUS
<1>2. Operator(ret) = IF x.kind = "binaryproto" THEN {[op |-> Tok(x.at + 1), prec |-> x.prec]} ELSE {}
  BY <1>1, Zenon DEF Operator
<1>3. (start + 1) + 1 = start + 2 /\ (start + 1) - 1 = start
  OBVIOUS
<1>4. CASE Tok(start) = "def"
  <2>1. HeadIs(x, start + 1)
    BY <1>1, <1>4 DEF RootOf
  <2> QED
    BY <1>2, <1>3, <1>4, <2>1 DEF HeadIs
<1>5. CASE Tok(start) # "def"
  BY <1>1, <1>2, <1>5 DEF RootOf
<1> QED
  BY <1>4, <1>5

Says(D, S, g, o) ==
    /\ D = {} => g = IF o \in DOMAIN Builtin THEN Builtin[o] ELSE -1
    /\ \A d \in D : (\A e \in D : e <= d) => g = IF d \in S THEN AskedFor(d) ELSE -1

LEMMA HoldsSays ==
    OperatorsHoldForWhatFollows <=>
        \A o \in Char : Says(DefinitionsOf(o), defined, GetPrecedence(o), o)
BY Zenon DEF OperatorsHoldForWhatFollows, Says

LEMMA SaysAsBefore ==
    ASSUME NEW D, NEW S, NEW T, NEW g, NEW o, Says(D, S, g, o), \A d \in D : d \in S <=> d \in T
    PROVE  Says(D, T, g, o)
BY Zenon DEF Says

LEMMA SaysNext ==
    ASSUME NEW D, D \subseteq Nat, NEW s \in Nat, \A d \in D : d < s, NEW T, NEW g, NEW o,
           g = IF s \in T THEN AskedFor(s) ELSE -1
    PROVE  Says(D \cup {s}, T, g, o)
<1>1. ASSUME NEW d \in D \cup {s}, \A e \in D \cup {s} : e <= d PROVE d = s
  BY <1>1
<1> QED
  BY <1>1 DEF Says

LEMMA HoldsNext ==
    ASSUME text' = text, \A o \in Char : Says(DefinitionsOf(o)', defined', GetPrecedence(o)', o)
    PROVE  OperatorsHoldForWhatFollows'
<1>1. ASSUME NEW o \in Char PROVE Says(DefinitionsOf(o), defined, GetPrecedence(o), o)'
  BY <1>1 DEF Says, AskedFor, Tok
<1> QED
  BY <1>1, HoldsSays, Zenon DEF OperatorsHoldForWhatFollows, Says

LEMMA DefinitionsNext ==
    ASSUME text' = text, NEW o
    PROVE  DefinitionsOf(o)' = {d \in Completed' : Tok(d) = "def" /\ Tok(d + 1) = "binary" /\ Tok(d + 2) = o}
BY DEF DefinitionsOf, Tok

LEMMA HoldsSame ==
    ASSUME OperatorsHoldForWhatFollows, UNCHANGED << text, table, Completed, defined >>
    PROVE  OperatorsHoldForWhatFollows'
<1>1. \A o : DefinitionsOf(o)' = DefinitionsOf(o) /\ GetPrecedence(o)' = GetPrecedence(o)
  BY DefinitionsNext DEF DefinitionsOf, GetPrecedence
<1>2. \A o \in Char : Says(DefinitionsOf(o)', defined', GetPrecedence(o)', o)
  BY <1>1, HoldsSays
<1> QED
  BY <1>2, HoldsNext

\* The one step that changes what the text says, and the table.
LEMMA GenerateHolds ==
    ASSUME FrontendInv, Rooted, Ordered, OperatorsHoldForWhatFollows, Generate \/ Declare
    PROVE  OperatorsHoldForWhatFollows'
<1>1. pc = "codegen" /\ pc' = "loop" /\ UNCHANGED << text, parsed >>
  BY Zenon DEF Generate, Declare, NextConstruct, historyVars
<1>2. /\ start \in parsed /\ start \in Nat /\ Completed' = Completed \cup {start} /\ Completed \subseteq Nat
      /\ \A d \in Completed : d < start /\ d # start
      /\ defined \subseteq Completed /\ start \notin defined /\ RootOf(ast, ret, start)
  <2>1. start \in parsed
    BY <1>1 DEF FrontendInv, DriverInv
  <2>2. Completed = parsed \ {start} /\ Completed' = parsed /\ Reached = start
    BY <1>1 DEF Completed, Reached
  <2>3. RootOf(ast, ret, start)
    BY <1>1 DEF Rooted
  <2> QED
    BY <2>1, <2>2, <2>3, Numbers DEF Ordered
<1> DEFINE Enters == Tok(start) = "def" /\ Tok(start + 1) = "binary"
<1>3. \A o : DefinitionsOf(o) \subseteq Completed
  BY DEF DefinitionsOf
<1>4. \A o : DefinitionsOf(o)' = IF Enters /\ Tok(start + 2) = o
                                THEN DefinitionsOf(o) \cup {start} ELSE DefinitionsOf(o)
  <2>1. \A o : DefinitionsOf(o)' = {d \in Completed \cup {start} :
                                    Tok(d) = "def" /\ Tok(d + 1) = "binary" /\ Tok(d + 2) = o}
    BY <1>1, <1>2, DefinitionsNext
  <2> QED
    BY <2>1, Zenon DEF DefinitionsOf
<1>5. \A o \in Char : Says(DefinitionsOf(o), defined, GetPrecedence(o), o)
  BY HoldsSays
<1>6. CASE ~Enters \/ ast[ret].kind # "function"
  <2>1. table' = table /\ defined' = defined
    <3>1. CASE ast[ret].kind # "function"
      BY <3>1, Zenon DEF Generate, Declare, historyVars
    <3>2. CASE ast[ret].kind = "function"
      <4>1. Operator(ret) = {}
        BY <1>2, <1>6, <3>2, OperatorIs
      <4> QED
        BY <3>2, <4>1, Zenon DEF Generate, Declare
    <3> QED
      BY <3>1, <3>2
  <2>2. ~Enters
    BY <1>2, <1>6 DEF RootOf
  <2>3. \A o : DefinitionsOf(o)' = DefinitionsOf(o) /\ GetPrecedence(o)' = GetPrecedence(o)
    BY <1>4, <2>1, <2>2 DEF GetPrecedence
  <2> QED
    BY <1>1, <1>5, <2>1, <2>3, HoldsNext
<1>7. CASE Enters /\ ast[ret].kind = "function"
  <2>1. PICK c, v : c = Tok(start + 2) /\ v = AskedFor(start)
    OBVIOUS
  <2>2. PICK w : w = [op |-> c, prec |-> v]
    OBVIOUS
  <2>3. Operator(ret) = {w} /\ w.op = c /\ w.prec = v
    BY <1>2, <1>7, <2>1, <2>2, OperatorIs
  <2>4. v \in 1..100
    <3>1. ParserInv /\ ret # 0 /\ w \in Operator(ret)
      BY <1>1, <2>3 DEF FrontendInv, DriverInv
    <3> QED
      BY <1>7, <2>3, <3>1, OperatorOK
  <2>5. \/ SetPrecedence(c, v) /\ defined' = defined \cup {start}
        \/ Erase(c) /\ defined' = defined
    <3>1. w \in Operator(ret) /\ Operator(ret) # {}
      BY <2>3
    <3>2. Generate
      BY <1>7, Zenon DEF Declare
    <3> QED
      BY <2>3, <3>1, <3>2, Zenon DEF Generate
  <2>6. \A o : GetPrecedence(o)' = IF o = c THEN (IF start \in defined' THEN v ELSE -1) ELSE GetPrecedence(o)
    <3>1. CASE SetPrecedence(c, v) /\ defined' = defined \cup {start}
      BY <2>4, <3>1, EnteredGives
    <3>2. CASE Erase(c) /\ defined' = defined
      BY <1>2, <3>2, ErasedGives
    <3> QED
      BY <2>5, <3>1, <3>2
  <2>7. \A d \in Completed : d \in defined <=> d \in defined'
    BY <1>2, <2>5
  <2>8. ASSUME NEW o \in Char PROVE Says(DefinitionsOf(o)', defined', GetPrecedence(o)', o)
    <3>1. PICK D, g, T : D = DefinitionsOf(o) /\ g = GetPrecedence(o)' /\ T = defined'
      OBVIOUS
    <3>2. D \subseteq Completed
      BY <1>3, <3>1
    <3>3. CASE o = c
      <4>1. DefinitionsOf(o)' = D \cup {start}
        BY <1>4, <1>7, <2>1, <3>1, <3>3
      <4>2. g = IF start \in T THEN AskedFor(start) ELSE -1
        BY <2>1, <2>6, <3>1, <3>3
      <4>3. D \subseteq Nat /\ \A d \in D : d < start
        BY <1>2, <3>2
      <4>4. PICK s : s = start
        OBVIOUS
      <4>5. Says(D \cup {s}, T, g, o)
        <5>1. s \in Nat /\ (\A d \in D : d < s) /\ g = IF s \in T THEN AskedFor(s) ELSE -1
          BY <1>2, <4>2, <4>3, <4>4
        <5> QED
          BY <4>3, <5>1, SaysNext
      <4> QED
        BY <3>1, <4>1, <4>4, <4>5
    <3>4. CASE o # c
      <4>1. DefinitionsOf(o)' = D /\ g = GetPrecedence(o)
        BY <1>4, <2>1, <2>6, <3>1, <3>4
      <4>2. Says(D, defined, g, o)
        BY <1>5, <3>1, <4>1
      <4>3. \A d \in D : d \in defined <=> d \in T
        BY <2>7, <3>1, <3>2
      <4>4. Says(D, T, g, o)
        BY <4>2, <4>3, SaysAsBefore
      <4> QED
        BY <3>1, <4>1, <4>4
    <3> QED
      BY <3>3, <3>4
  <2> QED
    BY <1>1, <2>8, HoldsNext
<1> QED
  BY <1>6, <1>7

LEMMA HoldsStep ==
    ASSUME FrontendInv, Rooted, Ordered, OperatorsHoldForWhatFollows, [Next]_vars
    PROVE  OperatorsHoldForWhatFollows'
<1>1. CASE Generate \/ Declare
  BY <1>1, GenerateHolds
<1>2. CASE ~(Generate \/ Declare)
  <2>1. UNCHANGED << text, table, defined >>
    <3>1. CASE EndOfInput \/ Semicolon \/ SecondExpression \/ Recover
      BY <3>1, Zenon DEF EndOfInput, Semicolon, SecondExpression, Recover, NextConstruct, parserVars, historyVars
    <3>2. CASE ReadDefinition \/ ReadExtern \/ ReadExpression
      BY <3>2, BeginFacts
    <3>3. CASE Parse
      BY <3>3, Zenon DEF Parse, ParseStep, driverVars, historyVars
    <3>4. CASE Accept \/ PrintTree
      BY <3>4, Zenon DEF Accept, PrintTree, DumpStep, parserVars, driverVars, historyVars
    <3>5. CASE UNCHANGED vars
      BY <3>5 DEF vars, parserVars, driverVars, historyVars
    <3> QED
      BY <1>2, <3>1, <3>2, <3>3, <3>4, <3>5, Zenon DEF Next, Stopped
  <2>2. Completed' = Completed
    <3>1. CASE EndOfInput \/ Semicolon \/ SecondExpression \/ Recover
      <4>1. parsed' = parsed /\ (pc = "loop" \/ pc = "parse") /\ (pc' = "loop" \/ pc' = "end")
        BY <3>1, Zenon DEF EndOfInput, Semicolon, SecondExpression, Recover, NextConstruct, historyVars
      <4> QED
        BY <4>1 DEF Completed
    <3>2. CASE ReadDefinition \/ ReadExtern \/ ReadExpression
      BY <3>2, BeginFacts DEF Completed
    <3>3. CASE Parse
      <4>1. UNCHANGED << pc, parsed, start >>
        BY <3>3, Zenon DEF Parse, driverVars, historyVars
      <4> QED
        BY <4>1 DEF Completed
    <3>4. CASE Accept
      <4>1. pc = "parse" /\ parsed' = parsed \cup {start} /\ start' = start
        BY <3>4, Zenon DEF Accept
      <4>2. pc' = "dump" \/ pc' = "codegen"
        BY <3>4, Zenon DEF Accept
      <4>3. start \notin parsed
        BY <4>1, Numbers DEF Ordered, Completed, Reached
      <4> QED
        BY <4>1, <4>2, <4>3 DEF Completed
    <3>5. CASE PrintTree
      <4>1. pc = "dump" /\ (pc' = pc \/ pc' = "codegen") /\ UNCHANGED << start, parsed >>
        BY <3>5, Zenon DEF PrintTree, driverVars, historyVars
      <4> QED
        BY <4>1 DEF Completed
    <3>6. CASE UNCHANGED vars
      <4>1. UNCHANGED << pc, parsed, start >>
        BY <3>6 DEF vars, driverVars, historyVars
      <4> QED
        BY <4>1 DEF Completed
    <3> QED
      BY <1>2, <3>1, <3>2, <3>3, <3>4, <3>5, <3>6, Zenon DEF Next, Stopped
  <2> QED
    BY <2>1, <2>2, HoldsSame
<1> QED
  BY <1>1, <1>2

\* Whatever the input and the verdicts of code generation: what the parser finds in the
\* table is what the last definition of an operator asks, for all that follows it and not
\* before, and nothing is there when its body failed (CodeGen.cpp:379, :428).
THEOREM OperatorsHold == Spec => []OperatorsHoldForWhatFollows
<1>1. Init => GroupInv /\ Advanced /\ Rooted /\ Ordered /\ OperatorsHoldForWhatFollows
  <2> SUFFICES ASSUME Init PROVE GroupInv /\ Advanced /\ Rooted /\ Ordered /\ OperatorsHoldForWhatFollows
    OBVIOUS
  <2>1. /\ ast = <<>> /\ stack = <<>> /\ phase = "idle" /\ pc = "loop" /\ parsed = {} /\ defined = {}
        /\ table = Builtin
    BY DEF Init, ParserInit, TableInit
  <2>2. GroupInv
    BY <2>1 DEF GroupInv, TreeGrouped, Nested, Turn
  <2>3. Completed = {}
    BY <2>1 DEF Completed
  <2>4. Advanced /\ Rooted /\ Ordered
    BY <2>1, <2>3 DEF Advanced, Rooted, Ordered
  <2>5. ASSUME NEW o \in Char PROVE Says(DefinitionsOf(o), defined, GetPrecedence(o), o)
    <3>1. DefinitionsOf(o) = {}
      BY <2>3 DEF DefinitionsOf
    <3>2. o \in DOMAIN Builtin => Builtin[o] > 0
      BY BuiltinOK DEF TableOK
    <3>3. GetPrecedence(o) = IF o \in DOMAIN Builtin THEN Builtin[o] ELSE -1
      BY <2>1, <3>2 DEF GetPrecedence
    <3> QED
      BY <3>1, <3>3 DEF Says
  <2> QED
    BY <2>2, <2>4, <2>5, HoldsSays
<1>2. FrontendInv /\ GroupInv /\ [Next]_vars => GroupInv'
  BY GroupStep
<1>3. FrontendInv /\ Advanced /\ [Next]_vars => Advanced'
  BY AdvancedStep
<1>4. FrontendInv /\ GroupInv /\ Rooted /\ [Next]_vars => Rooted'
  BY RootedStep
<1>5. FrontendInv /\ Advanced /\ Ordered /\ [Next]_vars => Ordered'
  BY OrderedStep
<1>6. FrontendInv /\ Rooted /\ Ordered /\ OperatorsHoldForWhatFollows /\ [Next]_vars
        => OperatorsHoldForWhatFollows'
  BY HoldsStep
<1> QED
  BY FrontendShapeHolds, <1>1, <1>2, <1>3, <1>4, <1>5, <1>6, PTL DEF Spec
=============================================================================
