------------------------------- MODULE Lowering -------------------------------
(***************************************************************************)
(* The visitor that turns the body of a function into basic blocks         *)
(* (CodeGen::visit..., src/src/CodeGen.cpp): which variable a name stands  *)
(* for at each point, which blocks there are and how they branch, and what *)
(* a part that fails does to the rest.                                     *)
(*                                                                         *)
(* The C++ visitor recurses; here its stack is a variable.  A frame is a   *)
(* visit that waits for a part of its expression.  The tree is not built   *)
(* first: what the next part is, is chosen when it is visited.             *)
(*                                                                         *)
(* A value is the block it is computed in, or none for a constant.  What   *)
(* calls do to the module is in CodeGen.                                   *)
(*                                                                         *)
(* Debug locations (-g, src/src/DebugInfo.cpp) are always generated here;  *)
(* nothing else depends on them.                                           *)
(***************************************************************************)
EXTENDS Naturals, Sequences, FiniteSets

CONSTANTS
    Var,        \* variable names
    ArgLists,   \* arguments a function can have
    VarLists,   \* names a `var` can bind, in order
    Operands,   \* numbers of operands of a call
    MaxNodes    \* bound: visits of one body that wait for a part

ASSUME LoweringAssumption ==
    /\ ArgLists \subseteq Seq(Var)
    /\ \A ps \in ArgLists : \A i, j \in DOMAIN ps : ps[i] = ps[j] => i = j
    /\ VarLists \subseteq Seq(Var) \ {<<>>}
    /\ Operands \subseteq Nat
    /\ MaxNodes \in Nat

VARIABLES
    phase,      \* next: a visit, a return, a binding of a `var`, or nothing
    val,        \* what the last visit returned
    stack,      \* visits in progress, the innermost last
    named,      \* NamedValues: the alloca of each variable, 0 for none
    allocas,    \* allocas of the function so far
    cur,        \* the block Builder inserts into
    cfg,        \* the blocks of the function
    args,       \* arguments of the function
    loc,        \* the location Builder gives to the instructions it creates
    line,       \* history: the instructions of the last step, and what location they have
    result,     \* how the body ended
    nodes,      \* bound: frames pushed
    nulls,      \* history: some visit of this body returned null
    doubled     \* history: a `var` that named a variable twice has ended

vars == <<phase, val, stack, named, allocas, cur, cfg, args, loc, line, result, nodes, nulls, doubled>>

Value == [ok : BOOLEAN, at : Nat]
Null  == [ok |-> FALSE, at |-> 0]
Const == [ok |-> TRUE, at |-> 0]
In(b) == [ok |-> TRUE, at |-> b]

\* own and old: the allocas a for or var binds its names to, and what they stood
\* for before.
Node  == {"assign", "unary", "binary", "call", "if", "for", "var"}
Step  == {"operand", "cond", "then", "else", "start", "body", "step", "end", "init"}
Frame == [node : Node, step : Step, names : Seq(Var), own : Seq(Nat), old : Seq(Nat),
          vals : SUBSET Value, blocks : Seq(Nat), want : Nat]
NewFrame(n, s) == [node |-> n, step |-> s, names |-> <<>>, own |-> <<>>, old |-> <<>>,
                   vals |-> {}, blocks |-> <<>>, want |-> 0]

Blocks == DOMAIN cfg.terms

\* Of a location this is kept: whether it is one of this function's; the depth of the
\* innermost visit in progress whose expression it points into; whether it is that of
\* this expression itself.
Location == [of : {"nothing", "earlier", "this"}, depth : 0..MaxNodes + 1, own : BOOLEAN]
Nowhere  == [of |-> "nothing", depth |-> 0, own |-> FALSE]
Line     == [of : Node \cup {"none", "argument", "default", "variable", "function"},
             where : {"nothing", "earlier", "outside", "inside", "own"}]
NoLine   == [of |-> "none", where |-> "nothing"]

LoweringTypeOK ==
    /\ phase \in {"idle", "visit", "return", "bind"}
    /\ val \in Value
    /\ stack \in Seq(Frame)
    /\ named \in [Var -> 0..allocas]
    /\ allocas \in Nat
    /\ cur \in Blocks
    /\ cfg.terms \in Seq(Nat)
    /\ cfg.edges \subseteq Blocks \X Blocks
    /\ cfg.uses \subseteq Blocks \X Blocks
    /\ cfg.phis \subseteq [block : Blocks, from : Blocks]
    /\ args \in Seq(Var)
    /\ loc \in Location
    /\ line \in Line
    /\ result \in {"none", "ok", "failed"}
    /\ nodes \in 0..MaxNodes
    /\ nulls \in BOOLEAN
    /\ doubled \in BOOLEAN

-----------------------------------------------------------------------------
\* The forms named Slip... are faults the properties below are tried against; no
\* action uses them.

\* The control-flow graph: how many terminators each block has, the branches, the
\* incoming blocks of the phi nodes, and in which block a value of which is used.
EntryOnly == [terms |-> <<0>>, edges |-> {}, phis |-> {}, uses |-> {}]
NewBlock  == Len(cfg.terms) + 1

SlipNotInserted(g, n) == [g EXCEPT !.terms = @ \o [i \in 1..n - 1 |-> 0]]
WithBlocks(g, n) == [g EXCEPT !.terms = @ \o [i \in 1..n |-> 0]]
WithBranch(g, b, targets) ==
    [g EXCEPT !.terms[b] = @ + 1, !.edges = @ \cup {<<b, t>> : t \in targets}]
WithUses(g, b, vs) == [g EXCEPT !.uses = @ \cup ({v.at : v \in vs} \ {0}) \X {b}]
WithPhi(g, m, incoming) ==
    [g EXCEPT !.phis = @ \cup {[block |-> m, from |-> p[1]] : p \in incoming},
              !.uses = @ \cup {<<p[2].at, p[1]>> : p \in {q \in incoming : q[2].at # 0}}]

\* NamedValues when the arguments have been stored.
Position(ps, v) == IF \E i \in DOMAIN ps : ps[i] = v
                   THEN CHOOSE i \in DOMAIN ps : ps[i] = v ELSE 0
Arguments(ps) == [v \in Var |-> Position(ps, v)]

\* NamedValues when a for or var ends: its names get back what they stood for, in
\* the order they were bound, so the last of two equal names decides.
SlipLeftBound(f) == named
Restored(f) == [v \in Var |->
    LET own == {i \in DOMAIN f.names : f.names[i] = v}
    IN  IF own = {} THEN named[v] ELSE f.old[CHOOSE i \in own : \A j \in own : j <= i]]

-----------------------------------------------------------------------------
Top   == stack[Len(stack)]
Rest  == SubSeq(stack, 1, Len(stack) - 1)
Depth == Len(stack)

\* emitLocation of the expression visited at a depth: of a unary operator or a `var` it
\* comes behind the operand or the initialisers.
AtNode(depth) == [of |-> "this", depth |-> depth, own |-> TRUE]
SlipNotOfCalls(n) == IF n \in {"unary", "var", "call"} THEN loc ELSE AtNode(Depth + 1)
OnEntry(n) == IF n \in {"unary", "var"} THEN loc ELSE AtNode(Depth + 1)

\* The location l when the visits deeper than this have ended.
Within(l, depth) == IF l.depth <= depth THEN l ELSE [l EXCEPT !.depth = depth, !.own = FALSE]

\* Instructions of the visit at a depth are created with the location l.
Creates(n, l, depth) == line' = [of |-> n, where |->
    CASE l.of # "this"  -> l.of
      [] l.of = "this" /\ l.depth < depth -> "outside"
      [] l.of = "this" /\ l.depth = depth /\ l.own -> "own"
      [] OTHER -> "inside"]
Instruction == Creates(Top.node, loc, Depth)

Return(v)   == val' = v /\ phase' = "return" /\ nulls' = (nulls \/ ~v.ok)
Leave(v)    == stack' = Rest /\ Return(v) /\ loc' = Within(loc, Depth - 1)
Continue(f) == /\ stack' = Append(Rest, f)
               /\ phase' = "visit"
               /\ UNCHANGED <<val, nulls>>
Enter(f)    == /\ phase = "visit"
               /\ nodes < MaxNodes
               /\ nodes' = nodes + 1
               /\ stack' = Append(stack, f)
               /\ phase' = IF f.node = "var" THEN "bind" ELSE "visit"
               /\ loc' = OnEntry(f.node)
               /\ UNCHANGED <<val, nulls, args, result, doubled>>

NoCode    == line' = NoLine /\ UNCHANGED <<cur, cfg>>
SameCode  == UNCHANGED <<named, allocas>> /\ NoCode
SameNames == UNCHANGED <<named, allocas>>
SameBody  == UNCHANGED <<args, result, nodes, doubled>>

\* A visit returns null as soon as one of its parts has; visitBinary goes on.
SlipBodyIgnored(f) == f.node # "binary" /\ ~(f.node = "for" /\ f.step = "body")
Checks(f) == f.node # "binary"

PartFails ==
    /\ phase = "return"
    /\ stack # <<>>
    /\ ~val.ok
    /\ Checks(Top)
    /\ Leave(Null)
    /\ SameCode
    /\ SameBody

Got(n, s) == /\ phase = "return"
             /\ stack # <<>>
             /\ Top.node = n
             /\ Top.step = s
             /\ Checks(Top) => val.ok

-----------------------------------------------------------------------------
VisitNumber ==
    /\ phase = "visit"
    /\ Return(Const)
    /\ loc' = Within(OnEntry("number"), Depth)
    /\ UNCHANGED stack
    /\ SameCode
    /\ SameBody

VisitVariable(v) ==
    /\ phase = "visit"
    /\ \/ named[v] = 0 /\ Return(Null) /\ UNCHANGED loc /\ NoCode
       \/ /\ named[v] # 0
          /\ Return(In(cur))
          /\ Creates("variable", OnEntry("variable"), Depth + 1)
          /\ loc' = Within(OnEntry("variable"), Depth)
          /\ UNCHANGED <<cur, cfg>>
    /\ UNCHANGED stack
    /\ SameNames
    /\ SameBody

VisitAssign(v) == Enter([NewFrame("assign", "operand") EXCEPT !.names = <<v>>]) /\ SameCode

\* The variable is looked up when the value has been generated.
AssignDone ==
    /\ Got("assign", "operand")
    /\ IF named[Top.names[1]] = 0
       THEN Leave(Null) /\ NoCode
       ELSE Leave(val) /\ cfg' = WithUses(cfg, cur, {val}) /\ Instruction /\ UNCHANGED cur
    /\ SameNames
    /\ SameBody

\* A call of k operands: an unknown callee, or one of another arity, is found before the
\* operands.
VisitCall(k) ==
    \/ /\ phase = "visit"
       /\ \/ Return(Null) /\ NoCode
          \/ /\ k = 0
             /\ Return(In(cur))
             /\ Creates("call", OnEntry("call"), Depth + 1)
             /\ UNCHANGED <<cur, cfg>>
       /\ loc' = Within(OnEntry("call"), Depth)
       /\ UNCHANGED stack
       /\ SameNames
       /\ SameBody
    \/ k > 0 /\ Enter([NewFrame("call", "operand") EXCEPT !.want = k]) /\ SameCode

VisitUnary  == Enter(NewFrame("unary", "operand")) /\ SameCode
VisitBinary == Enter([NewFrame("binary", "operand") EXCEPT !.want = 2]) /\ SameCode

\* A missing operator is found behind its operand.
UnaryDone ==
    /\ Got("unary", "operand")
    /\ \/ Leave(Null) /\ NoCode
       \/ /\ stack' = Rest
          /\ Return(In(cur))
          /\ cfg' = WithUses(cfg, cur, {val})
          /\ Creates("unary", AtNode(Depth), Depth)
          /\ loc' = Within(AtNode(Depth), Depth - 1)
          /\ UNCHANGED cur
    /\ SameNames
    /\ SameBody

NextOperand ==
    /\ Got("call", "operand") \/ Got("binary", "operand")
    /\ Top.want > 1
    /\ Continue([Top EXCEPT !.want = @ - 1, !.vals = @ \cup {val}])
    /\ UNCHANGED loc
    /\ SameCode
    /\ SameBody

LastOperand ==
    /\ Got("call", "operand") \/ Got("binary", "operand")
    /\ Top.want = 1
    /\ \/ Top.node = "binary" /\ Leave(Null) /\ NoCode
       \/ /\ Null \notin Top.vals \cup {val}
          /\ Leave(In(cur))
          /\ cfg' = WithUses(cfg, cur, Top.vals \cup {val})
          /\ Instruction
          /\ UNCHANGED cur
    /\ SameNames
    /\ SameBody

-----------------------------------------------------------------------------
VisitIf == Enter(NewFrame("if", "cond")) /\ SameCode

\* ThenBB, ElseBB and MergeBB.
IfCond ==
    /\ Got("if", "cond")
    /\ cfg' = WithBranch(WithBlocks(WithUses(cfg, cur, {val}), 3), cur, {NewBlock, NewBlock + 1})
    /\ cur' = NewBlock
    /\ Continue([Top EXCEPT !.step = "then",
                            !.blocks = <<NewBlock, NewBlock + 1, NewBlock + 2>>])
    /\ Instruction
    /\ UNCHANGED loc
    /\ SameNames
    /\ SameBody

\* The block a branch of the if ends in, which its parts may have changed.
SlipWhereItBegan(b) == b
WhereItEnds(b) == cur

IfThen ==
    /\ Got("if", "then")
    /\ cfg' = WithBranch(cfg, cur, {Top.blocks[3]})
    /\ cur' = Top.blocks[2]
    /\ Continue([Top EXCEPT !.step = "else", !.vals = {val},
                            !.blocks[1] = WhereItEnds(@)])
    /\ Instruction
    /\ UNCHANGED loc
    /\ SameNames
    /\ SameBody

SlipSwapped(b1, v1, b2, v2) == {<<b1, v2>>, <<b2, v1>>}
Incoming(b1, v1, b2, v2)    == {<<b1, v1>>, <<b2, v2>>}

IfElse ==
    /\ Got("if", "else")
    /\ \E v \in Top.vals :
         cfg' = WithPhi(WithBranch(cfg, cur, {Top.blocks[3]}), Top.blocks[3],
                        Incoming(Top.blocks[1], v, WhereItEnds(Top.blocks[2]), val))
    /\ cur' = Top.blocks[3]
    /\ Leave(In(Top.blocks[3]))
    /\ Instruction
    /\ SameNames
    /\ SameBody

-----------------------------------------------------------------------------
\* The alloca comes first; the name is bound behind the start value.
VisitFor(v) ==
    /\ Enter([NewFrame("for", "start") EXCEPT !.names = <<v>>, !.own = <<allocas + 1>>])
    /\ allocas' = allocas + 1
    /\ UNCHANGED named
    /\ NoCode

ForStart ==
    /\ Got("for", "start")
    /\ cfg' = WithBranch(WithBlocks(WithUses(cfg, cur, {val}), 1), cur, {NewBlock})
    /\ cur' = NewBlock
    /\ named' = [named EXCEPT ![Top.names[1]] = Top.own[1]]
    /\ Continue([Top EXCEPT !.step = "body", !.blocks = <<NewBlock>>,
                            !.old = <<named[Top.names[1]]>>])
    /\ Instruction
    /\ UNCHANGED <<allocas, loc>>
    /\ SameBody

\* The step is optional.
ForBody ==
    /\ Got("for", "body")
    /\ \/ Continue([Top EXCEPT !.step = "step"])
       \/ Continue([Top EXCEPT !.step = "end", !.vals = {Const}])
    /\ UNCHANGED loc
    /\ SameCode
    /\ SameBody

ForStep ==
    /\ Got("for", "step")
    /\ Continue([Top EXCEPT !.step = "end", !.vals = {val}])
    /\ UNCHANGED loc
    /\ SameCode
    /\ SameBody

SlipBackFromLoop(f) == f.blocks[1]
Latch(f) == cur

\* AfterBB.
ForEnd ==
    /\ Got("for", "end")
    /\ cfg' = WithBranch(WithBlocks(WithUses(cfg, cur, Top.vals \cup {val}), 1),
                         Latch(Top), {Top.blocks[1], NewBlock})
    /\ cur' = NewBlock
    /\ named' = Restored(Top)
    /\ Leave(Const)
    /\ Instruction
    /\ UNCHANGED allocas
    /\ SameBody

-----------------------------------------------------------------------------
Bind(x, n) ==
    LET v == Top.names[Len(Top.own) + 1]
    IN  /\ phase' = "bind"
        /\ allocas' = allocas + 1
        /\ cfg' = WithUses(cfg, cur, {x})
        /\ named' = [named EXCEPT ![v] = allocas + 1]
        /\ stack' = Append(Rest, [Top EXCEPT !.own = Append(@, allocas + 1),
                                             !.old = Append(@, named[v])])
        /\ Creates(n, loc, Depth)
        /\ UNCHANGED <<val, nulls, cur, loc>>
        /\ SameBody

VisitVar(ns) == Enter([NewFrame("var", "init") EXCEPT !.names = ns]) /\ SameCode

\* The next name has no initialiser, or one that is visited before the name is bound.
VarNext ==
    /\ phase = "bind"
    /\ Len(Top.own) < Len(Top.names)
    /\ \/ Bind(Const, "default")
       \/ /\ phase' = "visit"
          /\ UNCHANGED <<val, nulls, stack, loc>>
          /\ SameCode
          /\ SameBody

VarInit == Got("var", "init") /\ Bind(val, "var")

VarBody ==
    /\ phase = "bind"
    /\ Len(Top.own) = Len(Top.names)
    /\ Continue([Top EXCEPT !.step = "body"])
    /\ loc' = AtNode(Depth)
    /\ SameCode
    /\ SameBody

Repeats(ns) == \E i, j \in DOMAIN ns : i # j /\ ns[i] = ns[j]

VarDone ==
    /\ Got("var", "body")
    /\ named' = Restored(Top)
    /\ Leave(val)
    /\ doubled' = (doubled \/ Repeats(Top.names))
    /\ NoCode
    /\ UNCHANGED <<allocas, args, result, nodes>>

-----------------------------------------------------------------------------
\* codegen(FunctionAST &): the arguments get allocas and the body is visited.  The
\* location that was left behind is of another function's scope.
SlipKept(l)  == l
Forgotten(l) == Nowhere

Begin(ps) ==
    /\ phase = "idle"
    /\ phase' = "visit"
    /\ named' = Arguments(ps)
    /\ allocas' = Len(ps)
    /\ cur' = 1
    /\ cfg' = EntryOnly
    /\ args' = ps
    /\ IF ps = <<>> THEN line' = NoLine ELSE Creates("argument", Forgotten(loc), 0)
    /\ loc' = AtNode(1)
    /\ result' = "none"
    /\ nodes' = 0
    /\ nulls' = FALSE
    /\ doubled' = FALSE
    /\ UNCHANGED <<val, stack>>

\* The value of the body is returned; without one the function is erased.
Finish ==
    /\ phase = "return"
    /\ stack = <<>>
    /\ phase' = "idle"
    /\ IF val.ok THEN result' = "ok" /\ cfg' = WithBranch(WithUses(cfg, cur, {val}), cur, {})
                 ELSE result' = "failed" /\ UNCHANGED cfg
    /\ IF val.ok THEN Creates("function", loc, 0) ELSE line' = NoLine
    /\ loc' = [Nowhere EXCEPT !.of = "earlier"]
    /\ UNCHANGED <<val, stack, named, allocas, cur, args, nodes, nulls, doubled>>

Visit == \/ VisitNumber \/ VisitUnary \/ VisitBinary \/ VisitIf
         \/ \E v \in Var : VisitVariable(v) \/ VisitAssign(v) \/ VisitFor(v)
         \/ \E k \in Operands : VisitCall(k)
         \/ \E ns \in VarLists : VisitVar(ns)

Resume == \/ PartFails \/ AssignDone \/ UnaryDone \/ NextOperand \/ LastOperand
          \/ IfCond \/ IfThen \/ IfElse
          \/ ForStart \/ ForBody \/ ForStep \/ ForEnd
          \/ VarNext \/ VarInit \/ VarBody \/ VarDone

Init == /\ phase = "idle"
        /\ val = Const
        /\ stack = <<>>
        /\ named = Arguments(<<>>)
        /\ allocas = 0
        /\ cur = 1
        /\ cfg = EntryOnly
        /\ args = <<>>
        /\ loc = Nowhere
        /\ line = NoLine
        /\ result = "none"
        /\ nodes = 0
        /\ nulls = FALSE
        /\ doubled = FALSE

Next == (\E ps \in ArgLists : Begin(ps)) \/ Visit \/ Resume \/ Finish

Spec == Init /\ [][Next]_vars

-----------------------------------------------------------------------------
\* What a name stands for by the structure of the program: the binding of the
\* innermost for or var around this point, or the argument.
Bound(f, v) ==
    LET own == {i \in DOMAIN f.own : f.names[i] = v /\ f.step # "start"}
    IN  IF own = {} THEN 0 ELSE f.own[CHOOSE i \in own : \A j \in own : j <= i]
Lexical(v) ==
    LET around == {i \in DOMAIN stack : Bound(stack[i], v) # 0}
    IN  IF around = {} THEN Position(args, v)
        ELSE Bound(stack[CHOOSE i \in around : \A j \in around : j <= i], v)

\* Wherever generation gets, NamedValues binds every name the way the nesting of the
\* program does, whatever scopes were entered and left on the way and whatever an
\* earlier function left behind.  Two things spoil it: a failure, behind which the
\* function is lost anyway, and a `var` that names one variable twice.
ScopesAreLexical ==
    phase # "idle" /\ ~nulls /\ ~doubled => \A v \in Var : named[v] = Lexical(v)

\* A body is generated exactly if no part of it failed: no visitor drops the null
\* of a part, not even visitBinary, which visits on.
FailureReachesTheTop == result # "none" => (result = "ok" <=> ~nulls)

\* What the code asks of verifyFunction, whose answer it ignores, in three parts.
\* Every block ends in one terminator.
OneTerminatorEach == result = "ok" => \A b \in Blocks : cfg.terms[b] = 1

\* A phi node has one value for each of the blocks that branch to its own, wherever
\* the branches of the `if` ended.
PhisMatchBranches == result = "ok" => \A m \in Blocks :
    LET from == {p.from : p \in {q \in cfg.phis : q.block = m}}
    IN  from # {} => from = {b \in Blocks : <<b, m>> \in cfg.edges}

\* Every path to a use of a value passes the block that computes it.
Dominates(d, u) == d = 1 \/ \E S \in SUBSET (Blocks \ {d}) :
    1 \in S /\ u \notin S /\ \A e \in cfg.edges : e[1] \in S /\ e[2] # d => e[2] \in S
ValuesDominateUses == result = "ok" => \A e \in cfg.uses : Dominates(e[1], e[2])

\* With -g, each instruction has a location in the expression it is generated for, its
\* own or that of a part of it, and in the scope of the function it is in, although the
\* Builder keeps one location for all of them and parts, scopes and functions leave
\* theirs behind.  The stores of the arguments have none.  A variable bound to 0.0
\* without an initialiser is stored wherever generation has been last.
InstructionsAreWhereTheyBelong ==
    CASE line.of \in {"none", "argument"} -> line.where = "nothing"
      [] line.of = "default"              -> line.where \in {"outside", "inside", "own"}
      [] OTHER                            -> line.where \in {"inside", "own"}

\* `Taken at the keyword, not where the node is built, so debug line info points at the
\* "for" rather than at the end of its body.' (Parser.cpp:118)
LoopsPointAtFor == line.of = "for" => line.where = "own"
=============================================================================
