------------------------------ MODULE ASTDumper ------------------------------
(***************************************************************************)
(* The printer of trees (src/src/ASTDumper.cpp), a visitor that keeps one  *)
(* number between its calls, Indent.  Its recursion is a stack here.  A    *)
(* line of the output is its indentation and the node it prints, 0 for a   *)
(* caption.                                                                *)
(*                                                                         *)
(* This module has no specification of its own: Frontend drives it.        *)
(***************************************************************************)
EXTENDS Grammar

VARIABLES
    indent,     \* Indent
    lines,      \* the output for the current construct
    visits      \* nodes being visited, with the number of parts printed

dumperVars == <<indent, lines, visits>>

Line(n, i) == <<[indent |-> i, node |-> n]>>
Caption(i) == Line(0, i)

DumperTypeOK ==
    /\ indent \in Nat
    /\ \A i \in DOMAIN lines : lines[i].indent \in Nat /\ lines[i].node \in 0..Len(ast)
    /\ \A i \in DOMAIN visits : visits[i].node \in DOMAIN ast /\ visits[i].done \in Nat

DumperInit == indent = 0 /\ lines = <<>> /\ visits = <<>>

Visit(n) == <<[node |-> n, done |-> 0]>>

\* dump(FunctionAST &) and dump(PrototypeAST &).
DumpFunction(f) ==
    LET proto == ast[f].kids[1]
        body  == ast[f].kids[2]
    IN  /\ lines' = Line(f, indent) \o Line(proto, indent + 1) \o Caption(indent + 1)
                      \o Line(body, indent + 2)
        /\ indent' = indent + 2
        /\ visits' = Visit(body)

DumpPrototype(p) == lines' = Line(p, indent) /\ UNCHANGED <<indent, visits>>

Dump(root) == IF ast[root].kind = "function" THEN DumpFunction(root) ELSE DumpPrototype(root)

-----------------------------------------------------------------------------
\* The forms named Slip... are faults the properties are tried against; no action
\* uses them.
Current == visits[Len(visits)]
Outer   == SubSeq(visits, 1, Len(visits) - 1)
Part    == ast[Current.node].kids[Current.done + 1]
HasPart == visits # <<>> /\ Current.done < Len(ast[Current.node].kids)
Counted == Append(Outer, [Current EXCEPT !.done = @ + 1])

\* child(): a caption, and the part below it.
Child ==
    /\ HasPart
    /\ Part # 0
    /\ lines' = lines \o Caption(indent + 1) \o Line(Part, indent + 2)
    /\ indent' = indent + 2
    /\ visits' = Counted \o Visit(Part)

\* A variable of a `var` without initialiser has a line of its own, the missing step
\* of a `for` none.
NoChild ==
    /\ HasPart
    /\ Part = 0
    /\ lines' = IF ast[Current.node].kind = "var" THEN lines \o Caption(indent + 1) ELSE lines
    /\ visits' = Counted
    /\ UNCHANGED indent

SlipOne == indent - 1
Outdented == indent - 2

Leave ==
    /\ visits # <<>>
    /\ ~HasPart
    /\ indent' = Outdented
    /\ visits' = Outer
    /\ UNCHANGED lines

DumpStep == (Child \/ NoChild \/ Leave) /\ UNCHANGED <<table, parserVars>>

-----------------------------------------------------------------------------
\* The tree a reader makes of the indentation: the parts of the node in line j are those
\* two steps further in, up to the next line that is not further in.
Below(j) == {m \in j + 1..Len(lines) : \A k \in j + 1..m : lines[k].indent > lines[j].indent}
PartsRead(j) ==
    {m \in Below(j) : lines[m].node # 0 /\ lines[m].indent = lines[j].indent + 2}

\* The parts the node in line j has: of a definition, in the first line, the body (its
\* prototype is one step in), of an extern none, of an expression all that are there.
PartsOf(j) ==
    LET n == ast[lines[j].node]
    IN  {k \in DOMAIN n.kids : IF j = 1 THEN n.kind = "function" /\ k = 2 ELSE n.kids[k] # 0}

\* When a dump has ended, the indentation shows the tree: each node has the parts it has
\* in the tree, in their order, and Indent is back where it was for the next one.
DumpShowsTheTree ==
    lines # <<>> /\ visits = <<>> =>
        /\ indent = 0
        /\ lines[1].node = ret
        /\ \A j \in DOMAIN lines : lines[j].node # 0 =>
            \E at \in [PartsOf(j) -> PartsRead(j)] :
                /\ \A k \in PartsOf(j) : lines[at[k]].node = ast[lines[j].node].kids[k]
                /\ \A k, l \in PartsOf(j) : k < l => at[k] < at[l]
                /\ PartsRead(j) = {at[k] : k \in PartsOf(j)}
=============================================================================
