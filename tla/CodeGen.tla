------------------------------- MODULE CodeGen -------------------------------
(***************************************************************************)
(* The code generator as its two drivers see it (src/src/CodeGen.cpp): the *)
(* LLVM module under construction, the prototypes that outlive modules,    *)
(* the operator table it shares with the parser, and the one function      *)
(* definition that may be in progress.                                     *)
(*                                                                         *)
(* The instructions of a body are abstracted to what they do to that       *)
(* state: the functions a body calls, with how many arguments, and whether *)
(* some part of it has failed.  A body is therefore a sequence of visits,  *)
(* chosen nondeterministically, between Begin and one of the two Finish    *)
(* actions.  A failing visit does not end it: visitBinary visits its right *)
(* operand even when the left one has returned null, and that operand may  *)
(* still declare functions in the module.                                  *)
(*                                                                         *)
(* This module has no specification of its own: Repl and Compile drive it. *)
(***************************************************************************)
EXTENDS Naturals, Sequences, FiniteSets

CONSTANTS
    Ident,      \* identifiers a program can define, declare or call
    TopName,    \* the function a top-level expression becomes
    BinOp,      \* characters that can be binary operators
    UnOp,       \* characters that can be unary operators
    Builtin,    \* binary operators the table holds from the start
    Var,        \* variable names
    Params,     \* parameter lists a prototype can have
    MaxCalls    \* bound: distinct calls of one body

BinaryName(o) == <<"binary", o>>
UnaryName(o)  == <<"unary", o>>

BinName == {BinaryName(o) : o \in BinOp}
UnName  == {UnaryName(o) : o \in UnOp}

\* Names a `def` or an `extern` can give.
UserName == Ident \cup BinName \cup UnName
Name     == UserName \cup {TopName}

ASSUME BuiltinAssumption == Builtin \subseteq BinOp

\* Names of operators are not identifiers: no token spells "binary|".
ASSUME NameAssumption ==
    /\ Ident \cap BinName = {}
    /\ Ident \cap UnName = {}
    /\ TopName \notin BinName \cup UnName

\* The empty list is there for top-level expressions.  A list does not repeat
\* a variable: LLVM would give the second argument another name.
ASSUME ParamsAssumption ==
    /\ Params \subseteq Seq(Var)
    /\ <<>> \in Params
    /\ \A ps \in Params : \A i, j \in DOMAIN ps : ps[i] = ps[j] => i = j

ASSUME MaxCallsAssumption == MaxCalls \in Nat

ParamsOf(n) == {ps \in Params : /\ n \in BinName => Len(ps) = 2
                                /\ n \in UnName => Len(ps) = 1}
ArgCount == {Len(ps) : ps \in Params}

\* isBinaryOp: the operator a name defines, as a singleton, or nothing.
OpOf(n) == {o \in BinOp : BinaryName(o) = n}

-----------------------------------------------------------------------------
VARIABLES
    mod,        \* functions of the working module, by name
    protos,     \* FunctionProtos: parameter lists, by name
    ops,        \* operators the table gives a precedence
    cur,        \* the definition being generated
    dangling    \* TRUE once a function was erased while another one calls it

cgVars == <<mod, protos, ops, cur, dangling>>

\* A finite map with one more, or one less, entry.
Put(m, n, x) == [k \in DOMAIN m \cup {n} |-> IF k = n THEN x ELSE m[k]]
Drop(m, n)   == [k \in DOMAIN m \ {n} |-> m[k]]
EmptyMap     == [k \in {} |-> k]

\* entry: what the first entry block of the function was generated from; a
\* later body of the same function is appended behind it and never runs.
Call == Name \X ArgCount
Fn   == [params : Params, entry : {"none", "def", "top"}, calls : SUBSET Call]
Body == [fn : Name, kind : {"none", "def", "top"}, calls : SUBSET Call,
         ok : BOOLEAN, visible : SUBSET BinOp]

Declaration(ps) == [params |-> ps, entry |-> "none", calls |-> {}]
Idle == [fn |-> TopName, kind |-> "none", calls |-> {}, ok |-> TRUE, visible |-> {}]
Defined(m) == {n \in DOMAIN m : m[n].entry # "none"}

CodeGenTypeOK ==
    /\ DOMAIN mod \subseteq Name
    /\ \A n \in DOMAIN mod : mod[n] \in Fn
    /\ DOMAIN protos \subseteq Name
    /\ \A n \in DOMAIN protos : protos[n] \in Params
    /\ ops \subseteq BinOp
    /\ cur \in Body
    /\ dangling \in BOOLEAN

CodeGenInit ==
    /\ mod = EmptyMap
    /\ protos = EmptyMap
    /\ ops = Builtin
    /\ cur = Idle
    /\ dangling = FALSE

-----------------------------------------------------------------------------
\* The forms named Slip... are faults the properties of Repl and Compile are
\* tried against; no action uses them.

\* getFunction: the function of the module, else one declared from its
\* prototype, else null.
CanGet(n) == n \in DOMAIN mod \cup DOMAIN protos
GetFunction(m, p, n) ==
    IF n \in DOMAIN m \/ n \notin DOMAIN p THEN m ELSE Put(m, n, Declaration(p[n]))

\* The operator table after setPrecedence, and after erase, for the operator that
\* the function n defines, if it does.
SlipNotAnOperator(n) == ops \cup {n}
SetPrecedence(n) == ops \cup OpOf(n)

SlipOperatorStays(n) == ops
Erase(n) == ops \ OpOf(n)

\* codegen(FunctionAST &) up to the visit of the body.  The prototype is
\* recorded and the operator made known before anything can fail; a function
\* the module already has keeps the arguments it was declared with.  The
\* body was parsed before, with the operators known then.
Begin(n, ps, k) ==
    /\ cur.kind = "none"
    /\ protos' = Put(protos, n, ps)
    /\ mod' = GetFunction(mod, protos', n)
    /\ ops' = SetPrecedence(n)
    /\ cur' = [fn |-> n, kind |-> k, calls |-> {}, ok |-> TRUE, visible |-> ops]
    /\ UNCHANGED dangling

\* A variable, read or assigned, that is neither an argument of the function in
\* the module nor bound by an enclosing for or var.  A bound one changes nothing.
VisitVariable(v) ==
    /\ cur.kind # "none"
    /\ \A i \in DOMAIN mod[cur.fn].params : mod[cur.fn].params[i] # v
    /\ cur' = [cur EXCEPT !.ok = FALSE]
    /\ UNCHANGED <<mod, protos, ops, dangling>>

AddCall(n, k) == cur' = [cur EXCEPT !.calls = @ \cup {<<n, k>>}]

SlipAnyArity(f, k) == TRUE
Takes(f, k) == Len(f.params) = k

\* The callee is declared before its arity is compared.
VisitCall(n, k) ==
    /\ cur.kind # "none"
    /\ Cardinality(cur.calls) < MaxCalls
    /\ mod' = GetFunction(mod, protos, n)
    /\ \/ /\ CanGet(n)
          /\ Takes(mod'[n], k)
          /\ AddCall(n, k)
       \/ /\ CanGet(n) => ~Takes(mod'[n], k)
          /\ cur' = [cur EXCEPT !.ok = FALSE]
    /\ UNCHANGED <<protos, ops, dangling>>

\* An operator, in an expression whose operands were generated: a call of the
\* function of that name, with no check of its arity.
VisitOperator(n, k) ==
    /\ cur.kind # "none"
    /\ Cardinality(cur.calls) < MaxCalls
    /\ mod' = GetFunction(mod, protos, n)
    /\ \/ CanGet(n) /\ AddCall(n, k)
       \/ ~CanGet(n) /\ cur' = [cur EXCEPT !.ok = FALSE]
    /\ UNCHANGED <<protos, ops, dangling>>

\* The parser builds a binary expression only for an operator of the table; for
\* the builtin ones no function is called.
VisitBinary(o) == o \in cur.visible \ Builtin /\ VisitOperator(BinaryName(o), 2)

\* It takes any character for a unary operator.
VisitUnary(o) == VisitOperator(UnaryName(o), 1)

Visit == \/ \E v \in Var : VisitVariable(v)
         \/ \E n \in Ident, k \in ArgCount : VisitCall(n, k)
         \/ \E o \in BinOp : VisitBinary(o)
         \/ \E o \in UnOp : VisitUnary(o)

\* codegen(FunctionAST &) after a body that was generated.  A function that has a
\* body already gets one more "entry" block, which nothing branches to.
WithBody(f) == [f EXCEPT !.entry = IF @ = "none" THEN cur.kind ELSE @,
                         !.calls = @ \cup cur.calls]

FinishOk ==
    /\ cur.kind # "none"
    /\ cur.ok
    /\ mod' = [mod EXCEPT ![cur.fn] = WithBody(@)]
    /\ cur' = Idle
    /\ UNCHANGED <<protos, ops, dangling>>

Callers(m, n) == {f \in DOMAIN m : \E c \in m[f].calls : c[1] = n}

\* After one that was not: the function leaves the module, with any earlier
\* body of its own, and the operator leaves the table.  The prototype stays.
FinishFail ==
    /\ cur.kind # "none"
    /\ ~cur.ok
    /\ mod' = Drop(mod, cur.fn)
    /\ ops' = Erase(cur.fn)
    /\ dangling' = (dangling \/ Callers(mod, cur.fn) \ {cur.fn} # {})
    /\ cur' = Idle
    /\ UNCHANGED protos

SlipNoPrototype(n, ps) == UNCHANGED protos
AddPrototype(n, ps) == protos' = Put(protos, n, ps)

\* codegen(PrototypeAST &) and addPrototype for an `extern`.  When the name is
\* taken LLVM renames the new declaration, which nothing can refer to then.
Extern(n, ps) ==
    /\ cur.kind = "none"
    /\ mod' = IF n \in DOMAIN mod THEN mod ELSE Put(mod, n, Declaration(ps))
    /\ AddPrototype(n, ps)
    /\ UNCHANGED <<ops, cur, dangling>>

-----------------------------------------------------------------------------
\* Every call generated so far is to a function of the same module, with the
\* number of arguments that function takes: visitCall compared them with a
\* declaration that nothing replaced since, and visitBinary and visitUnary never
\* compare them at all.  An erased callee is the one way to lose this.
CallsResolve(calls) == \A c \in calls :
    c[1] \in DOMAIN mod /\ Len(mod[c[1]].params) = c[2]

ModuleCallsResolve == ~dangling =>
    /\ CallsResolve(cur.calls)
    /\ \A n \in DOMAIN mod : CallsResolve(mod[n].calls)
=============================================================================
