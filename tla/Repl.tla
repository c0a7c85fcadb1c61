--------------------------------- MODULE Repl ---------------------------------
(***************************************************************************)
(* The interactive driver (runInteractive, src/src/main.cpp): a loop that  *)
(* reads a definition, an extern or an expression, generates it, hands the *)
(* working module to the JIT and, for an expression, evaluates it.         *)
(*                                                                         *)
(* The JIT is modelled as the symbols of its main dylib and the resource   *)
(* tracker of the expression in flight.  ORC compiles lazily: a function   *)
(* is linked when a lookup first reaches it, so a callee may be defined    *)
(* after its caller, and a missing one is noticed only by the lookup.      *)
(*                                                                         *)
(* ExitOnErr ends the process on any error of the JIT; the three ways the  *)
(* loop ends are the last three values of pc.  A construct the parser      *)
(* rejects changes nothing that is modelled here.                          *)
(***************************************************************************)
EXTENDS CodeGen

CONSTANTS
    Process,    \* identifiers the process itself defines (putchard, sin, ...)
    ExternName  \* bound: names an `extern` gives

\* "__anon_expr" is not an identifier: names have no underscore.
ASSUME ReplNames == TopName \notin Ident
ASSUME ProcessAssumption == Process \subseteq Ident
ASSUME ExternNameAssumption == ExternName \subseteq UserName

VARIABLES
    pc,         \* where the loop is
    jit,        \* the symbols of the main dylib
    tracked,    \* the symbols the resource tracker holds
    allIR       \* AllIR: names of the functions whose IR was captured

vars == <<mod, protos, ops, cur, dangling, pc, jit, tracked, allIR>>

Ended == {"eof", "duplicate", "unresolved"}
Pc == {"ready", "codegen", "addDef", "addTop", "lookup", "evaluate"} \cup Ended

\* A symbol with compiled code, or the address of one of the process.
Symbol == [code : BOOLEAN, params : Params, uses : SUBSET Name]
Compiled(f) == [code |-> TRUE, params |-> f.params, uses |-> {c[1] : c \in f.calls}]
Absolute    == [code |-> FALSE, params |-> <<>>, uses |-> {}]

ReplTypeOK ==
    /\ CodeGenTypeOK
    /\ pc \in Pc
    /\ DOMAIN jit \subseteq Name
    /\ \A n \in DOMAIN jit : jit[n] \in Symbol
    /\ tracked \subseteq Name
    /\ allIR \subseteq Name

Init == /\ CodeGenInit
        /\ pc = "ready"
        /\ jit = EmptyMap
        /\ tracked = {}
        /\ allIR = {}

-----------------------------------------------------------------------------
\* The names a lookup of S reaches through the code of env: the least set that
\* holds S and what its members use.
Closed(env, T) == \A n \in T \cap DOMAIN env : env[n].uses \subseteq T
Reach(env, S) ==
    LET all == S \cup UNION {env[n].uses : n \in DOMAIN env}
    IN  {n \in all : \A T \in SUBSET all : S \subseteq T /\ Closed(env, T) => n \in T}

ReplUnchanged == UNCHANGED <<jit, tracked, allIR>>

ReadDef == \E n \in UserName : \E ps \in ParamsOf(n) :
    pc = "ready" /\ Begin(n, ps, "def") /\ pc' = "codegen" /\ ReplUnchanged

ReadTop ==
    pc = "ready" /\ Begin(TopName, <<>>, "top") /\ pc' = "codegen" /\ ReplUnchanged

ReadExtern == \E n \in ExternName : \E ps \in ParamsOf(n) :
    pc = "ready" /\ Extern(n, ps) /\ UNCHANGED pc /\ ReplUnchanged

GenBody == pc = "codegen" /\ Visit /\ UNCHANGED pc /\ ReplUnchanged

\* The forms named Slip... are faults the properties below are tried against; no
\* action uses them.

\* A definition is handed off at once, not with the next expression.
SlipLeftInModule == IF cur.kind = "def" THEN "ready" ELSE "addTop"
AfterBody == IF cur.kind = "def" THEN "addDef" ELSE "addTop"

GenOk ==
    /\ pc = "codegen"
    /\ FinishOk
    /\ pc' = AfterBody
    /\ ReplUnchanged

GenFail == pc = "codegen" /\ FinishFail /\ pc' = "ready" /\ ReplUnchanged

-----------------------------------------------------------------------------
\* captureModuleIR, addModule and initModule: the module moves to the JIT and an
\* empty one takes its place.  The dylib refuses a name it already has.
SlipCaptureNothing == UNCHANGED allIR
Capture == allIR' = allIR \cup DOMAIN mod

SlipSameModule == UNCHANGED mod
InitModule == mod' = EmptyMap

HandOff ==
    /\ Defined(mod) \cap DOMAIN jit = {}
    /\ Capture
    /\ jit' = [n \in DOMAIN jit \cup Defined(mod) |->
                 IF n \in DOMAIN jit THEN jit[n] ELSE Compiled(mod[n])]
    /\ InitModule
    /\ UNCHANGED <<protos, ops, cur, dangling>>

\* A definition goes to the default tracker, which lives as long as the dylib.
AddDef == pc = "addDef" /\ HandOff /\ pc' = "ready" /\ UNCHANGED tracked

AddTop ==
    pc = "addTop" /\ tracked' = Defined(mod) /\ HandOff /\ pc' = "lookup"

Duplicate ==
    /\ pc \in {"addDef", "addTop"}
    /\ Defined(mod) \cap DOMAIN jit # {}
    /\ pc' = "duplicate"
    /\ Capture
    /\ UNCHANGED <<cgVars, jit, tracked>>

\* The names an expression needs that the dylib lacks.
SlipNotTransitive == jit[TopName].uses \ DOMAIN jit
Wanted == Reach(jit, {TopName}) \ DOMAIN jit

\* lookup("__anon_expr"): everything it reaches must have a definition.  The
\* generator of the dylib defines the symbols it finds in the process.
Lookup ==
    /\ pc = "lookup"
    /\ Wanted \subseteq Process
    /\ jit' = [n \in DOMAIN jit \cup Wanted |->
                 IF n \in DOMAIN jit THEN jit[n] ELSE Absolute]
    /\ pc' = "evaluate"
    /\ UNCHANGED <<cgVars, tracked, allIR>>

LookupFails ==
    /\ pc = "lookup"
    /\ ~(Wanted \subseteq Process)
    /\ pc' = "unresolved"
    /\ UNCHANGED <<cgVars, jit, tracked, allIR>>

SlipNotRemoved == jit
Removed == [n \in DOMAIN jit \ tracked |-> jit[n]]

\* The expression has been called and printed; RT->remove() frees it.
Evaluate ==
    /\ pc = "evaluate"
    /\ jit' = Removed
    /\ tracked' = {}
    /\ pc' = "ready"
    /\ UNCHANGED <<cgVars, allIR>>

\* The working module is captured too: it may hold externs.
Eof ==
    /\ pc = "ready"
    /\ pc' = "eof"
    /\ Capture
    /\ UNCHANGED <<cgVars, jit, tracked>>

Stopped == pc \in Ended /\ UNCHANGED vars

Next == \/ ReadDef \/ ReadTop \/ ReadExtern \/ Eof
        \/ GenBody \/ GenOk \/ GenFail
        \/ AddDef \/ AddTop \/ Duplicate
        \/ Lookup \/ LookupFails \/ Evaluate
        \/ Stopped

Spec == Init /\ [][Next]_vars

-----------------------------------------------------------------------------
\* A definition handed to the JIT is never lost or changed by a later construct:
\* the removal of an expression's tracker frees nothing but the expression.
PermanentDefinitions ==
    [][\A n \in DOMAIN jit \ {TopName} : n \in DOMAIN jit' /\ jit'[n] = jit[n]]_vars

\* An expression is never refused as a duplicate of an earlier one: every
\* "__anon_expr" was removed before the next is read.  Only definitions are.
ExpressionsNeverDuplicate == pc = "duplicate" => TopName \notin Defined(mod)

\* Between constructs, an operator the parser accepts and that is not builtin is
\* one whose function the JIT has, whatever definitions of it have failed.
OperatorsBacked ==
    pc = "ready" => \A o \in ops \ Builtin : BinaryName(o) \in DOMAIN jit

\* A function that JIT'd code calls has a prototype, so the one way for a lookup
\* to fail is a prototype without code: a definition that failed, or an extern.
UsesDeclared == \A n \in DOMAIN jit : jit[n].uses \subseteq DOMAIN protos

\* At the end of input the IR shown has every function the JIT was given and
\* every extern still waiting in the working module.  By name: a name the JIT has once
\* is never given to it again, but for the expressions, of which one is enough here.
DumpComplete ==
    /\ \A n \in DOMAIN jit : jit[n].code => n \in allIR
    /\ pc = "eof" => DOMAIN mod \subseteq allIR

\* A failing definition never erases a function that other code of the working
\* module calls: no earlier body is ever in it.
ErasureIsSafe == ~dangling

\* What a definition promises later expressions (ARCHITECTURE.md:97): while it is
\* in the JIT, a call with the arguments it was defined with is generated.
CallableAsDefined ==
    pc = "ready" => \A n \in DOMAIN jit :
        jit[n].code => n \in DOMAIN protos /\ Len(protos[n]) = Len(jit[n].params)

-----------------------------------------------------------------------------
\* The session the loop implements: the environment is the dylib without the
\* expression in flight, which runs between its lookup and its removal.
UserSymbols == [n \in DOMAIN jit \ {TopName} |-> jit[n]]

Abstract == INSTANCE Session WITH
    SymbolName <- UserName,
    Code       <- Symbol,
    External   <- Absolute,
    env        <- UserSymbols,
    running    <- IF pc = "evaluate" THEN Reach(jit, {TopName}) \ {TopName} ELSE {},
    open       <- pc \notin Ended

ImplementsSession == Abstract!Spec
=============================================================================
