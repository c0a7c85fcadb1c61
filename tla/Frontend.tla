------------------------------- MODULE Frontend -------------------------------
(***************************************************************************)
(* The loops of the two drivers (runInteractive and runCompile,            *)
(* src/src/main.cpp) as they drive the parser: which construct the current *)
(* token begins, the tree that is dumped, what code generation does to the *)
(* operator table, and what is dropped behind an error.                    *)
(*                                                                         *)
(* Of code generation only its verdict is here, and it may always be       *)
(* either: CodeGen, Repl and Compile say what it does.                     *)
(***************************************************************************)
EXTENDS ASTDumper

CONSTANTS
    Mode,       \* the drivers that are run
    DumpAST     \* the values --dump-ast can have

ASSUME FrontendAssumption ==
    /\ Mode \subseteq {"interactive", "compile"}
    /\ DumpAST \subseteq BOOLEAN

VARIABLES
    pc,         \* where the loop is
    mode,       \* the driver
    dumpAST,    \* O.DumpAST
    sawTopLevel,
    start,      \* where the last construct began
    begun,      \* history: where the constructs began
    dropped,    \* history: the tokens error recovery dropped
    parsed,     \* history: the constructs that parsed, by their beginning
    dumped,     \* history: those that were dumped
    defined     \* history: those that defined an operator: their body was generated

historyVars == <<begun, dropped, parsed, dumped, defined>>
driverVars == <<pc, mode, dumpAST, sawTopLevel, start, historyVars>>
vars == <<table, parserVars, dumperVars, driverVars>>

FrontendTypeOK ==
    /\ ParserTypeOK
    /\ DumperTypeOK
    /\ pc \in {"loop", "parse", "dump", "codegen", "end"}
    /\ mode \in Mode
    /\ dumpAST \in DumpAST
    /\ sawTopLevel \in BOOLEAN
    /\ start \in 0..Len(text)
    /\ begun \subseteq Position
    /\ dropped \subseteq Position
    /\ parsed \subseteq Position
    /\ dumped \subseteq Position
    /\ defined \subseteq Position

Init == /\ TableInit
        /\ ParserInit
        /\ DumperInit
        /\ pc = "loop"
        /\ mode \in Mode
        /\ dumpAST \in DumpAST
        /\ sawTopLevel = FALSE
        /\ start = 0
        /\ begun = {}
        /\ dropped = {}
        /\ parsed = {}
        /\ dumped = {}
        /\ defined = {}

-----------------------------------------------------------------------------
\* The forms named Slip... are faults the properties are tried against; no action
\* uses them.
Options == UNCHANGED <<mode, dumpAST>>

EndOfInput ==
    /\ pc = "loop"
    /\ CurTok = "eof"
    /\ pc' = "end"
    /\ UNCHANGED <<table, parserVars, dumperVars, sawTopLevel, start, historyVars>>
    /\ Options

\* P.advance(): at the end of the input the lexer stays there.
Behind(p) == IF p <= Len(text) THEN p + 1 ELSE p

Semicolon ==
    /\ pc = "loop"
    /\ CurTok = ";"
    /\ pos' = Behind(pos)
    /\ UNCHANGED <<table, text, phase, stack, ret, ast, said, dumperVars>>
    /\ UNCHANGED <<pc, sawTopLevel, start, historyVars>>
    /\ Options

Begin(word, Parse) ==
    /\ pc = "loop"
    /\ pc' = "parse"
    /\ word
    /\ Parse
    /\ start' = pos
    /\ begun' = begun \cup {pos}
    /\ UNCHANGED <<table, text, dumperVars, sawTopLevel, dropped, parsed, dumped, defined>>
    /\ Options

ReadDefinition == Begin(CurTok = "def", ParseDefinition)
ReadExtern     == Begin(CurTok = "extern", ParseExtern)

StartsExpression == CurTok \notin {"eof", ";", "def", "extern"}
ReadExpression   == Begin(StartsExpression /\ ~sawTopLevel, ParseTopLevelExpr)

\* A file has one top-level expression; the loop ends at a second.
SecondExpression ==
    /\ pc = "loop"
    /\ StartsExpression
    /\ sawTopLevel
    /\ pc' = "end"
    /\ UNCHANGED <<table, parserVars, dumperVars, sawTopLevel, start, historyVars>>
    /\ Options

Parse == pc = "parse" /\ ParseStep /\ UNCHANGED <<dumperVars, driverVars>>

NextConstruct ==
    /\ phase' = "idle"
    /\ ast' = <<>>
    /\ ret' = 0
    /\ said' = 0
    /\ lines' = <<>>
    /\ pc' = "loop"
    /\ UNCHANGED <<text, stack, indent, visits>>
    /\ Options

\* Error recovery: the token at which the parse stopped is dropped, whatever it is.
SlipNothing(p)  == p
SlipToSemicolon(p) ==
    CHOOSE q \in p..Len(text) + 1 : Tok(q) \in {";", "eof"} /\ \A r \in p..q - 1 : Tok(r) # ";"
Recovered(p) == Behind(p)

Recover ==
    /\ pc = "parse"
    /\ Parsed
    /\ ret = 0
    /\ pos' = Recovered(pos)
    /\ dropped' = dropped \cup {pos}
    /\ NextConstruct
    /\ UNCHANGED <<table, sawTopLevel, start, begun, parsed, dumped, defined>>

\* The object-file driver does not dump an extern.
IsDumped == dumpAST /\ (mode = "compile" => ast[ret].kind = "function")

Accept ==
    /\ pc = "parse"
    /\ Parsed
    /\ ret # 0
    /\ parsed' = parsed \cup {start}
    /\ IF IsDumped
       THEN Dump(ret) /\ pc' = "dump" /\ dumped' = dumped \cup {start}
       ELSE pc' = "codegen" /\ UNCHANGED <<dumperVars, dumped>>
    /\ UNCHANGED <<table, parserVars, sawTopLevel, start, begun, dropped, defined>>
    /\ Options

PrintTree ==
    /\ pc = "dump"
    /\ IF visits # <<>>
       THEN DumpStep /\ UNCHANGED driverVars
       ELSE /\ pc' = "codegen"
            /\ UNCHANGED <<table, parserVars, dumperVars, sawTopLevel, start, historyVars>>
            /\ Options

\* A function named after a binary operator enters the operator into the table; if its
\* body fails, whatever the table had for the operator is gone.
Operator(root) ==
    LET proto == ast[ast[root].kids[1]]
    IN  IF proto.kind = "binaryproto" THEN {[op |-> Tok(proto.at + 1), prec |-> proto.prec]} ELSE {}

IsExpression(root) == ast[ast[root].kids[1]].kind = "anonproto"

Generate ==
    /\ pc = "codegen"
    /\ ast[ret].kind = "function"
    /\ \/ /\ \A o \in Operator(ret) : SetPrecedence(o.op, o.prec)
          /\ Operator(ret) = {} => UNCHANGED table
          /\ sawTopLevel' = (sawTopLevel \/ (mode = "compile" /\ IsExpression(ret)))
          /\ defined' = IF Operator(ret) = {} THEN defined ELSE defined \cup {start}
       \/ /\ \A o \in Operator(ret) : Erase(o.op)
          /\ Operator(ret) = {} => UNCHANGED table
          /\ UNCHANGED <<sawTopLevel, defined>>
    /\ NextConstruct
    /\ UNCHANGED <<pos, start, begun, dropped, parsed, dumped>>

\* The declaration of an extern cannot fail.
Declare ==
    /\ pc = "codegen"
    /\ ast[ret].kind # "function"
    /\ NextConstruct
    /\ UNCHANGED <<table, pos, sawTopLevel, start, historyVars>>

Stopped == pc = "end" /\ UNCHANGED vars

Next == \/ EndOfInput \/ Semicolon
        \/ ReadDefinition \/ ReadExtern \/ ReadExpression \/ SecondExpression
        \/ Parse \/ Recover \/ Accept \/ PrintTree \/ Generate \/ Declare
        \/ Stopped

\* One thread, which waits for nothing but its input.
Spec == Init /\ [][Next]_vars /\ WF_vars(Next)

-----------------------------------------------------------------------------
\* Whatever an error leaves behind, no later definition or extern is skipped: each
\* `def` and `extern` passed so far began a construct, but for the one at which a parse
\* stopped (main.cpp:139, :252).
KeywordsBeginConstructs == \A p \in 1..pos - 1 :
    text[p] \in {"def", "extern"} =>
        p \in begun \cup dropped

\* Each construct takes a token at least, and the loop ends for every input: the loop and
\* the parser together are the reader that Compile supposes.
Reading == INSTANCE Reader WITH
    left  <- Len(text) + 1 - (IF pc = "parse" THEN start ELSE pos),
    place <- CASE pc = "parse" -> "loop" [] pc = "dump" -> "codegen" [] OTHER -> pc,
    full  <- sawTopLevel

ImplementsReader == Reading!Spec

\* The definitions of an operator that code generation is through with, by the text
\* alone, and the precedence that one of them asks for.
Completed == IF pc \in {"dump", "codegen"} THEN parsed \ {start} ELSE parsed
DefinitionsOf(o) == {d \in Completed : Tok(d) = "def" /\ Tok(d + 1) = "binary" /\ Tok(d + 2) = o}
AskedFor(d) == IF Tok(d + 3) \in Number THEN Halves[Tok(d + 3)] \div 2 ELSE 30

\* What the parser asks the table is what the text says so far: the last definition of an
\* operator decides, from the construct behind it on and not for its own body, over
\* earlier ones and builtins; and if its body failed, there is no such operator until the
\* next (CodeGen.cpp:379, :428).  An extern or a definition that does not parse says nothing.
OperatorsHoldForWhatFollows == \A o \in Char :
    LET last == {d \in DefinitionsOf(o) : \A e \in DefinitionsOf(o) : e <= d}
    IN  /\ DefinitionsOf(o) = {} =>
            GetPrecedence(o) = IF o \in DOMAIN Builtin THEN Builtin[o] ELSE -1
        /\ \A d \in last : GetPrecedence(o) = IF d \in defined THEN AskedFor(d) ELSE -1

\* `--dump-ast: print the AST for each construct` (main.cpp:66).
EveryConstructDumped == dumpAST /\ pc = "loop" => parsed = dumped
=============================================================================
