------------------------------- MODULE Compile -------------------------------
(***************************************************************************)
(* The object-file driver (runCompile, src/src/main.cpp): one module for   *)
(* the whole file, a top-level expression that becomes main, and an object *)
(* file written at the end if nothing was rejected.                        *)
(*                                                                         *)
(* The file is a number of tokens.  What the next construct is, how many   *)
(* tokens its parse takes and whether the lexer complains about one of     *)
(* them are chosen as the loop goes.                                       *)
(***************************************************************************)
EXTENDS CodeGen

CONSTANT MaxTokens  \* bound: tokens of the file

\* "main" is an identifier like any other.
ASSUME CompileNames == TopName \in Ident
ASSUME MaxTokensAssumption == MaxTokens \in Nat

VARIABLES
    pc,
    left,       \* tokens not consumed yet, the current one included
    turn,       \* parity of the iterations, so that each of them is a step
    lexError,   \* Lexer::hadError()
    sawTopLevel,
    failed,
    obj,        \* the output file
    status,     \* exit status of the process
    rejected,   \* history: constructs of the file that are not in the module
    tops        \* history: top-level expressions accepted

vars == <<mod, protos, ops, cur, dangling, pc, left, turn, lexError, sawTopLevel,
          failed, obj, status, rejected, tops>>

Pc     == {"open", "ready", "codegen", "finish", "emit", "exit"}
Output == {"untouched", "truncated", "partial", "complete"}
Status == {"none", "0", "1", "crash"}

CompileTypeOK ==
    /\ CodeGenTypeOK
    /\ pc \in Pc
    /\ left \in 0..MaxTokens
    /\ turn \in BOOLEAN
    /\ lexError \in BOOLEAN
    /\ sawTopLevel \in BOOLEAN
    /\ failed \in BOOLEAN
    /\ obj \in Output
    /\ status \in Status
    /\ rejected \in BOOLEAN
    /\ tops \in Nat

Init == /\ CodeGenInit
        /\ pc = "open"
        /\ left \in 0..MaxTokens
        /\ turn = FALSE
        /\ lexError = FALSE
        /\ sawTopLevel = FALSE
        /\ failed = FALSE
        /\ obj = "untouched"
        /\ status = "none"
        /\ rejected = FALSE
        /\ tops = 0

-----------------------------------------------------------------------------
\* Consuming tokens lexes the ones behind them, any of which may be rejected
\* though it still lexes to a value; the end of the file is not.
Consume(k) ==
    /\ left' = k
    /\ turn' = ~turn
    /\ lexError' \in {lexError} \cup (IF k > 0 \/ left > 1 THEN {TRUE} ELSE {})

EmitUnchanged == UNCHANGED <<obj, status>>
Exit(s) == pc' = "exit" /\ status' = s

\* The target exists, the file opens and the parser reads the first token; or the
\* driver ends before it has begun.
Open ==
    /\ pc = "open"
    /\ \/ /\ pc' = "ready"
          /\ lexError' \in (IF left = 0 THEN {FALSE} ELSE BOOLEAN)
          /\ UNCHANGED status
       \/ Exit("1") /\ UNCHANGED lexError
    /\ UNCHANGED <<cgVars, left, turn, sawTopLevel, failed, obj, rejected, tops>>

ReadSemicolon ==
    /\ pc = "ready"
    /\ left > 0
    /\ Consume(left - 1)
    /\ UNCHANGED <<cgVars, pc, sawTopLevel, failed, rejected, tops>>
    /\ EmitUnchanged

ReadDef == \E n \in UserName, k \in 0..left : \E ps \in ParamsOf(n) :
    /\ pc = "ready"
    /\ k < left
    /\ Consume(k)
    /\ Begin(n, ps, "def")
    /\ pc' = "codegen"
    /\ UNCHANGED <<sawTopLevel, failed, rejected, tops>>
    /\ EmitUnchanged

ReadExtern == \E n \in UserName, k \in 0..left : \E ps \in ParamsOf(n) :
    /\ pc = "ready"
    /\ k < left
    /\ Consume(k)
    /\ Extern(n, ps)
    /\ UNCHANGED <<pc, sawTopLevel, failed, rejected, tops>>
    /\ EmitUnchanged

ReadTop == \E k \in 0..left :
    /\ pc = "ready"
    /\ k < left
    /\ ~sawTopLevel
    /\ Consume(k)
    /\ Begin(TopName, <<>>, "top")
    /\ pc' = "codegen"
    /\ UNCHANGED <<sawTopLevel, failed, rejected, tops>>
    /\ EmitUnchanged

\* The forms named Slip... are faults the properties below are tried against; no
\* action uses them.
SlipAcceptedAnyway == rejected' = TRUE /\ UNCHANGED failed
Reject == failed' = TRUE /\ rejected' = TRUE

\* A second expression is not parsed: the loop ends where it starts.
SecondTop ==
    /\ pc = "ready"
    /\ left > 0
    /\ sawTopLevel
    /\ Reject
    /\ pc' = "finish"
    /\ UNCHANGED <<cgVars, left, turn, lexError, sawTopLevel, tops>>
    /\ EmitUnchanged

\* P.advance() with k tokens left: at the end of the file it stays there.
SlipNoAdvance(k)  == k
SlipPastTheEnd(k) == k - 1
Advance(k) == IF k = 0 THEN 0 ELSE k - 1

\* A construct that does not parse.  The parse of an expression may stop at its
\* first token, one of a def or an extern has taken the keyword; the loop then
\* drops a token.
ParseError == \E k \in 0..left :
    /\ pc = "ready"
    /\ left > 0
    /\ k = left => ~sawTopLevel
    /\ Consume(Advance(k))
    /\ Reject
    /\ UNCHANGED <<cgVars, pc, sawTopLevel, tops>>
    /\ EmitUnchanged

-----------------------------------------------------------------------------
GenBody ==
    /\ pc = "codegen"
    /\ Visit
    /\ UNCHANGED <<pc, left, turn, lexError, sawTopLevel, failed, rejected, tops>>
    /\ EmitUnchanged

SlipForgotten == UNCHANGED sawTopLevel
NoteTopLevel == sawTopLevel' = (sawTopLevel \/ cur.kind = "top")

GenOk ==
    /\ pc = "codegen"
    /\ FinishOk
    /\ pc' = "ready"
    /\ NoteTopLevel
    /\ tops' = IF cur.kind = "top" THEN tops + 1 ELSE tops
    /\ UNCHANGED <<left, turn, lexError, failed, rejected>>
    /\ EmitUnchanged

GenFail ==
    /\ pc = "codegen"
    /\ FinishFail
    /\ pc' = "ready"
    /\ Reject
    /\ UNCHANGED <<left, turn, lexError, sawTopLevel, tops>>
    /\ EmitUnchanged

EndOfFile ==
    /\ pc = "ready"
    /\ left = 0
    /\ pc' = "finish"
    /\ UNCHANGED <<cgVars, left, turn, lexError, sawTopLevel, failed, rejected, tops>>
    /\ EmitUnchanged

-----------------------------------------------------------------------------
RestUnchanged == UNCHANGED <<cgVars, left, turn, lexError, sawTopLevel, rejected, tops>>

SlipLexerNotAsked == failed
Failed == failed \/ lexError

Finish ==
    /\ pc = "finish"
    /\ failed' = Failed
    /\ IF failed' THEN Exit("1") ELSE pc' = "emit" /\ UNCHANGED status
    /\ UNCHANGED obj
    /\ RestUnchanged

SlipUnchecked == "0"
EmitFailed == "1"

\* ObjectEmitter::emit: the file may not open; once open it is empty, and stays so
\* if the target cannot emit; a failed write ends the process with status 1 when the
\* stream is destroyed.
Emit ==
    /\ pc = "emit"
    /\ \/ obj' = "complete" /\ Exit("0")
       \/ obj' = "untouched" /\ Exit(EmitFailed)
       \/ obj' = "truncated" /\ Exit(EmitFailed)
       \/ obj' = "partial" /\ Exit("1")
    /\ UNCHANGED failed
    /\ RestUnchanged

\* Undefined behaviour: a call of an erased function is followed when the module is
\* printed or destroyed, or refused by an assertion of LLVM when it is erased.
Crash ==
    /\ dangling
    /\ pc # "exit"
    /\ Exit("crash")
    /\ UNCHANGED <<obj, failed>>
    /\ RestUnchanged

Stopped == pc = "exit" /\ UNCHANGED vars

Next == \/ Open
        \/ ReadSemicolon \/ ReadDef \/ ReadExtern \/ ReadTop \/ SecondTop
        \/ ParseError \/ EndOfFile
        \/ GenBody \/ GenOk \/ GenFail
        \/ Finish \/ Emit \/ Crash
        \/ Stopped

Spec == Init /\ [][Next]_vars

\* A single thread that runs to its end.  The visits of a body end because its
\* tree is finite; here, because each that changes something adds a declaration,
\* a call or the failure.
FairSpec == Spec /\ WF_vars(Next)

-----------------------------------------------------------------------------
\* The output file is touched only if every construct of the file is in the
\* module, the lexer rejected none of its tokens (bad-number.ks), and, however
\* failures and definitions interleave, main has at most one top-level expression.
OutputOnlyIfAccepted == obj # "untouched" => ~rejected /\ ~lexError /\ tops <= 1

\* A function is erased while another one calls it only in a run that has failed,
\* and the module that is emitted has every function its code calls, with the
\* right arity.
EmittedModuleIsSound ==
    pc = "emit" \/ obj = "complete" =>
        /\ ~dangling
        /\ \A n \in DOMAIN mod : CallsResolve(mod[n].calls)

\* The process reports success exactly when it leaves a complete object.
StatusTellsOutput == pc = "exit" => (status = "0" <=> obj = "complete")

\* Between constructs, every operator the parser accepts has a function with a
\* body in the module, though a failed definition erases both.
OperatorsDefined ==
    pc = "ready" => \A o \in ops \ Builtin : BinaryName(o) \in Defined(mod)

\* Whatever the file holds, the loop reaches its end: error recovery drops a token
\* when the parse has taken none.
Terminates == <>(pc = "exit")

\* toplevel-main.ks:1, ARCHITECTURE.md:125: the expression of a file that compiles
\* is what main runs.
TopLevelIsMain ==
    obj = "complete" /\ sawTopLevel =>
        TopName \in DOMAIN mod /\ mod[TopName].entry = "top"
=============================================================================
