------------------------------ MODULE CommandLine ------------------------------
(***************************************************************************)
(* main (src/src/main.cpp): the arguments, read from left to right into    *)
(* the Options that choose the driver.  An argument is a flag or a file    *)
(* name; which of them it is taken for depends on the one before it, so a  *)
(* flag can be the operand of another one.                                 *)
(***************************************************************************)
EXTENDS Naturals, Sequences

CONSTANTS
    File,       \* arguments that are no flags
    MaxArgs     \* bound: arguments of a call

Flag == {"-c", "-o", "-g", "--dump-ast", "--emit-llvm", "-h", "--help"}
Argument == Flag \cup File
DefaultOutput == "output.o"

ASSUME CommandLineAssumption ==
    /\ MaxArgs \in Nat
    /\ File \cap (Flag \cup {"", "NULL"}) = {}

VARIABLES
    argv,       \* the arguments, without the name of the program
    next,       \* position of the one that is read next
    o,          \* Options
    outcome     \* "reading", the driver that runs, or how main returned

vars == <<argv, next, o, outcome>>

Options == [compile : BOOLEAN, debug : BOOLEAN, dumpAST : BOOLEAN, emitLLVM : BOOLEAN,
            input : Argument \cup {""}, output : Argument \cup {DefaultOutput}]

CommandLineTypeOK ==
    /\ argv \in UNION {[1..n -> Argument] : n \in 0..MaxArgs}
    /\ next \in 1..Len(argv) + 1
    /\ o \in Options
    /\ outcome \in {"reading", "compile", "repl", "usage", "error"}

Init == /\ argv \in UNION {[1..n -> Argument] : n \in 0..MaxArgs}
        /\ next = 1
        /\ o = [compile |-> FALSE, debug |-> FALSE, dumpAST |-> FALSE, emitLLVM |-> FALSE,
                input |-> "", output |-> DefaultOutput]
        /\ outcome = "reading"

-----------------------------------------------------------------------------
\* The forms named Slip... are faults the properties below are tried against; no
\* action uses them.
Reading == outcome = "reading" /\ next <= Len(argv)
Arg     == argv[next]

\* argv[I + 1]; argv[argc] is null.
Operand == IF next < Len(argv) THEN argv[next + 1] ELSE "NULL"
SlipNotCounted == TRUE
HasOperand == next < Len(argv)

Set(options, n) == o' = options /\ next' = next + n /\ UNCHANGED <<argv, outcome>>

Compile  == /\ Reading /\ Arg = "-c" /\ HasOperand
            /\ Set([o EXCEPT !.compile = TRUE, !.input = Operand], 2)
Output   == Reading /\ Arg = "-o" /\ HasOperand /\ Set([o EXCEPT !.output = Operand], 2)
DumpAST  == Reading /\ Arg = "--dump-ast" /\ Set([o EXCEPT !.dumpAST = TRUE], 1)
EmitLLVM == Reading /\ Arg = "--emit-llvm" /\ Set([o EXCEPT !.emitLLVM = TRUE], 1)
Debug    == Reading /\ Arg = "-g" /\ Set([o EXCEPT !.debug = TRUE], 1)

Return(r) == outcome' = r /\ UNCHANGED <<argv, next, o>>

Help    == Reading /\ Arg \in {"-h", "--help"} /\ Return("usage")
Unknown == /\ Reading
           /\ Arg \in File \/ (Arg \in {"-c", "-o"} /\ ~HasOperand)
           /\ Return("error")

\* The test comes behind the loop: -g may stand before -c.
SlipNoTest == TRUE
DebugAllowed == o.debug => o.compile

Run == /\ outcome = "reading"
       /\ next > Len(argv)
       /\ Return(IF ~DebugAllowed THEN "error" ELSE IF o.compile THEN "compile" ELSE "repl")

Stopped == outcome # "reading" /\ UNCHANGED vars

Next == \/ Compile \/ Output \/ DumpAST \/ EmitLLVM \/ Debug \/ Help \/ Unknown
        \/ Run \/ Stopped

Spec == Init /\ [][Next]_vars

-----------------------------------------------------------------------------
\* A position is read as a flag if it is the first, or follows a flag without
\* operand or the operand of a flag: the least set closed under these.
Reads(S) ==
    /\ 1 \in S
    /\ \A i \in S : i + (IF argv[i] \in {"-c", "-o"} THEN 2 ELSE 1) \in S \cup {Len(argv) + 1}
FlagPositions ==
    {i \in DOMAIN argv : \A S \in SUBSET DOMAIN argv : Reads(S) => i \in S}

\* A driver runs only if every argument was a flag it knows or the operand of one, and
\* with the options those say: the file that is compiled and the one that is written are
\* the operands of the last -c and of the last -o, which may look like flags themselves;
\* each of the others is on exactly if its flag is there, in whatever order they come; and
\* there is no debug information without a file (g-requires-c.ks).
OptionsFollowArguments == outcome \in {"compile", "repl"} =>
    LET Given(flag) == {i \in FlagPositions : argv[i] = flag}
        LastOf(flag) == {i \in Given(flag) : \A j \in Given(flag) : j <= i}
    IN  /\ \A i \in FlagPositions : argv[i] \in Flag \ {"-h", "--help"}
        /\ \A i \in Given("-c") \cup Given("-o") : i < Len(argv)
        /\ o.compile <=> Given("-c") # {}
        /\ \A i \in LastOf("-c") : o.input = argv[i + 1]
        /\ Given("-o") = {} => o.output = DefaultOutput
        /\ \A i \in LastOf("-o") : o.output = argv[i + 1]
        /\ o.dumpAST <=> Given("--dump-ast") # {}
        /\ o.emitLLVM <=> Given("--emit-llvm") # {}
        /\ o.debug <=> o.compile /\ Given("-g") # {}

\* Options (main.cpp:52): -g implies -c.
DebugImpliesCompile == outcome # "reading" /\ o.debug => o.compile
=============================================================================
