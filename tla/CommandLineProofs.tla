--------------------------- MODULE CommandLineProofs ---------------------------
(***************************************************************************)
(* The command line, for any number of arguments: the options that main    *)
(* reads are those a reader of the whole line would see in it.             *)
(*                                                                         *)
(* The invariant speaks of the positions read as flags so far.  They are   *)
(* the beginning of the least set that FlagPositions takes as a whole.     *)
(***************************************************************************)
EXTENDS CommandLine, SequenceTheorems, TLAPS

Width(i) == IF argv[i] \in {"-c", "-o"} THEN 2 ELSE 1

\* R is what has been read in front of the next position, and no more than that.
ReadSoFar(R) ==
    /\ R = {} => next = 1
    /\ R # {} => 1 \in R
    /\ \A i \in R : i + Width(i) \in R \cup {next}
    /\ \A S \in SUBSET DOMAIN argv :
         Reads(S) => R \subseteq S /\ next \in S \cup {Len(argv) + 1}

\* Every flag of R is known and has its operand.
Known(R) == \A i \in R : /\ argv[i] \in Flag \ {"-h", "--help"}
                         /\ argv[i] \in {"-c", "-o"} => i < Len(argv)

\* The last of the positions in R that hold a flag, and whether there is one.
Held(R, flag) == \E i \in R : argv[i] = flag
IsLast(R, flag, i) == argv[i] = flag /\ \A j \in R : argv[j] = flag => j <= i

\* The options are those the flags of R set.
Collected(R) ==
    /\ o.compile <=> Held(R, "-c")
    /\ \A i \in R : IsLast(R, "-c", i) => o.input = argv[i + 1]
    /\ ~Held(R, "-o") => o.output = DefaultOutput
    /\ \A i \in R : IsLast(R, "-o", i) => o.output = argv[i + 1]
    /\ o.dumpAST <=> Held(R, "--dump-ast")
    /\ o.emitLLVM <=> Held(R, "--emit-llvm")
    /\ o.debug <=> Held(R, "-g")

\* The options say which flag was read, and with which operand.
SetBy(flag) ==
    /\ o'.compile = (o.compile \/ flag = "-c")
    /\ o'.dumpAST = (o.dumpAST \/ flag = "--dump-ast")
    /\ o'.emitLLVM = (o.emitLLVM \/ flag = "--emit-llvm")
    /\ o'.debug = (o.debug \/ flag = "-g")
    /\ o'.input = IF flag = "-c" THEN argv[next + 1] ELSE o.input
    /\ o'.output = IF flag = "-o" THEN argv[next + 1] ELSE o.output

Finished == outcome \in {"compile", "repl"} => next = Len(argv) + 1 /\ DebugAllowed

CommandLineInv ==
    /\ CommandLineTypeOK
    /\ Finished
    /\ \E R \in SUBSET (1..next - 1) : ReadSoFar(R) /\ Known(R) /\ Collected(R)

-----------------------------------------------------------------------------
LEMMA ArrayIsSequence ==
    ASSUME NEW S, NEW n \in Nat, NEW f \in [1..n -> S]
    PROVE  f \in Seq(S) /\ Len(f) = n
OBVIOUS

LEMMA ArgvFacts ==
    ASSUME argv \in UNION {[1..n -> Argument] : n \in 0..MaxArgs}
    PROVE  /\ Len(argv) \in Nat
           /\ DOMAIN argv = 1..Len(argv)
           /\ \A i \in DOMAIN argv : argv[i] \in Argument
<1>1. PICK n \in 0..MaxArgs : argv \in [1..n -> Argument]
  OBVIOUS
<1>2. MaxArgs \in Nat
  BY CommandLineAssumption, Zenon
<1>3. n \in Nat
  BY <1>2
<1>4. Len(argv) = n
  BY <1>1, <1>3, ArrayIsSequence, Zenon
<1> QED
  BY <1>1, <1>3, <1>4, Zenon

LEMMA InitCommandLine == Init => CommandLineInv
<1> SUFFICES ASSUME Init PROVE CommandLineInv
  OBVIOUS
<1>1. /\ argv \in UNION {[1..n -> Argument] : n \in 0..MaxArgs}
      /\ next = 1 /\ outcome = "reading" /\ Len(argv) \in Nat
  BY ArgvFacts DEF Init
<1>2. o \in Options
  BY DEF Init, Options
<1>3. CommandLineTypeOK
  <2>1. next \in 1..Len(argv) + 1
    BY <1>1
  <2> QED
    BY <1>1, <1>2, <2>1, Zenon DEF CommandLineTypeOK
<1>4. ReadSoFar({}) /\ Known({}) /\ Collected({})
  BY DEF Init, ReadSoFar, Known, Collected, Held, Reads
<1>5. {} \in SUBSET (1..next - 1)
  OBVIOUS
<1>6. Finished
  BY DEF Init, Finished
<1> QED
  BY <1>3, <1>4, <1>5, <1>6 DEF CommandLineInv

\* One more flag is read, with its operand if it has one.
LEMMA ReadOne ==
    ASSUME CommandLineInv, Reading, argv' = argv, outcome' = outcome, o' \in Options,
           Arg \in Flag \ {"-h", "--help"}, next' = next + Width(next), next' <= Len(argv) + 1,
           Arg \in {"-c", "-o"} => next < Len(argv), SetBy(Arg)
    PROVE  CommandLineInv'
<1>1. /\ Len(argv) \in Nat /\ DOMAIN argv = 1..Len(argv)
      /\ next \in 1..Len(argv) /\ Width(next) \in {1, 2}
  <2>1. /\ Len(argv) \in Nat /\ DOMAIN argv = 1..Len(argv)
        /\ next \in 1..Len(argv) + 1 /\ next <= Len(argv)
    BY ArgvFacts DEF CommandLineInv, CommandLineTypeOK, Reading
  <2> QED
    BY <2>1 DEF Width
<1>2. PICK R \in SUBSET (1..next - 1) : ReadSoFar(R) /\ Known(R) /\ Collected(R)
  BY DEF CommandLineInv
<1>3. PICK Q : Q = R \cup {next}
  OBVIOUS
<1>4. CommandLineTypeOK'
  <2>1. next + Width(next) \in 1..Len(argv) + 1
    BY <1>1
  <2> QED
    BY <2>1 DEF CommandLineInv, CommandLineTypeOK
<1>5. Finished'
  BY DEF Reading, Finished
<1>6. Q \in SUBSET (1..next' - 1)
  <2>1. \A n \in Nat : \A w \in {1, 2} : 1..n - 1 \subseteq 1..(n + w) - 1 /\ n <= (n + w) - 1
    OBVIOUS
  <2>2. 1..next - 1 \subseteq 1..next' - 1 /\ next \in 1..next' - 1
    BY <1>1, <2>1
  <2> QED
    BY <1>3, <2>2
<1>7. ReadSoFar(Q)'
  <2>1. 1 \in Q /\ Q # {}
    BY <1>2, <1>3 DEF ReadSoFar
  <2>2. \A i : Width(i)' = Width(i)
    BY DEF Width
  <2>3. \A i \in Q : i + Width(i) \in Q \cup {next + Width(next)}
    BY <1>2, <1>3 DEF ReadSoFar
  <2>4. ASSUME NEW S \in SUBSET DOMAIN argv, Reads(S)
        PROVE  Q \subseteq S /\ next + Width(next) \in S \cup {Len(argv) + 1}
    <3>1. R \subseteq S /\ next \in S
      BY <1>1, <1>2, <2>4 DEF ReadSoFar
    <3> QED
      BY <1>3, <2>4, <3>1 DEF Reads, Width
  <2>5. \A S : Reads(S)' <=> Reads(S)
    BY DEF Reads
  <2>6. (\A i \in Q : i + Width(i) \in Q \cup {next})'
    BY <2>2, <2>3, Zenon
  <2> QED
    BY <2>1, <2>4, <2>5, <2>6 DEF ReadSoFar
<1>8. Known(Q)'
  <2>1. \A i \in Q : /\ argv[i] \in Flag \ {"-h", "--help"}
                     /\ argv[i] \in {"-c", "-o"} => i < Len(argv)
    BY <1>2, <1>3, Zenon DEF Known, Arg
  <2> QED
    BY <2>1 DEF Known
<1>9. Collected(Q)'
  <2>1. \A flag : Held(Q, flag) <=> (Held(R, flag) \/ Arg = flag)
    BY <1>3 DEF Held, Arg
  <2>2. ASSUME NEW flag, NEW i \in Q, IsLast(Q, flag, i)
        PROVE  /\ Arg = flag => i = next
               /\ Arg # flag => i \in R /\ IsLast(R, flag, i)
    <3>1. CASE Arg = flag
      <4>1. next <= i
        BY <1>3, <2>2, <3>1 DEF Arg, IsLast
      <4> QED
        BY <1>1, <1>2, <1>3, <3>1, <4>1
    <3>2. CASE Arg # flag
      BY <1>3, <2>2, <3>2 DEF Arg, IsLast
    <3> QED
      BY <3>1, <3>2
  <2>3. \A i \in Q : IsLast(Q, "-c", i) => o'.input = argv[i + 1]
    BY <1>2, <2>2 DEF SetBy, Collected
  <2>4. \A i \in Q : IsLast(Q, "-o", i) => o'.output = argv[i + 1]
    BY <1>2, <2>2 DEF SetBy, Collected
  <2>5. ~Held(Q, "-o") => o'.output = DefaultOutput
    BY <1>2, <2>1 DEF SetBy, Collected
  <2>6. /\ o'.compile <=> Held(Q, "-c")
        /\ o'.dumpAST <=> Held(Q, "--dump-ast")
        /\ o'.emitLLVM <=> Held(Q, "--emit-llvm")
        /\ o'.debug <=> Held(Q, "-g")
    BY <1>2, <2>1 DEF SetBy, Collected
  <2>7. /\ \A flag : Held(Q, flag)' <=> Held(Q, flag)
        /\ \A flag, i : IsLast(Q, flag, i)' <=> IsLast(Q, flag, i)
    BY DEF Held, IsLast
  <2> QED
    BY <2>3, <2>4, <2>5, <2>6, <2>7, Zenon DEF Collected
<1>10. (\E P \in SUBSET (1..next - 1) : ReadSoFar(P) /\ Known(P) /\ Collected(P))'
  BY <1>6, <1>7, <1>8, <1>9, Zenon
<1> QED
  BY <1>4, <1>5, <1>10, Zenon DEF CommandLineInv

\* A step that reads nothing.
LEMMA ReadNone ==
    ASSUME CommandLineInv, UNCHANGED <<argv, next, o>>,
           outcome' \in {"reading", "compile", "repl", "usage", "error"}, Finished'
    PROVE  CommandLineInv'
<1>1. CommandLineTypeOK'
  BY DEF CommandLineInv, CommandLineTypeOK
<1>2. \A R : /\ ReadSoFar(R)' <=> ReadSoFar(R)
             /\ Known(R)' <=> Known(R)
             /\ Collected(R)' <=> Collected(R)
  BY DEF ReadSoFar, Reads, Width, Known, Collected, Held, IsLast
<1> QED
  BY <1>1, <1>2 DEF CommandLineInv

LEMMA CommandLineStep == CommandLineInv /\ [Next]_vars => CommandLineInv'
<1> SUFFICES ASSUME CommandLineInv, [Next]_vars PROVE CommandLineInv'
  OBVIOUS
<1>1. /\ Len(argv) \in Nat /\ o \in Options
      /\ next \in Nat /\ next <= Len(argv) + 1
      /\ \A i \in 1..Len(argv) : argv[i] \in Argument
  <2>1. /\ Len(argv) \in Nat /\ o \in Options /\ next \in 1..Len(argv) + 1
        /\ \A i \in 1..Len(argv) : argv[i] \in Argument
    BY ArgvFacts DEF CommandLineInv, CommandLineTypeOK
  <2> QED
    BY <2>1
<1>2. CASE Compile
  <2>1. /\ Reading /\ Arg = "-c" /\ next < Len(argv)
        /\ o' = [o EXCEPT !.compile = TRUE, !.input = argv[next + 1]]
        /\ next' = next + 2 /\ argv' = argv /\ outcome' = outcome
    BY <1>2 DEF Compile, HasOperand, Operand, Set
  <2>2. argv[next + 1] \in Argument
    BY <1>1, <2>1
  <2>3. o' \in Options /\ SetBy(Arg)
    BY <1>1, <2>1, <2>2 DEF Options, SetBy
  <2>4. Arg \in Flag \ {"-h", "--help"} /\ Width(next) = 2 /\ next + 2 <= Len(argv) + 1
    BY <1>1, <2>1 DEF Flag, Width, Arg
  <2> QED
    BY <2>1, <2>3, <2>4, ReadOne
<1>3. CASE Output
  <2>1. /\ Reading /\ Arg = "-o" /\ next < Len(argv)
        /\ o' = [o EXCEPT !.output = argv[next + 1]]
        /\ next' = next + 2 /\ argv' = argv /\ outcome' = outcome
    BY <1>3 DEF Output, HasOperand, Operand, Set
  <2>2. argv[next + 1] \in Argument
    BY <1>1, <2>1
  <2>3. o' \in Options /\ SetBy(Arg)
    BY <1>1, <2>1, <2>2 DEF Options, SetBy
  <2>4. Arg \in Flag \ {"-h", "--help"} /\ Width(next) = 2 /\ next + 2 <= Len(argv) + 1
    BY <1>1, <2>1 DEF Flag, Width, Arg
  <2> QED
    BY <2>1, <2>3, <2>4, ReadOne
<1>4. CASE DumpAST
  <2>1. /\ Reading /\ Arg = "--dump-ast" /\ o' = [o EXCEPT !.dumpAST = TRUE]
        /\ next' = next + 1 /\ argv' = argv /\ outcome' = outcome
    BY <1>4 DEF DumpAST, Set
  <2>3. o' \in Options /\ SetBy(Arg)
    BY <1>1, <2>1 DEF Options, SetBy
  <2>4. Arg \in Flag \ {"-h", "--help"} /\ Width(next) = 1 /\ next + 1 <= Len(argv) + 1
    BY <1>1, <2>1 DEF Flag, Width, Arg, Reading
  <2> QED
    BY <2>1, <2>3, <2>4, ReadOne
<1>5. CASE EmitLLVM
  <2>1. /\ Reading /\ Arg = "--emit-llvm" /\ o' = [o EXCEPT !.emitLLVM = TRUE]
        /\ next' = next + 1 /\ argv' = argv /\ outcome' = outcome
    BY <1>5 DEF EmitLLVM, Set
  <2>3. o' \in Options /\ SetBy(Arg)
    BY <1>1, <2>1 DEF Options, SetBy
  <2>4. Arg \in Flag \ {"-h", "--help"} /\ Width(next) = 1 /\ next + 1 <= Len(argv) + 1
    BY <1>1, <2>1 DEF Flag, Width, Arg, Reading
  <2> QED
    BY <2>1, <2>3, <2>4, ReadOne
<1>6. CASE Debug
  <2>1. /\ Reading /\ Arg = "-g" /\ o' = [o EXCEPT !.debug = TRUE]
        /\ next' = next + 1 /\ argv' = argv /\ outcome' = outcome
    BY <1>6 DEF Debug, Set
  <2>3. o' \in Options /\ SetBy(Arg)
    BY <1>1, <2>1 DEF Options, SetBy
  <2>4. Arg \in Flag \ {"-h", "--help"} /\ Width(next) = 1 /\ next + 1 <= Len(argv) + 1
    BY <1>1, <2>1 DEF Flag, Width, Arg, Reading
  <2> QED
    BY <2>1, <2>3, <2>4, ReadOne
<1>7. CASE Help
  BY <1>7, ReadNone DEF Help, Return, Finished
<1>8. CASE Unknown
  BY <1>8, ReadNone DEF Unknown, Return, Finished
<1>9. CASE Run
  <2>1. /\ next = Len(argv) + 1 /\ UNCHANGED <<argv, next, o>>
        /\ outcome' \in {"compile", "repl", "error"}
        /\ outcome' # "error" => DebugAllowed
    BY <1>1, <1>9 DEF Run, Return
  <2>2. Finished'
    BY <2>1 DEF Finished, DebugAllowed
  <2> QED
    BY <2>1, <2>2, ReadNone
<1>10. CASE UNCHANGED vars
  BY <1>10, ReadNone DEF vars, Finished, DebugAllowed, CommandLineInv, CommandLineTypeOK
<1> QED
  BY <1>2, <1>3, <1>4, <1>5, <1>6, <1>7, <1>8, <1>9, <1>10 DEF Next, Stopped

\* The options always are those of the flags read so far.
THEOREM CommandLineInvariant == Spec => []CommandLineInv
BY InitCommandLine, CommandLineStep, PTL DEF Spec

-----------------------------------------------------------------------------
\* The state of the command line keeps its type: no argument is read twice, and an
\* operand is always there.
THEOREM CommandLineTypeCorrect == Spec => []CommandLineTypeOK
<1>1. CommandLineInv => CommandLineTypeOK
  BY DEF CommandLineInv
<1> QED
  BY <1>1, CommandLineInvariant, PTL

\* A driver runs only with the options that the flags of the whole line ask for.
THEOREM OptionsAlwaysFollow == Spec => []OptionsFollowArguments
<1>1. ASSUME CommandLineInv PROVE OptionsFollowArguments
  <2> SUFFICES ASSUME outcome \in {"compile", "repl"} PROVE OptionsFollowArguments
    BY DEF OptionsFollowArguments
  <2>1. next = Len(argv) + 1 /\ DebugAllowed /\ Len(argv) \in Nat /\ DOMAIN argv = 1..Len(argv)
    BY <1>1, ArgvFacts DEF CommandLineInv, CommandLineTypeOK, Finished
  <2>2. PICK R \in SUBSET (1..next - 1) : ReadSoFar(R) /\ Known(R) /\ Collected(R)
    BY <1>1 DEF CommandLineInv
  <2>3. R \subseteq DOMAIN argv
    BY <2>1
  <2>4. R = FlagPositions
    <3>1. ASSUME DOMAIN argv # {} PROVE Reads(R)
      <4>1. R # {}
        BY <2>1, <2>2, <3>1 DEF ReadSoFar
      <4>2. \A i \in R : i + Width(i) \in R \cup {Len(argv) + 1}
        BY <2>1, <2>2 DEF ReadSoFar
      <4> QED
        BY <2>2, <4>1, <4>2 DEF ReadSoFar, Reads, Width
    <3>2. FlagPositions \subseteq R
      BY <2>3, <3>1 DEF FlagPositions
    <3>3. R \subseteq FlagPositions
      BY <2>2, <2>3 DEF FlagPositions, ReadSoFar
    <3> QED
      BY <3>2, <3>3
  <2> DEFINE Given(flag) == {i \in FlagPositions : argv[i] = flag}
             LastOf(flag) == {i \in Given(flag) : \A j \in Given(flag) : j <= i}
  <2>5. /\ \A flag : Given(flag) # {} <=> Held(R, flag)
        /\ \A flag : \A i \in LastOf(flag) : i \in R /\ IsLast(R, flag, i)
    BY <2>4 DEF Held, IsLast
  <2>6. /\ \A i \in FlagPositions : argv[i] \in Flag \ {"-h", "--help"}
        /\ \A i \in Given("-c") \cup Given("-o") : i < Len(argv)
    BY <2>2, <2>4 DEF Known
  <2>7. /\ o.compile <=> Given("-c") # {}
        /\ \A i \in LastOf("-c") : o.input = argv[i + 1]
        /\ Given("-o") = {} => o.output = DefaultOutput
        /\ \A i \in LastOf("-o") : o.output = argv[i + 1]
        /\ o.dumpAST <=> Given("--dump-ast") # {}
        /\ o.emitLLVM <=> Given("--emit-llvm") # {}
        /\ o.debug <=> Given("-g") # {}
    <3> HIDE DEF Given, LastOf
    <3> QED
      BY <2>2, <2>5 DEF Collected
  <2>8. o.debug <=> o.compile /\ Given("-g") # {}
    BY <2>1, <2>7 DEF DebugAllowed
  <2> QED
    BY <2>6, <2>7, <2>8 DEF OptionsFollowArguments
<1> QED
  BY <1>1, CommandLineInvariant, PTL
=============================================================================
