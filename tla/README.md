# A verification project for the Kaleidoscope compiler

Kaleidoscope is the language of the LLVM tutorial. The program of this repository reads it in two ways: as an
interactive session (`kaleidoscope`), where each definition is handed to a JIT and each expression is run at once,
and as a file (`kaleidoscope -c f.ks`), which becomes one object file. Both share a lexer, a parser, an operator
table and a code generator, whose state is carried from one construct to the next. This directory models that
state and what the two drivers do to it.

Paths below are relative to the repository root (`src/main.cpp`, `include/CodeGen.h`, ...).

## 1. Inventory

| Part | Files | State it keeps | Operations |
|---|---|---|---|
| Lexer | `src/Lexer.cpp`, `include/Lexer.h` | one character of lookahead, its location, the location of the token, the text and value of the last token, `HadError` | `gettok`, `advance` |
| Parser | `src/Parser.cpp`, `include/Parser.h` | one token of lookahead | `parseDefinition`, `parseExtern`, `parseTopLevelExpr`, `advance` |
| Operator table | `include/OperatorTable.h` | precedence by character | `getPrecedence`, `setPrecedence`, `erase` |
| AST, visitor | `include/AST.h`, `include/ASTVisitor.h` | trees that do not change | `visit` |
| AST dumper | `src/ASTDumper.cpp` | the indentation | `dump`, a visitor per expression |
| Code generator | `src/CodeGen.cpp`, `include/CodeGen.h` | the LLVM module, `FunctionProtos`, `NamedValues`, the insertion point | `codegen` of a function or a prototype, `addPrototype`, `initModule`, `takeModule`, a visitor per expression |
| JIT | `include/KaleidoscopeJIT.h` (vendored) | the main dylib, resource trackers | `addModule`, `lookup`, removal of a tracker |
| Interactive driver | `runInteractive`, `src/main.cpp` | the IR shown at the end | its loop |
| Object-file driver | `runCompile`, `src/main.cpp` | `SawTopLevel`, `Failed` | its loop |
| Object emitter | `src/ObjectEmitter.cpp` | the output file | `emit` |
| Debug information | `src/DebugInfo.cpp` | a stack of scopes | `emitLocation`, `createFunction`, ... |
| Command line | `main`, `src/main.cpp` | `Options` | the argument loop |

### How they interact

The parser pulls tokens from the lexer, always one ahead. A driver looks at the current token, asks the parser for
one construct and passes the tree to the code generator. Parser and code generator share the operator table: the
code generator writes it when a `binary` operator is defined, the parser reads it with the next construct.
Prototypes outlive modules: the interactive driver gives each module away, so a call of an earlier definition is
generated from its prototype alone, and the JIT links the two when an expression is looked up.

Everything runs in one thread. What is hard here is not concurrency but *sequence and failure*: a construct may
fail after it has already changed shared state, and the session, or the file, goes on with what is left.

### What makes each part correct

- **Interactive driver, JIT.** A definition is there for all later expressions; an expression leaves nothing
  behind, so the next one is not refused as a duplicate; a lookup only reaches linked code; nothing that was
  generated is missing in the dump at the end.
- **Object-file driver, emitter.** An output only if nothing was rejected, by lexer, parser or code generator; one
  top-level expression; an exit status that tells whether there is an object; every file is read to its end.
- **Code generator.** Every call is to a function of the same module with the right number of arguments; an operator
  the parser accepts has a function; names are lexically scoped; the blocks form a well-formed function; a failure
  anywhere in a body fails the function.
- **Lexer.** Every character outside white space and comments is in exactly one token; locations are exact;
  `HadError` is exact; every call returns.
- **Command line.** Every argument is used as a flag or the operand of one, and the options are those it says.
- **Parser.** A tree spells the tokens it was made from, by the grammar, and groups them by precedence; what is printed
  from a tree is read as that tree; an operator binds as the definitions in front of it ask; an error is reported once, and leaves the loop of the driver with fewer tokens and every later
  definition.
- **AST dumper.** What it prints can be read as the tree; the indentation is back at its place for the next one.
- **Debug information.** An instruction has a location of its own expression, in the scope of its own function.

### Hard behaviours

`PROJECT.json` lists them with their lines under `hazards`. The main groups:

- a definition that fails after its prototype and its operator were recorded (`src/CodeGen.cpp:372`, `:424`, `:427`);
- an earlier declaration or body of the same name in the module (`src/CodeGen.cpp:70`, `:381`);
- the order of capture, hand-over, lookup and removal in the interactive loop (`src/main.cpp:131` to `:176`);
- the verdict of the object-file driver, collected from three places and over many constructs (`src/main.cpp:250`, `:292`);
- lookahead across comments, line ends and the end of the input (`src/Lexer.cpp`);
- precedence climbing, one token ahead, with a table that changes between constructs (`src/Parser.cpp:273`, `:344`,
  `src/CodeGen.cpp:379`), and what error recovery drops (`src/main.cpp:252`);
- locations that are kept in one place for all instructions (`src/CodeGen.cpp:127`, `:342`, `:391`);
- scopes and blocks when expressions nest and parts of them fail (`src/CodeGen.cpp:146`, `:221`, `:283`, `:351`).

There are no threads, messages, timeouts or persisted states, hence no hazards of those kinds.

## 2. Modules

```
CodeGen ──┬── Repl ──────── implements ── Session      Lexer
          │     └ MCRepl, ReplProofs                     └ MCLexer, LexerProofs
          ├── Compile                                  Lowering
          │     └ MCCompile, CompileProofs               └ MCLowering, LoweringProofs
          └── CodeGenProofs (extended by both proofs)  CommandLine
                                                         └ CommandLineProofs

OperatorTable ── Parser ── Grammar ── ASTDumper ── Frontend ── implements ── Reader
                                                     └ MCFrontend, FrontendProofs ── TreeProofs
```

There are two views of the drivers. `Repl` and `Compile` follow the state code generation carries from construct to construct,
and choose freely what the parser returns. `Frontend` has the real parser, the operator table with its
precedences and the dumper, and chooses freely whether code generation succeeds.

### CodeGen: the module under construction

`mod` is the LLVM module (per function: its parameters, what its first entry block was generated from, and the calls
of its code), `protos` is `FunctionProtos`, `ops` the keys of the operator table, `cur` the function being generated.
`Begin` is `codegen(FunctionAST &)` up to the body, `Visit` one step of the body, `FinishOk` and `FinishFail` the two
ways it ends, `Extern` is `codegen(PrototypeAST &)` with the `addPrototype` both drivers call behind it.

The instructions of a body are abstracted to what can be seen later: which functions are called with how many
arguments, and whether some part has failed. A body is a sequence of visits chosen freely, and a failing one does not
end it, as `visitBinary` visits its right operand although the left one was null. `dangling` records that a function
was erased while another one called it, which is undefined behaviour in LLVM.

Abstractions: calls that the optimiser deletes are kept, so the model may see a dangling call where the
program has none left; a declaration that LLVM renames (`f.1`, an `extern` of a name that is taken) is left out, as no name
refers to it; parameter lists do not repeat a variable; of the operator table, only whether a character has an entry.
`initModule` drops the module; in `Repl` it is part of `HandOff`. Which precedence an entry has is in `OperatorTable`.

### Repl and Session: the interactive driver

`pc` is the place in the loop. `ReadDef`, `ReadTop` and `ReadExtern` are the cases of the switch with a construct that
parsed (one that does not changes nothing modelled). `HandOff` is `captureModuleIR`, `addModule` and `initModule`;
`jit` is the main dylib, `tracked` the resource tracker of the expression, `allIR` is `AllIR`. `Lookup` defines the
symbols of the process that are needed, as the generator of the dylib does, and `Evaluate` is the call and
`RT->remove()`. ORC links lazily: what an expression needs is everything its code reaches. `ExitOnErr` ends the process;
`Duplicate` and `LookupFails` are the two errors that can reach it.

`Session` is what this promises: an environment that only grows, and expressions that run, one at a time, code whose
every callee is in the environment. `Repl!ImplementsSession` is the refinement: the environment is the dylib without the
expression, and what runs is what the expression reaches between lookup and removal.

`allIR` is kept as the names of the functions in it, and `DumpComplete` is about these: which of several modules with a
function of one name was dumped, it does not tell. (A failed redefinition adds no body, and a second one that succeeds ends the session.)

What is called at run time with a wrong number of arguments (a function redeclared by an `extern` with other
parameters) is not modelled: the definitions of `Repl` say which code is linked, not what it computes.

### Compile: the object-file driver

Adds to `CodeGen` the loop of `runCompile`. The file is a number of tokens; how many the next construct takes, and whether
the lexer complains about any of them, is chosen when it is read. (A token of the model may stand for several, since no
construct of the model needs more than one.) `ParseError` is a construct that does not parse, with the token its
recovery drops; `SecondTop` the break on a second expression; `Finish` the question to the lexer and the verdict; `Emit`
the outcomes of `ObjectEmitter::emit`; `Crash` the undefined behaviour behind `dangling`, at any later point. `rejected`
and `tops` are history: what really happened, against the flags the code keeps.

### Lexer

One step per character. `last` is `LastChar`, `next` the position of the stream, `lexLoc` and `curLoc` the two
locations, `where` the place in `gettok()`. `run` stands for `IdentifierStr` and `NumStr`. `tokens` and `at` are history.
`Strtod` is what the library function parses of `[0-9.]+`. White space is a blank and the two line ends; keywords are those
words the configuration gives. Repeated reads behind the end of the input, which count columns nobody sees, are left out
but for the first.

### Lowering

The visitors of `CodeGen` inside one body, on an explicit stack of frames. `named` is `NamedValues` (each alloca a number),
`cfg` the blocks with their terminators, edges, phi nodes and uses of values, `cur` the insertion point. The
tree is not built first: each visit chooses its form when it starts, so all trees up to `MaxNodes` inner nodes are
covered. `nulls`, `doubled` and `line` are history. `named` keeps its value from one function to the next, and `Begin` starts
from it as the code does.

`loc` is the current location of the Builder under `-g` (without it the visitors do the same, but for these calls). A
location is kept as far as the properties need it: whether it is one of this function's, how deep the innermost
visit in progress is whose expression it points into, and whether it is that of this expression itself. A visit that ends
leaves the location inside of the ones around it; a function that ends leaves it in a scope that is no longer current.
The alloca a `for` or `var` creates is not placed by the Builder and not counted.

### OperatorTable and Parser

`table` is `Precedence`. `Parser` is the recursive descent on an explicit stack: a frame is a function that waits for
`parseExpression` or `parseUnary`, with the locals it needs afterwards (`min` is `ExprPrec`, `op` the operator a `parseBinOpRHS`
has taken). An action is a function from one such call to the next, with every token it takes in between; `ret` is what the
last one returned. `parsePrototype` waits for nothing and is an operator, `Prototype`. `ast` holds the nodes of the
current construct, the children before the parents, and `said` counts its diagnostics.

The text is a sequence of tokens and `pos` the one the parser looks at. A position stands for what the lexer knows of that token:
its location, its text, its value; so a node that took a name one token late names the wrong position. Number values are counted in
halves, which is enough to see the truncation of a precedence. `from` and `to` in a node say which tokens it was
built from and serve the properties only. The node of a variable that becomes the destination of `=` stays in `ast`,
though the code frees it.

### Grammar

What the trees should be, written without regard to how the parser works: `Rule` has, for each kind of node, the words and parts
it is made of; `Spells` says that tokens are such a sequence. The rules are those of the comments in `src/Parser.cpp`,
but follow the code where it differs from them: arguments of a call are separated by commas (`:71` to `:76`; the comment at `:51`
has `expression*`), the names in the prototype of a binary operator are not (`:355` to `:359`; `:305` has
`(id, id)`), the destination of `=` is a variable (`:281`), and any character but `(` and `,` may be a unary operator (`:243`). That a precedence is 1 to 100 (`:344`) is no matter of spelling and in `ParserTypeOK`.

### ASTDumper

The visitor on a stack. `lines` is the output, a line being its indentation and the node it prints (or a caption). `PartsRead` is the
tree a reader would make of the indentation, and the property compares it with the real one.

### Frontend and Reader

The loops of `runInteractive` and `runCompile`, which differ here in two places: a second expression, and the dump of
an extern. `Begin` is a case of the switch, `Parse` a step of the parser, `Recover` the `advance()` behind a failed parse,
`Accept` and `PrintTree` the dump, `Generate` and `Declare` what code generation does to the loop and to the operator
table. Whether it succeeds is open, so both ways the table goes on are followed. `begun`, `dropped`, `parsed`, `dumped`
and `defined` (the definitions of an operator whose body was generated) are history: with `defined`,
`OperatorsHoldForWhatFollows` can say from the text alone what the table should have, and is about when an entry is made, which
`GroupsByPrecedence`, reading the same table as the parser, is not. Left out here and kept in `Repl`: an interactive session also ends when a function is defined a second time.

`Reader` is what such a loop promises about its input: construct after construct, each at least one token, until
there are none left, or no further expression is accepted. `Frontend!ImplementsReader` is the refinement, with
its liveness. `Compile` chooses how many tokens a construct takes within the same rules.

### CommandLine

`main`: one action per branch of the argument loop, and `Run` for what comes behind it.

### Slip definitions

Definitions called `Slip...` are plausible faults: a dropped guard, a missing reset, an off-by-one. No action uses
them. Each property is tried against one of them (`mutants` in `PROJECT.json`), put in the place of the definition it
resembles, and is violated then: this shows that the property depends on the code and not on the shape of the model.

## 3. Runs

| Run | Shows | Bounds |
|---|---|---|
| `repl_functions` | types; calls resolve; expressions are never duplicates; JIT'd code calls only what has a prototype; the dump is complete; an erasure never leaves a dangling call; definitions are permanent; the session is implemented | a function and a symbol of the process, both of which can be defined, declared and called; 0 to 2 parameters; 1 call per body |
| `repl_operators` | between constructs, an accepted operator has a function in the JIT | a builtin and a user operator, a function |
| `repl_callable` | *fails*: a failed redefinition makes an earlier function uncallable | one function |
| `compile` | types; calls resolve; an output only if all was accepted, with at most one top-level expression; an emitted module is sound; the status tells the output; between constructs, an accepted operator has a body; the loop ends | `main`, a builtin, a user and a unary operator; 0 to 2 parameters; 1 call per body; 4 tokens |
| `compile_main` | *fails*: with a `def main` in the file, the expression is not what `main` runs | `main` |
| `lexer_tokens` | types; every character once; maximal tokens; exact locations; exact `hadError`; every call returns | all texts of up to 5 characters over two letters, a digit, a point, an operator, `#`, blank, `\n`, `\r` |
| `command_line` | types; all options, and the file, follow the arguments, and no debug information without a file | up to 4 arguments, two files |
| `command_line_debug` | *fails*: `-g` does not imply `-c` | up to 2 arguments |
| `lowering` | types; `NamedValues` is lexical; a failure reaches the top; one terminator per block; phi nodes match the branches; values dominate their uses; an instruction has a location of its expression and function | two variables; `var` of one, two, and two equal names; calls of no or one operand; 3 inner nodes; any number of functions in a row |
| `lowering_lines` | *fails*: an instruction of a loop has the location of the `for` | the same |
| `frontend` | types; trees match the tokens by the grammar; operators group by precedence; one diagnostic per error; no `def` or `extern` is skipped; an operator is what the definitions in front ask; a construct printed from a tree is read as that tree; a dump shows the tree; the reader is implemented | 9,000 texts, each with both drivers and each verdict of code generation |
| `frontend_dump` | *fails*: `--dump-ast` prints every construct | the same, with `-c` |

Why the bounds are enough:

- *One call per body, two names.* The hazards of the drivers need a caller, a callee and a definition that fails between
  them. With two names each can take each part, also a function that calls itself and a mutual call through a later
  definition. The number of constructs in a session is not bounded at all: the state is finite.
- *Tokens of a file.* Four constructs are a declaration, a caller, a failing redefinition and an expression, the longest
  sequence that distinguishes the outcomes. More of them are covered by the proofs.
- *Texts of five characters* have a comment that ends in either line end with a token on both sides, `\r\n`, numbers with
  two points, and a keyword within a longer word. Seven calls are more than they have tokens.
- *Three inner nodes* have an `if` in a branch of an `if` in a `for`, and a `var` in a `for` over the same variable. Two
  would suffice for the phi nodes.

- *The texts* of `frontend` (module `MCFrontend`): constructs printed from trees of three levels, each kind of expression with each
  kind of part in each place and each optional part present and absent, in parentheses only where these are needed or
  everywhere; definitions and externs with each kind of prototype; operations behind one or two definitions of an operator,
  where parentheses are left out by its new precedence; eight examples with each token dropped, replaced by each of 20 tokens, or one
  put in, followed by nothing or by a definition and an extern, so that recovery has something to lose; all expressions of three operands
  with simple, unary, parenthesised, called and `if` operands and three operators, and of four with all six operators, the longest
  in which an operator can be taken by the wrong one of two pending loops; and the definition of an operator (new, builtin, `=`, or `)`)
  with no precedence, 1, 5.5, 0 or 101, in front of expressions that use it, or its `extern`. `ReadsBack` is about the printed ones;
  which texts are printed does not come from the parser, and two trees never print the same (`UnambiguousAssumption`).

`CHECK_DEADLOCK` stays on in every run; where the program has ended, a `Stopped` action says so.

### Fairness

- `Compile!FairSpec` has weak fairness of `Next`: one thread that runs until the process ends. Nothing weaker or finer is
  needed, since the loop waits for nobody. The visits of a body end since a tree is finite; in the model, since every
  visit that changes the state adds a declaration, a call or the failure.
- `Lexer!Spec` has weak fairness of `Step`, the steps of a call that has begun. There is none of `Call`: whether there is
  another call is up to the parser.
- `Frontend!Spec` has weak fairness of `Next`, as `Compile` has, and for the same reason: given a text, the loop waits for
  nothing. `Reader!Spec` has the same and is implied.
- The other specifications have none; their properties are safety. The interactive loop waits for a user.

### What the failing runs show

Each is a place where the code does something else than a comment, a document or a test of the repository says.

1. `CallableAsDefined`. `ARCHITECTURE.md:97` calls a definition "permanent — later expressions call into it". After
   `def f(x) x;`, the definition `def f() y;` fails, but its prototype stays: each `f(1)` is now refused, and `f()` is
   generated as a call of the old code without its argument. (That the *code* stays is `PermanentDefinitions`, which holds.)
2. `TopLevelIsMain`. `test/driver/toplevel-main.ks:1` says "A top-level expression becomes main()". If the file defines
   `main` itself, the expression becomes a second, unreachable entry block of it, and the object is written.
3. `DebugImpliesCompile`. The comment at `src/main.cpp:52` says "-g: emit DWARF debug info (implies -c)"; `main` refuses
   `-g` without `-c`, which is also what `test/driver/g-requires-c.ks` expects.

4. `EveryConstructDumped`. The usage text (`src/main.cpp:66`) says of `--dump-ast` "print the AST for each construct". With `-c`
   no extern is printed, though the interactive driver prints them; `ARCHITECTURE.md:86` lists "exactly four" differences of the
   two modes, and this is none of them.
5. `LoopsPointAtFor`. The comment at `src/Parser.cpp:118` takes the location of a `for` at its keyword "so debug line info points
   at the 'for'". Code generation sets that location in front of the start value, whose visit replaces it before the
   first instruction of the loop is created: no instruction has it.

The grammar in the comments of `src/Parser.cpp` is not quite that of the parser, either. The comment at `:305` writes the prototype
of a binary operator `binary LETTER number? (id, id)`, but the parser reads names until something else comes and refuses the
comma; the form it takes is `(x y)`, as the examples of the repository have it. The comment at `:51`, `identifierexpr ::= identifier
'(' expression* ')'`, is silent about the commas that a call must have. No run is made of this: the grammar here follows the code.

More things the models had to say, about which the repository makes no claim: a `var` that names one variable twice
restores the bindings in the order it made them, so the variable is left bound to the first of its own (`doubled` in
`ScopesAreLexical`); and a body that fails leaves `NamedValues` with the bindings of the scopes it was in, which the next
function clears (`nulls` there, and the reason `FailureReachesTheTop` is stated beside it); the store of a
`var` without an initialiser has the location of whatever was generated before it (`InstructionsAreWhereTheyBelong` excepts
it); `;` and `)` are unary operators to the parser, so an error can run into the next construct: `KeywordsBeginConstructs`
says how far, to the one `def` or `extern` at which the parse stops and which recovery then drops.

## 4. Proofs

Each component has a module of proofs, which TLAPS checks for every value of the constants: any names, operators, parameter
lists and process symbols, texts and token sequences of any length, any number of arguments, trees of any depth. `theorems` in
`PROJECT.json` lists the results: all safety properties of `Repl`, `Compile`, `Lexer`, `CommandLine` and `Lowering` (but those
the failing runs refute), with the refinement of `Session`; of `Frontend` the type, that the trees
follow the rules of `Grammar` and are grouped by precedence, that their dumps show them, that operators hold as they were defined, the diagnostics, error recovery and the safety part of the refinement of `Reader`.

Assumptions, all of them about constants, named in the module that declares them and evaluated by every run:

- `CodeGen`, `Repl`, `Compile`: names of operators are not identifiers (no token spells them); builtin operators are
  operators; a parameter list is a sequence of variables without repetition, and the empty one is possible; `__anon_expr` is
  not an identifier, `main` is one; symbols of the process are identifiers; the bounds are natural numbers.
- `Lexer`: the classes of characters are disjoint, as those of `isalpha`, `isdigit` and `isspace` are, and the end of the input is
  no character; the bounds are natural numbers.
- `CommandLine`: the name of a file is no flag; the bound is a natural number.
- `Lowering`: argument lists name variables without repetition, a `var` names one at least; numbers of operands and the bound
  on nodes are natural numbers.
- `OperatorTable`, `Parser`, `Frontend` (`TokenAssumption` and others): the characters the builtin operators and the parser name are
  characters; identifiers, numbers, keywords and characters are different tokens, and the end of the input is none of them; a
  number has a value; the inputs are sequences of tokens.

**Code generator.** `CodeGenInv` is preserved by every operation. `ModuleCallsResolve` alone is not inductive:

- `OperatorArity`: `visitBinary` and `visitUnary` generate a call without comparing arities. It is right
  because every prototype, and so every function, of an operator's name has as many parameters as the operator has operands.
- `CurrentInModule`: the function being generated is there when its body ends.
- `DeclaredFromPrototypes` and `CalleesKnown`: what is called has a prototype, also when its module is gone.
- `DeclarationsCallNothing`: erasing or handing over functions with a body takes all calls along.

**Interactive driver.** `ReplInv` adds where in the loop there is what. `OneBody` says the working module holds at most one
body, between generation and hand-over; from it follow `ErasureIsSafe` (there is no other body to call the erased function) and
`ExpressionsNeverDuplicate`. `TrackerHeld` says the expression is in the dylib exactly while its tracker is held, the
other half of that property and the reason a removal takes no definition (`PermanentDefinitions`). `OperatorsServed`
extends `OperatorsBacked` over the states between constructs. The refinement maps `AddDef` to `Define`, `Lookup` to
`Start`, `Evaluate` to `Finish`, the three ends to `Close`, and all else to a stutter; `ReachFacts` shows that what a lookup reaches
is closed under the calls of the code it reaches, so that what runs is linked.

**Object-file driver.** `CompileInv` adds `FailureNoted` (whatever goes wrong is in the flag by the time it is read, and an
erasure that leaves a dangling call is itself a failure), `TopLevelCounted`, `Outcome` and `OperatorsServed`.

**Lexer.** `LexInv` says what the one character of lookahead has to do with the text. `Here` is its position and `Front` the first
position no token has settled; `Lookahead` says `last` is the character at `Here`, `Located` that its location is the one counted
from the line ends in front of it, `RunMatches` that the run being read is the text from `at` to `Here`, `CommentsSeen` that a
comment is left with the lookahead at its end, and `Settled` that each position in front of `Front` is white space, comment or in exactly one
token. `EveryCharacterOnce` is not inductive without `CommentsSeen`: nothing else says that the character behind a comment
was not in it. `LocationsExact` rests on `GreatestExists`: the last line end in front of a token is a greatest element.

**Command line.** The property says which positions a reader of the whole line would take for flags, by a least set. `CommandLineInv`
says there is a set of positions, those read so far, that every such set begins with (`ReadSoFar`), whose flags are
known and have operands (`Known`), and that the options are those it sets (`Collected`).

**Lowering.** `ShapeInv` says what a visit on the stack holds at each of its steps (blocks, allocas, names, values), so that what
it resumes with is there; the others build on it.

- `NullInv`: while a body is generated, a null is exactly where `nulls` says: it is being returned, or a binary operator that goes on with its
  second operand holds it. So it comes out at the top (`FailureReachesTheTop`).
- `ScopeInv`: each name is bound to what the innermost `for` or `var` around it says (`Sees`), and each scope holds in `old` what its names
  stood for in front of it, as seen through the scopes around it (`AllKeepOld`). The second part is what makes the end
  of a scope restore the first.
- `PlaceInv`: a value that is returned has left the location at the depth of the visit that gets it.
- `BlockInv`: the blocks without terminator are the current one and those an `if` has made ahead, and no two visits wait for the same.
- `FlowInv`: what the stack has to do with the branches (`Flows`, a formula about sets only, so that what a step does to it can be
  said without the stack: `FlowsUse` to `FlowsJoin`). What the visits in progress will still use (`HeldOf`: operands, and the block each open
  loop goes back to) is on every path to the current block, as far as it was held in front of an `if` also on every
  path to the block that `if` turns to next or ended its first part in (`SidesOf`); so every use is dominated when it is made. It
  stays so: a branch to a block that had none changes nothing for the others (`DomGrows`), nor does one back to a
  block that dominates (`DomLoops`), and what dominates both blocks that branch to a merge dominates the merge (`DomJoins`). Nothing but the ends of
  its own parts branches to a block where an `if` will merge (`MergesOf`, `JoinsOf`), and no block of an open loop has a phi
  node (`HeadersOf`): with that `PhisMatchBranches` is there when the phi node is made and stays.

**Parser and drivers.** `FrontendInv` says what the functions that wait, the nodes, the visits of the dumper and the places of the
loop refer to. From it follow the types and `OneDiagnostic` (a null has one diagnostic, on its way up too). `Advanced` adds that a
parse that succeeds has gone past its first token: with it the loop implements `Reader` (`ReaderImplemented`), and
`KeywordsBeginConstructs` follows as no parse function takes a `def` or `extern`. `TreeProofs` has the trees and their dumps.

`GroupsByPrecedence` speaks of finished nodes; what makes them right is what the pending calls of `parseBinOpRHS` and
`parseUnary` know of each other. `GroupInv` says it in three parts. `TreeGrouped`: every node so far is grouped. `Nested`: the function that waits
for a part has called the next one at the position of that part (`Calls`), a loop entered for a right operand with
one more than the precedence of its operator; and what a loop has merged binds at least as tight as its minimum and as the operator
it has taken (`Climbing`). `Turn`: what the function at work finds, by phase: a unary is read where it was asked for; behind the
left operand comes no operator that binds tighter than it (`AtBinop`); and what is returned begins where it was asked for and is followed by an operator
that is not for it (`Received`). An `if`, `for` or `var` takes every operator behind its body, so it is a left operand only in
parentheses (`Greedy`). The node is not enough: whether an operator is merged at one level or the next depends on the
token behind the right operand, which only the stack and the lookahead together tell.

`OperatorsHoldForWhatFollows` says from the text what the table has, but code generation enters what the tree says. So the tree
that is generated has to be that of the tokens at `start`. The function at the bottom of the stack and the first node, which is its
prototype, stay what they are to the end of the construct (`Over`, `StackGoesOver`, `TreeGoesOver`), so `Rooted` can say
what they have to do with the first tokens: whether it is a definition, of a binary operator, and with which precedence
(`PrototypeHead`). `Ordered` says constructs are read one behind the other, so that the one just generated is the last
definition of its operator, and an older one with the same name no longer counts.

`TreeMatchesTokens` speaks of nodes too, and a node is made at the end of its construct, of locals that were taken tokens
earlier and of trees that other functions returned. `MatchInv` says what these stand for. `TreeMade`: every node so far is spelled
by its tokens (`Built`: there is a path of positions through the items of its rule, parentheses aside). `StackBegun`: each
function that waits has taken the first part of its rule, up to the position where the one it called began (`Begun`); for
a `var` or a call this is a list of any length. `AtWork` says the same of the function at work, up to `pos`, and of what is
returned that it follows what the function which gets it has taken (`Answered`). So each return joins two pieces of text without a gap. A
variable that becomes the destination of `=` has to be one token, its name (`Made`), for its node to be replaced. Nodes that
are made later leave earlier ones as they were, so what is built stays (`SameNodes`). `Spells` is a function over the items and
agrees with the path at every step (`SameSteps`: a first position of disagreement would be a least one).

`DumpShowsTheTree` speaks of the end of a dump. `ShowInv` says what each line shows before. A node being visited is in a line that
nothing has cut off yet, two steps in for each visit around it, and below it are the parts visited so far (`Visited`).
Every other node shows all its parts and will get no more (`Done`): the next line that is not further in has come, or must
come before any other node does, because the visits left are all further out. The part that a step prints is the last line, so it
is behind those of its node that were printed earlier, as it is in the tree (`MatchingGrows`). That `Indent` is
two steps for each open visit is in `FrontendInv`. That a prototype has no parts, which the line of the prototype needs, is a
conjunct of `ProtoOK`.

**What is only model-checked.** Liveness (`Terminates`, `CallsReturn` and that in `ImplementsReader` of `Frontend`) is out of the prover's
reach. So is what a recursive definition computes for every input: induction needs an operator as a parameter, which none of the
provers can instantiate. Where a least or a greatest element will do, as in `Lexer`, `Lowering` and for `Spells`, the proofs take that way.
`ReadsBack` speaks of the samples that the run prints, and stays with TLC.

## 5. Not modelled

- **Instructions, optimisation, code emission.** What LLVM computes is LLVM's. `mem2reg` and constant folding are seen in
  no state of this program; that `verifyFunction` would accept what is generated is stated as the three properties
  of `lowering` about blocks.
- **DWARF types and parameter declarations** (`src/DebugInfo.cpp:31` to `:65`). They are created once and nothing here reads
  them. A function that is defined twice under `-g` gets two subprograms; `Lowering` generates every body into a function of its own.
- **The depth of the C++ stack**, in the lexer (one call per comment line) and in the parser.
- **The wording of diagnostics, prompts and dumps.** How many diagnostics there are and what tree a dump shows are modelled.
- **Tests and build files.** Read for what they promise.

## 6. Plan

Done, in this order, so that the behaviour that is hardest to test came first:

1. `CodeGen`, `Repl`, `Session` and the proofs: construct after construct, with failures, across modules.
2. `Compile` and its proofs: the verdict on a file.
3. `Lexer`, `Lowering`, `CommandLine`: the parts below and around, model-checked.
4. `OperatorTable`, `Parser`, `Grammar`, `ASTDumper`, `Frontend`, `Reader`: tokens to trees, with the loops of the drivers.
5. Debug locations in `Lowering`.
6. The proofs of `Lexer`, `CommandLine`, `Lowering` and `Frontend`, the last in three layers: shape, grouping, spelling.

Next:

7. Composition of `Lowering` with `CodeGen`: a body of the visitor implements a sequence of visits (refinement).
