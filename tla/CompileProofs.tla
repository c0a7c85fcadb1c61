---------------------------- MODULE CompileProofs ----------------------------
(***************************************************************************)
(* The safety of the object-file driver, for any file: any number of       *)
(* tokens, any names, operators and parameter lists.                       *)
(***************************************************************************)
EXTENDS Compile, CodeGenProofs

\* The code generator is busy exactly while the loop waits for it, unless the
\* process died there.
Phases ==
    /\ pc = "codegen" => cur.kind # "none"
    /\ pc \notin {"codegen", "exit"} => cur = Idle
    /\ cur.kind = "top" => cur.fn = TopName

\* Nothing that goes wrong escapes the flag, and with it set nothing is emitted.
FailureNoted ==
    /\ rejected \/ dangling => failed
    /\ pc = "emit" => ~failed /\ ~lexError
    /\ obj # "untouched" => pc = "exit" /\ ~failed /\ ~lexError

\* The one expression is counted when it is accepted and bars a second one.
TopLevelCounted ==
    /\ tops = IF sawTopLevel THEN 1 ELSE 0
    /\ pc = "codegen" /\ cur.kind = "top" => ~sawTopLevel

Outcome == /\ pc = "exit" => (status = "0" <=> obj = "complete")
           /\ pc # "exit" => obj = "untouched"

\* The function of an operator of the table has a body, or is being generated.
OperatorsServed == pc # "exit" => \A o \in ops \ Builtin :
    \/ BinaryName(o) \in Defined(mod)
    \/ pc = "codegen" /\ cur.fn = BinaryName(o)

CompileInv ==
    /\ CompileTypeOK
    /\ CodeGenInv
    /\ Phases
    /\ FailureNoted
    /\ TopLevelCounted
    /\ Outcome
    /\ OperatorsServed

-----------------------------------------------------------------------------
LEMMA InitCompile == Init => CompileInv
<1> SUFFICES ASSUME Init PROVE CompileInv
  OBVIOUS
<1>1. CodeGenInv
  BY InitCodeGen DEF Init
<1>2. /\ cur = Idle /\ Idle.kind = "none" /\ dangling = FALSE /\ ops = Builtin
      /\ pc = "open" /\ left \in 0..MaxTokens /\ turn = FALSE /\ lexError = FALSE
      /\ sawTopLevel = FALSE /\ failed = FALSE /\ obj = "untouched" /\ status = "none"
      /\ rejected = FALSE /\ tops = 0
  BY DEF Init, CodeGenInit, Idle
<1> QED
  BY <1>1, <1>2
     DEF CompileInv, CompileTypeOK, CodeGenInv, Pc, Output, Status, Phases, FailureNoted,
         TopLevelCounted, Outcome, OperatorsServed

\* Consuming tokens keeps the counters in their types.
LEMMA ConsumeFacts ==
    ASSUME CompileTypeOK, NEW k \in 0..left, Consume(k)
    PROVE  left' \in 0..MaxTokens /\ turn' \in BOOLEAN /\ lexError' \in BOOLEAN
<1>1. left' \in 0..MaxTokens
  BY MaxTokensAssumption DEF CompileTypeOK, Consume
<1>2. turn' = TRUE \/ turn' = FALSE
  BY DEF CompileTypeOK, Consume
<1>3. lexError' = TRUE \/ lexError' = FALSE
  BY DEF CompileTypeOK, Consume
<1> QED
  BY <1>1, <1>2, <1>3

\* The start.
LEMMA OpenStep == ASSUME CompileInv, Open PROVE CompileInv'
<1>1. /\ UNCHANGED <<cgVars, left, turn, sawTopLevel, failed, obj, rejected, tops>>
      /\ pc = "open"
      /\ lexError' \in BOOLEAN
      /\ \/ pc' = "ready" /\ status' = status
         \/ pc' = "exit" /\ status' = "1"
  BY DEF Open, Exit, CompileInv, CompileTypeOK
<1>2. CodeGenInv' /\ UNCHANGED <<mod, ops, cur, dangling>> /\ Defined(mod)' = Defined(mod)
  BY <1>1, IdleStep DEF CompileInv, cgVars, Defined
<1>3. CompileTypeOK'
  BY <1>1, <1>2 DEF CompileInv, CompileTypeOK, CodeGenInv, Pc, Status
<1>4. Phases' /\ TopLevelCounted' /\ Outcome' /\ OperatorsServed' /\ FailureNoted'
  BY <1>1, <1>2
     DEF CompileInv, Phases, TopLevelCounted, Outcome, OperatorsServed, FailureNoted
<1> QED
  BY <1>2, <1>3, <1>4 DEF CompileInv

\* Starting a definition.
LEMMA StartDefinition ==
    ASSUME CompileInv, pc = "ready", pc' = "codegen",
           NEW n \in Name, NEW ps \in ParamsOf(n), NEW kind \in {"def", "top"},
           kind = "top" => n = TopName /\ ~sawTopLevel,
           NEW k \in 0..left, Consume(k),
           Begin(n, ps, kind),
           UNCHANGED <<sawTopLevel, failed, rejected, tops, obj, status>>
    PROVE  CompileInv'
<1>1. CodeGenInv'
  BY BeginStep DEF CompileInv
<1>2. /\ cur'.fn = n /\ cur'.kind = kind
      /\ ops' = ops \cup OpOf(n)
      /\ dangling' = dangling
      /\ mod' = GetFunction(mod, protos', n)
  BY DEF Begin, SetPrecedence
<1>3. Defined(mod) \subseteq Defined(mod')
  BY <1>2 DEF Defined, GetFunction, Put
<1>4. CompileTypeOK'
  BY <1>1, ConsumeFacts DEF CompileInv, CompileTypeOK, CodeGenInv, Pc
<1>5. Phases' /\ TopLevelCounted' /\ Outcome'
  BY <1>2 DEF CompileInv, Phases, TopLevelCounted, Outcome
<1>6. FailureNoted'
  BY <1>2 DEF CompileInv, FailureNoted, Outcome
<1>7. OperatorsServed'
  BY <1>2, <1>3 DEF CompileInv, OperatorsServed, OpOf
<1> QED
  BY <1>1, <1>4, <1>5, <1>6, <1>7 DEF CompileInv

LEMMA ReadDefStep == ASSUME CompileInv, ReadDef PROVE CompileInv'
<1>1. PICK n \in UserName, k \in 0..left : \E ps \in ParamsOf(n) :
        /\ pc = "ready" /\ Consume(k) /\ Begin(n, ps, "def") /\ pc' = "codegen"
        /\ UNCHANGED <<sawTopLevel, failed, rejected, tops, obj, status>>
  BY DEF ReadDef, EmitUnchanged
<1>2. PICK ps \in ParamsOf(n) :
        /\ pc = "ready" /\ Consume(k) /\ Begin(n, ps, "def") /\ pc' = "codegen"
        /\ UNCHANGED <<sawTopLevel, failed, rejected, tops, obj, status>>
  BY <1>1
<1>3. n \in Name
  BY DEF Name
<1> QED
  BY <1>2, <1>3, StartDefinition

LEMMA ReadTopStep == ASSUME CompileInv, ReadTop PROVE CompileInv'
<1>1. PICK k \in 0..left :
        /\ pc = "ready" /\ ~sawTopLevel /\ Consume(k) /\ Begin(TopName, <<>>, "top")
        /\ pc' = "codegen"
        /\ UNCHANGED <<sawTopLevel, failed, rejected, tops, obj, status>>
  BY DEF ReadTop, EmitUnchanged
<1>2. TopName \in Name /\ <<>> \in ParamsOf(TopName)
  BY ParamsAssumption, NameAssumption DEF Name, ParamsOf
<1> QED
  BY <1>1, <1>2, StartDefinition

LEMMA ReadExternStep == ASSUME CompileInv, ReadExtern PROVE CompileInv'
<1>1. PICK n \in UserName, k \in 0..left : \E ps \in ParamsOf(n) :
        /\ pc = "ready" /\ Consume(k) /\ Extern(n, ps)
        /\ UNCHANGED <<pc, sawTopLevel, failed, rejected, tops, obj, status>>
  BY DEF ReadExtern, EmitUnchanged
<1>2. PICK ps \in ParamsOf(n) : Extern(n, ps)
  BY <1>1
<1>3. n \in Name
  BY DEF Name
<1>4. CodeGenInv'
  BY <1>2, <1>3, ExternStep DEF CompileInv
<1>5. UNCHANGED <<ops, cur, dangling>>
  BY <1>2 DEF Extern, AddPrototype
<1>6. Defined(mod) \subseteq Defined(mod')
  BY <1>2 DEF Extern, AddPrototype, Defined, Put
<1>7. CompileTypeOK'
  BY <1>1, <1>4, ConsumeFacts DEF CompileInv, CompileTypeOK, CodeGenInv
<1>8. Phases' /\ FailureNoted' /\ TopLevelCounted' /\ Outcome'
  BY <1>1, <1>5 DEF CompileInv, Phases, FailureNoted, TopLevelCounted, Outcome
<1>9. OperatorsServed'
  BY <1>1, <1>5, <1>6 DEF CompileInv, OperatorsServed
<1> QED
  BY <1>4, <1>7, <1>8, <1>9 DEF CompileInv

\* Steps of the loop that do not involve the code generator.
LEMMA SkipStep ==
    ASSUME CompileInv, ReadSemicolon \/ SecondTop \/ ParseError \/ EndOfFile
    PROVE  CompileInv'
<1>1. /\ UNCHANGED <<cgVars, sawTopLevel, tops, obj, status>>
      /\ pc = "ready" /\ pc' \in {"ready", "finish"}
      /\ UNCHANGED <<failed, rejected>> \/ (failed' = TRUE /\ rejected' = TRUE)
  BY DEF ReadSemicolon, SecondTop, ParseError, EndOfFile, EmitUnchanged, Reject
<1>2. CodeGenInv' /\ UNCHANGED <<mod, ops, cur, dangling>> /\ Defined(mod)' = Defined(mod)
  BY <1>1, IdleStep DEF CompileInv, cgVars, Defined
<1>3. left' \in 0..MaxTokens /\ turn' \in BOOLEAN /\ lexError' \in BOOLEAN
  <2>1. CASE ReadSemicolon
    <3>1. left - 1 \in 0..left /\ Consume(left - 1)
      BY <2>1, MaxTokensAssumption DEF ReadSemicolon, CompileInv, CompileTypeOK
    <3> QED
      BY <3>1, ConsumeFacts DEF CompileInv
  <2>2. CASE ParseError
    <3>1. PICK k \in 0..left : Consume(Advance(k))
      BY <2>2 DEF ParseError
    <3>2. Advance(k) \in 0..left
      BY MaxTokensAssumption DEF Advance, CompileInv, CompileTypeOK
    <3> QED
      BY <3>1, <3>2, ConsumeFacts DEF CompileInv
  <2>3. CASE SecondTop \/ EndOfFile
    BY <2>3 DEF SecondTop, EndOfFile, CompileInv, CompileTypeOK
  <2> QED
    BY <2>1, <2>2, <2>3
<1>4. CompileTypeOK'
  BY <1>1, <1>2, <1>3 DEF CompileInv, CompileTypeOK, CodeGenInv, Pc
<1>5. Phases' /\ FailureNoted' /\ TopLevelCounted' /\ Outcome' /\ OperatorsServed'
  BY <1>1, <1>2
     DEF CompileInv, Phases, FailureNoted, TopLevelCounted, Outcome, OperatorsServed
<1> QED
  BY <1>2, <1>4, <1>5 DEF CompileInv

LEMMA GenBodyStep == ASSUME CompileInv, GenBody PROVE CompileInv'
<1>1. /\ pc = "codegen" /\ Visit
      /\ UNCHANGED <<pc, left, turn, lexError, sawTopLevel, failed, rejected, tops, obj, status>>
  BY DEF GenBody, EmitUnchanged
<1>2. CodeGenInv'
  BY <1>1, VisitStep DEF CompileInv
<1>3. /\ UNCHANGED <<protos, ops, dangling>>
      /\ cur'.fn = cur.fn /\ cur'.kind = cur.kind
  BY <1>1 DEF Visit, VisitVariable, VisitCall, VisitBinary, VisitUnary, VisitOperator, AddCall,
              CompileInv, CodeGenInv, CodeGenTypeOK, Body
<1>4. Defined(mod) \subseteq Defined(mod')
  <2>1. mod' = mod \/ \E n : mod' = GetFunction(mod, protos, n)
    BY <1>1 DEF Visit, VisitVariable, VisitCall, VisitBinary, VisitUnary, VisitOperator
  <2>2. ASSUME NEW n, mod' = GetFunction(mod, protos, n) PROVE Defined(mod) \subseteq Defined(mod')
    BY <2>2 DEF Defined, GetFunction, Put
  <2> QED
    BY <2>1, <2>2
<1>5. CompileTypeOK'
  BY <1>1, <1>2 DEF CompileInv, CompileTypeOK, CodeGenInv
<1>6. Phases' /\ FailureNoted' /\ TopLevelCounted' /\ Outcome'
  BY <1>1, <1>3 DEF CompileInv, Phases, FailureNoted, TopLevelCounted, Outcome
<1>7. OperatorsServed'
  BY <1>1, <1>3, <1>4 DEF CompileInv, OperatorsServed
<1> QED
  BY <1>2, <1>5, <1>6, <1>7 DEF CompileInv

LEMMA GenOkStep == ASSUME CompileInv, GenOk PROVE CompileInv'
<1>1. /\ pc = "codegen" /\ FinishOk /\ pc' = "ready"
      /\ sawTopLevel' = (sawTopLevel \/ cur.kind = "top")
      /\ tops' = IF cur.kind = "top" THEN tops + 1 ELSE tops
      /\ UNCHANGED <<left, turn, lexError, failed, rejected, obj, status>>
  BY DEF GenOk, NoteTopLevel, EmitUnchanged
<1>2. CodeGenInv'
  BY <1>1, FinishOkStep DEF CompileInv
<1>3. /\ UNCHANGED <<protos, ops, dangling>>
      /\ cur' = Idle
      /\ Idle.kind = "none"
  BY <1>1 DEF FinishOk, Idle
<1>4. /\ cur.fn \in DOMAIN mod
      /\ mod[cur.fn] \in Fn
      /\ cur.kind \in {"def", "top"}
  BY <1>1 DEF CompileInv, CodeGenInv, CodeGenTypeOK, CurrentInModule, Phases, Body
<1>5. /\ DOMAIN mod' = DOMAIN mod
      /\ \A n \in DOMAIN mod : n # cur.fn => mod'[n] = mod[n]
      /\ mod'[cur.fn].entry # "none"
  BY <1>1, <1>4 DEF FinishOk, WithBody, Fn
<1>6. Defined(mod)' = Defined(mod) \cup {cur.fn}
  BY <1>4, <1>5 DEF Defined
<1>7. CompileTypeOK'
  BY <1>1, <1>2 DEF CompileInv, CompileTypeOK, CodeGenInv, Pc
<1>8. Phases' /\ FailureNoted' /\ Outcome'
  BY <1>1, <1>3 DEF CompileInv, Phases, FailureNoted, Outcome
<1>9. TopLevelCounted'
  <2>1. CASE cur.kind = "top"
    <3>1. ~sawTopLevel /\ tops = 0
      BY <1>1, <2>1 DEF CompileInv, TopLevelCounted
    <3>2. sawTopLevel' /\ tops' = tops + 1
      BY <1>1, <2>1
    <3> QED
      BY <3>1, <3>2, <1>1 DEF TopLevelCounted
  <2>2. CASE cur.kind # "top"
    <3>1. sawTopLevel' = sawTopLevel /\ tops' = tops
      BY <1>1, <2>2 DEF CompileInv, CompileTypeOK
    <3> QED
      BY <3>1, <1>1 DEF CompileInv, TopLevelCounted
  <2> QED
    BY <2>1, <2>2
<1>10. OperatorsServed'
  BY <1>1, <1>3, <1>6 DEF CompileInv, OperatorsServed
<1> QED
  BY <1>2, <1>7, <1>8, <1>9, <1>10 DEF CompileInv

LEMMA GenFailStep == ASSUME CompileInv, GenFail PROVE CompileInv'
<1>1. /\ pc = "codegen" /\ FinishFail /\ pc' = "ready"
      /\ failed' = TRUE /\ rejected' = TRUE
      /\ UNCHANGED <<left, turn, lexError, sawTopLevel, tops, obj, status>>
  BY DEF GenFail, Reject, EmitUnchanged
<1>2. CodeGenInv'
  BY <1>1, FinishFailStep DEF CompileInv
<1>3. /\ cur' = Idle
      /\ Idle.kind = "none"
      /\ ops' = ops \ OpOf(cur.fn)
      /\ Defined(mod)' = Defined(mod) \ {cur.fn}
  BY <1>1 DEF FinishFail, Erase, Idle, Drop, Defined
<1>4. CompileTypeOK'
  BY <1>1, <1>2 DEF CompileInv, CompileTypeOK, CodeGenInv, Pc
<1>5. Phases' /\ FailureNoted' /\ Outcome' /\ TopLevelCounted'
  BY <1>1, <1>3 DEF CompileInv, Phases, FailureNoted, Outcome, TopLevelCounted
<1>6. OperatorsServed'
  BY <1>1, <1>3 DEF CompileInv, OperatorsServed, OpOf, CodeGenInv, CodeGenTypeOK
<1> QED
  BY <1>2, <1>4, <1>5, <1>6 DEF CompileInv

\* The end: the verdict, the emission, or a death on the way.
LEMMA EndStep == ASSUME CompileInv, Finish \/ Emit \/ Crash PROVE CompileInv'
<1>1. UNCHANGED <<cgVars, left, turn, lexError, sawTopLevel, rejected, tops>>
  BY DEF Finish, Emit, Crash, RestUnchanged
<1>2. CodeGenInv' /\ UNCHANGED <<mod, ops, cur, dangling>> /\ Defined(mod)' = Defined(mod)
  BY <1>1, IdleStep DEF CompileInv, cgVars, Defined
<1>3. CASE Finish
  <2>1. /\ pc = "finish" /\ obj' = obj /\ failed' = (failed \/ lexError)
        /\ \/ failed' /\ pc' = "exit" /\ status' = "1"
           \/ ~failed' /\ pc' = "emit" /\ status' = status
    BY <1>3 DEF Finish, Failed, Exit
  <2>2. CompileTypeOK'
    BY <1>1, <1>2, <2>1 DEF CompileInv, CompileTypeOK, CodeGenInv, Pc, Status
  <2>3. Phases' /\ TopLevelCounted' /\ OperatorsServed' /\ Outcome'
    BY <1>1, <1>2, <2>1 DEF CompileInv, Phases, TopLevelCounted, OperatorsServed, Outcome
  <2>4. FailureNoted'
    BY <1>1, <1>2, <2>1 DEF CompileInv, FailureNoted, Outcome
  <2> QED
    BY <1>2, <2>2, <2>3, <2>4 DEF CompileInv
<1>4. CASE Emit
  <2>1. /\ pc = "emit" /\ pc' = "exit" /\ failed' = failed
        /\ status' \in Status /\ obj' \in Output /\ (status' = "0" <=> obj' = "complete")
    BY <1>4 DEF Emit, Exit, EmitFailed, Status, Output
  <2>2. CompileTypeOK'
    BY <1>1, <1>2, <2>1 DEF CompileInv, CompileTypeOK, CodeGenInv, Pc
  <2>3. Phases' /\ TopLevelCounted' /\ OperatorsServed' /\ Outcome' /\ FailureNoted'
    BY <1>1, <1>2, <2>1
       DEF CompileInv, Phases, TopLevelCounted, OperatorsServed, Outcome, FailureNoted
  <2> QED
    BY <1>2, <2>2, <2>3 DEF CompileInv
<1>5. CASE Crash
  <2>1. pc # "exit" /\ pc' = "exit" /\ status' = "crash" /\ UNCHANGED <<obj, failed>>
    BY <1>5 DEF Crash, Exit
  <2>2. CompileTypeOK'
    BY <1>1, <1>2, <2>1 DEF CompileInv, CompileTypeOK, CodeGenInv, Pc, Status
  <2>3. Phases' /\ TopLevelCounted' /\ OperatorsServed' /\ Outcome' /\ FailureNoted'
    BY <1>1, <1>2, <2>1
       DEF CompileInv, Phases, TopLevelCounted, OperatorsServed, Outcome, FailureNoted
  <2> QED
    BY <1>2, <2>2, <2>3 DEF CompileInv
<1> QED
  BY <1>3, <1>4, <1>5

LEMMA StutterStep == ASSUME CompileInv, UNCHANGED vars PROVE CompileInv'
<1>1. CodeGenInv' /\ Defined(mod)' = Defined(mod)
  BY IdleStep DEF CompileInv, vars, cgVars, Defined
<1> QED
  BY <1>1 DEF vars, CompileInv, CompileTypeOK, CodeGenInv, Phases, FailureNoted,
              TopLevelCounted, Outcome, OperatorsServed

LEMMA NextStep == ASSUME CompileInv, [Next]_vars PROVE CompileInv'
<1>1. CASE Stopped \/ UNCHANGED vars
  BY <1>1, StutterStep DEF Stopped
<1> QED
  BY <1>1, OpenStep, ReadDefStep, ReadTopStep, ReadExternStep, SkipStep, GenBodyStep, GenOkStep,
     GenFailStep, EndStep
     DEF Next

-----------------------------------------------------------------------------
\* Every reachable state of the driver satisfies the inductive invariant.
THEOREM Invariance == Spec => []CompileInv
BY InitCompile, NextStep, PTL DEF Spec

\* The state has its type.
THEOREM TypeCorrect == Spec => []CompileTypeOK
<1>1. CompileInv => CompileTypeOK
  BY DEF CompileInv
<1> QED
  BY <1>1, Invariance, PTL

\* Until a function with callers is erased, every call resolves.
THEOREM CallsAlwaysResolve == Spec => []ModuleCallsResolve
<1>1. CompileInv => ModuleCallsResolve
  BY DEF CompileInv, CodeGenInv
<1> QED
  BY <1>1, Invariance, PTL

\* The output file is touched only for a file that was accepted whole and has at
\* most one top-level expression.
THEOREM OutputAlwaysAccepted == Spec => []OutputOnlyIfAccepted
<1>1. CompileInv => OutputOnlyIfAccepted
  BY DEF CompileInv, FailureNoted, TopLevelCounted, OutputOnlyIfAccepted
<1> QED
  BY <1>1, Invariance, PTL

\* What is emitted calls only functions it has, with the arguments they take,
\* though erasures may leave dangling calls in the module on the way.
THEOREM EmittedAlwaysSound == Spec => []EmittedModuleIsSound
<1>1. CompileInv => EmittedModuleIsSound
  BY DEF CompileInv, FailureNoted, CodeGenInv, ModuleCallsResolve, EmittedModuleIsSound
<1> QED
  BY <1>1, Invariance, PTL

\* The exit status is zero exactly for a complete object.
THEOREM StatusAlwaysHonest == Spec => []StatusTellsOutput
<1>1. CompileInv => StatusTellsOutput
  BY DEF CompileInv, Outcome, StatusTellsOutput
<1> QED
  BY <1>1, Invariance, PTL

\* Between constructs, the operators the parser accepts have bodies.
THEOREM OperatorsAlwaysDefined == Spec => []OperatorsDefined
<1>1. CompileInv => OperatorsDefined
  BY DEF CompileInv, OperatorsServed, OperatorsDefined
<1> QED
  BY <1>1, Invariance, PTL
=============================================================================
