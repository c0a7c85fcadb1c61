------------------------------ MODULE ReplProofs ------------------------------
(***************************************************************************)
(* The safety of the interactive loop, for any set of names, operators,    *)
(* parameter lists and symbols of the process.                             *)
(***************************************************************************)
EXTENDS Repl, CodeGenProofs

\* A definition is being generated exactly while the loop waits for it.
Phases ==
    /\ pc = "codegen" => cur.kind # "none"
    /\ pc # "codegen" => cur = Idle
    /\ cur.kind = "def" => cur.fn \in UserName
    /\ cur.kind = "top" => cur.fn = TopName

\* The working module holds a body only between its generation and its hand-off.
OneBody ==
    /\ pc \notin {"addDef", "addTop", "duplicate"} => Defined(mod) = {}
    /\ pc \in {"addDef", "duplicate"} => TopName \notin Defined(mod)
    /\ pc = "addDef" => \E n \in UserName : Defined(mod) = {n}
    /\ pc = "addTop" => Defined(mod) = {TopName}

\* The expression is in the dylib exactly while its tracker is.
InFlight == pc \in {"lookup", "evaluate", "unresolved"}
TrackerHeld ==
    /\ tracked = IF InFlight THEN {TopName} ELSE {}
    /\ TopName \in DOMAIN jit => InFlight

\* JIT'd code calls functions that have a prototype, and never an expression.
JitUsesKnown == \A n \in DOMAIN jit : jit[n].uses \subseteq UserName \cap DOMAIN protos

\* The function of an operator of the table is in the JIT, on its way there, or
\* being generated.
OperatorsServed == \A o \in ops \ Builtin :
    \/ BinaryName(o) \in DOMAIN jit
    \/ pc = "codegen" /\ cur.fn = BinaryName(o)
    \/ pc \in {"addDef", "duplicate"} /\ BinaryName(o) \in Defined(mod)

ReplInv ==
    /\ ReplTypeOK
    /\ CodeGenInv
    /\ Phases
    /\ OneBody
    /\ ErasureIsSafe
    /\ TrackerHeld
    /\ JitUsesKnown
    /\ OperatorsServed
    /\ DumpComplete

-----------------------------------------------------------------------------
LEMMA TopNameFacts == TopName \notin UserName /\ TopName \notin BinName /\ TopName \in Name
BY ReplNames, NameAssumption DEF UserName, Name

LEMMA InitRepl == Init => ReplInv
<1> SUFFICES ASSUME Init PROVE ReplInv
  OBVIOUS
<1>1. CodeGenInv
  BY InitCodeGen DEF Init
<1>2. /\ DOMAIN mod = {} /\ DOMAIN jit = {} /\ ops = Builtin
      /\ cur = Idle /\ pc = "ready" /\ tracked = {} /\ allIR = {} /\ dangling = FALSE
  BY DEF Init, CodeGenInit, EmptyMap
<1>3. ReplTypeOK
  BY <1>1, <1>2 DEF ReplTypeOK, CodeGenInv, Pc, Ended
<1> QED
  BY <1>1, <1>2, <1>3
     DEF ReplInv, Phases, Idle, OneBody, Defined, ErasureIsSafe, TrackerHeld, InFlight,
         JitUsesKnown, OperatorsServed, DumpComplete

\* What reading a construct changes: the module may gain a declaration.
LEMMA BeginFacts ==
    ASSUME ReplInv, pc = "ready", NEW n \in Name, NEW ps \in ParamsOf(n),
           NEW k \in {"def", "top"}, Begin(n, ps, k)
    PROVE  /\ CodeGenInv'
           /\ Defined(mod)' = {}
           /\ DOMAIN protos \subseteq DOMAIN protos'
           /\ cur'.fn = n /\ cur'.kind = k
           /\ ops' = ops \cup OpOf(n)
           /\ dangling' = dangling
<1>1. CodeGenInv'
  BY BeginStep DEF ReplInv
<1>2. Defined(mod) = {}
  BY DEF ReplInv, OneBody
<1>3. mod' = GetFunction(mod, protos', n)
  BY DEF Begin
<1>4. Defined(mod)' = {}
  BY <1>2, <1>3 DEF Defined, GetFunction, Put, Declaration
<1> QED
  BY <1>1, <1>4 DEF Begin, SetPrecedence, Put

LEMMA ReadDefStep == ASSUME ReplInv, ReadDef PROVE ReplInv'
<1>0. PICK n \in UserName : \E ps \in ParamsOf(n) :
          pc = "ready" /\ Begin(n, ps, "def") /\ pc' = "codegen" /\ ReplUnchanged
  BY DEF ReadDef
<1>1. PICK ps \in ParamsOf(n) :
          pc = "ready" /\ Begin(n, ps, "def") /\ pc' = "codegen" /\ ReplUnchanged
  BY <1>0
<1>2. n \in Name
  BY DEF Name
<1>3. /\ CodeGenInv'
      /\ Defined(mod)' = {}
      /\ DOMAIN protos \subseteq DOMAIN protos'
      /\ cur'.fn = n /\ cur'.kind = "def"
      /\ ops' = ops \cup OpOf(n)
      /\ dangling' = dangling
  BY <1>1, <1>2, BeginFacts
<1>4. ReplTypeOK'
  BY <1>1, <1>3 DEF ReplInv, ReplTypeOK, CodeGenInv, ReplUnchanged, Pc
<1>5. Phases' /\ OneBody' /\ ErasureIsSafe'
  BY <1>1, <1>3 DEF ReplInv, Phases, OneBody, ErasureIsSafe
<1>6. TrackerHeld' /\ JitUsesKnown' /\ DumpComplete'
  BY <1>1, <1>3 DEF ReplInv, TrackerHeld, InFlight, JitUsesKnown, DumpComplete, ReplUnchanged
<1>7. OperatorsServed'
  BY <1>1, <1>3 DEF ReplInv, OperatorsServed, OpOf, ReplUnchanged
<1> QED
  BY <1>3, <1>4, <1>5, <1>6, <1>7 DEF ReplInv

LEMMA ReadTopStep == ASSUME ReplInv, ReadTop PROVE ReplInv'
<1>1. /\ pc = "ready" /\ pc' = "codegen"
      /\ Begin(TopName, <<>>, "top")
      /\ ReplUnchanged
  BY DEF ReadTop
<1>2. TopName \in Name /\ <<>> \in ParamsOf(TopName)
  BY ParamsAssumption, NameAssumption DEF Name, ParamsOf
<1>3. /\ CodeGenInv'
      /\ Defined(mod)' = {}
      /\ DOMAIN protos \subseteq DOMAIN protos'
      /\ cur'.fn = TopName /\ cur'.kind = "top"
      /\ ops' = ops \cup OpOf(TopName)
      /\ dangling' = dangling
  BY <1>1, <1>2, BeginFacts
<1>4. ReplTypeOK'
  BY <1>1, <1>3 DEF ReplInv, ReplTypeOK, CodeGenInv, ReplUnchanged, Pc
<1>5. Phases' /\ OneBody' /\ ErasureIsSafe'
  BY <1>1, <1>3 DEF ReplInv, Phases, OneBody, ErasureIsSafe
<1>6. TrackerHeld' /\ JitUsesKnown' /\ DumpComplete'
  BY <1>1, <1>3 DEF ReplInv, TrackerHeld, InFlight, JitUsesKnown, DumpComplete, ReplUnchanged
<1>7. OperatorsServed'
  BY <1>1, <1>3 DEF ReplInv, OperatorsServed, OpOf, ReplUnchanged
<1> QED
  BY <1>3, <1>4, <1>5, <1>6, <1>7 DEF ReplInv

LEMMA ReadExternStep == ASSUME ReplInv, ReadExtern PROVE ReplInv'
<1>0. PICK n \in ExternName : \E ps \in ParamsOf(n) :
          pc = "ready" /\ Extern(n, ps) /\ UNCHANGED pc /\ ReplUnchanged
  BY DEF ReadExtern
<1>1. PICK ps \in ParamsOf(n) :
          pc = "ready" /\ Extern(n, ps) /\ UNCHANGED pc /\ ReplUnchanged
  BY <1>0
<1>2. n \in Name
  BY ExternNameAssumption DEF Name
<1>3. CodeGenInv'
  BY <1>1, <1>2, ExternStep DEF ReplInv
<1>4. UNCHANGED <<ops, cur, dangling>> /\ DOMAIN protos \subseteq DOMAIN protos'
  BY <1>1 DEF Extern, AddPrototype, Put
<1>5. Defined(mod)' = Defined(mod)
  BY <1>1 DEF Extern, AddPrototype, Put, Defined, Declaration
<1>6. ReplTypeOK'
  BY <1>1, <1>3 DEF ReplInv, ReplTypeOK, CodeGenInv, ReplUnchanged
<1>7. Phases' /\ OneBody' /\ ErasureIsSafe'
  BY <1>1, <1>4, <1>5 DEF ReplInv, Phases, OneBody, ErasureIsSafe
<1>8. TrackerHeld' /\ JitUsesKnown' /\ DumpComplete' /\ OperatorsServed'
  BY <1>1, <1>4, <1>5
     DEF ReplInv, TrackerHeld, InFlight, JitUsesKnown, DumpComplete, OperatorsServed,
         ReplUnchanged
<1> QED
  BY <1>3, <1>6, <1>7, <1>8 DEF ReplInv

LEMMA GenBodyStep == ASSUME ReplInv, GenBody PROVE ReplInv'
<1>1. pc = "codegen" /\ Visit /\ pc' = pc /\ ReplUnchanged
  BY DEF GenBody
<1>2. CodeGenInv'
  BY <1>1, VisitStep DEF ReplInv
<1>3. /\ UNCHANGED <<protos, ops, dangling>>
      /\ cur'.fn = cur.fn /\ cur'.kind = cur.kind
  BY <1>1 DEF Visit, VisitVariable, VisitCall, VisitBinary, VisitUnary, VisitOperator, AddCall,
              ReplInv, CodeGenInv, CodeGenTypeOK, Body
<1>4. Defined(mod) = {}
  BY <1>1 DEF ReplInv, OneBody
<1>5. mod' = mod \/ \E n : mod' = GetFunction(mod, protos, n)
  BY <1>1 DEF Visit, VisitVariable, VisitCall, VisitBinary, VisitUnary, VisitOperator
<1>6. Defined(mod)' = {}
  <2>1. CASE mod' = mod
    BY <1>4, <2>1 DEF Defined
  <2>2. ASSUME NEW n, mod' = GetFunction(mod, protos, n) PROVE Defined(mod)' = {}
    BY <1>4, <2>2 DEF Defined, GetFunction, Put, Declaration
  <2> QED
    BY <1>5, <2>1, <2>2
<1>7. ReplTypeOK'
  BY <1>1, <1>2 DEF ReplInv, ReplTypeOK, CodeGenInv, ReplUnchanged
<1>8. Phases' /\ OneBody' /\ ErasureIsSafe'
  BY <1>1, <1>3, <1>6 DEF ReplInv, Phases, OneBody, ErasureIsSafe
<1>9. TrackerHeld' /\ JitUsesKnown' /\ DumpComplete' /\ OperatorsServed'
  BY <1>1, <1>3, <1>6
     DEF ReplInv, TrackerHeld, InFlight, JitUsesKnown, DumpComplete, OperatorsServed,
         ReplUnchanged
<1> QED
  BY <1>2, <1>7, <1>8, <1>9 DEF ReplInv

LEMMA GenOkStep == ASSUME ReplInv, GenOk PROVE ReplInv'
<1>1. /\ pc = "codegen" /\ FinishOk
      /\ pc' = IF cur.kind = "def" THEN "addDef" ELSE "addTop"
      /\ ReplUnchanged
  BY DEF GenOk, AfterBody
<1>2. CodeGenInv'
  BY <1>1, FinishOkStep DEF ReplInv
<1>3. /\ UNCHANGED <<protos, ops, dangling>>
      /\ cur' = Idle
      /\ Idle.kind = "none"
  BY <1>1 DEF FinishOk, Idle
<1>4. /\ cur \in Body
      /\ cur.fn \in DOMAIN mod
      /\ mod[cur.fn] \in Fn
      /\ cur.kind \in {"def", "top"}
  BY <1>1 DEF ReplInv, CodeGenInv, CodeGenTypeOK, CurrentInModule, Phases, Body
<1>5. Defined(mod) = {}
  BY <1>1 DEF ReplInv, OneBody
<1>6. /\ DOMAIN mod' = DOMAIN mod
      /\ \A n \in DOMAIN mod : n # cur.fn => mod'[n] = mod[n]
      /\ mod'[cur.fn].entry = cur.kind
  BY <1>1, <1>4, <1>5 DEF FinishOk, WithBody, Fn, Defined
<1>7. Defined(mod)' = {cur.fn}
  BY <1>4, <1>5, <1>6 DEF Defined
<1>8. ReplTypeOK'
  BY <1>1, <1>2 DEF ReplInv, ReplTypeOK, CodeGenInv, ReplUnchanged, Pc
<1>9. Phases' /\ OneBody' /\ ErasureIsSafe'
  BY <1>1, <1>3, <1>4, <1>7, TopNameFacts DEF ReplInv, Phases, OneBody, ErasureIsSafe
<1>10. TrackerHeld' /\ JitUsesKnown' /\ DumpComplete'
  BY <1>1, <1>3 DEF ReplInv, TrackerHeld, InFlight, JitUsesKnown, DumpComplete, ReplUnchanged
<1>11. OperatorsServed'
  <2> SUFFICES ASSUME NEW o \in ops' \ Builtin
               PROVE  \/ BinaryName(o) \in DOMAIN jit'
                      \/ pc' \in {"addDef", "duplicate"} /\ BinaryName(o) \in Defined(mod)'
    BY DEF OperatorsServed
  <2>1. o \in BinOp /\ BinaryName(o) \in BinName
    BY <1>3 DEF ReplInv, CodeGenInv, CodeGenTypeOK, BinName
  <2>2. BinaryName(o) \in DOMAIN jit \/ cur.fn = BinaryName(o)
    BY <1>1, <1>3 DEF ReplInv, OperatorsServed
  <2>3. cur.fn = BinaryName(o) => cur.kind = "def"
    BY <1>4, <2>1, TopNameFacts DEF ReplInv, Phases
  <2> QED
    BY <1>1, <1>7, <2>2, <2>3 DEF ReplUnchanged
<1> QED
  BY <1>2, <1>8, <1>9, <1>10, <1>11 DEF ReplInv

LEMMA GenFailStep == ASSUME ReplInv, GenFail PROVE ReplInv'
<1>1. pc = "codegen" /\ FinishFail /\ pc' = "ready" /\ ReplUnchanged
  BY DEF GenFail
<1>2. CodeGenInv'
  BY <1>1, FinishFailStep DEF ReplInv
<1>3. Defined(mod) = {}
  BY <1>1 DEF ReplInv, OneBody
<1>4. Callers(mod, cur.fn) = {}
  BY <1>3 DEF Callers, Defined, ReplInv, CodeGenInv, DeclarationsCallNothing
<1>5. /\ protos' = protos
      /\ cur' = Idle
      /\ Idle.kind = "none"
      /\ ops' = ops \ OpOf(cur.fn)
      /\ Defined(mod)' = {}
  BY <1>1, <1>3 DEF FinishFail, Erase, Idle, Drop, Defined
<1>10. ~dangling'
  BY <1>1, <1>4 DEF FinishFail, ReplInv, ErasureIsSafe
<1>6. ReplTypeOK'
  BY <1>1, <1>2 DEF ReplInv, ReplTypeOK, CodeGenInv, ReplUnchanged, Pc
<1>7. Phases' /\ OneBody' /\ ErasureIsSafe'
  BY <1>1, <1>5, <1>10 DEF ReplInv, Phases, OneBody, ErasureIsSafe
<1>8. TrackerHeld' /\ JitUsesKnown' /\ DumpComplete'
  BY <1>1, <1>5 DEF ReplInv, TrackerHeld, InFlight, JitUsesKnown, DumpComplete, ReplUnchanged
<1>9. OperatorsServed'
  BY <1>1, <1>5
     DEF ReplInv, OperatorsServed, OpOf, ReplUnchanged, CodeGenInv, CodeGenTypeOK
<1> QED
  BY <1>2, <1>6, <1>7, <1>8, <1>9 DEF ReplInv

\* Handing the module over: nothing in the dylib changes, what has a body joins it.
LEMMA HandOffFacts ==
    ASSUME ReplInv, pc \in {"addDef", "addTop"}, HandOff
    PROVE  /\ CodeGenInv'
           /\ UNCHANGED <<protos, ops, cur, dangling>>
           /\ Defined(mod)' = {}
           /\ DOMAIN jit' = DOMAIN jit \cup Defined(mod)
           /\ \A n \in DOMAIN jit : jit'[n] = jit[n]
           /\ \A n \in DOMAIN jit' : jit'[n] \in Symbol
           /\ JitUsesKnown'
           /\ allIR' \subseteq Name
           /\ \A n \in DOMAIN jit' : jit'[n].code => n \in allIR'
<1>1. /\ DOMAIN mod' = {}
      /\ UNCHANGED <<protos, ops, cur, dangling>>
      /\ allIR' = allIR \cup DOMAIN mod
      /\ DOMAIN jit' = DOMAIN jit \cup Defined(mod)
      /\ \A n \in DOMAIN jit : jit'[n] = jit[n]
      /\ \A n \in Defined(mod) \ DOMAIN jit : jit'[n] = Compiled(mod[n])
  BY DEF HandOff, InitModule, EmptyMap, Capture
<1>2. cur = Idle /\ Idle.kind = "none" /\ Idle.calls = {}
  BY DEF ReplInv, Phases, Idle
<1>3. Defined(mod)' = {}
  BY <1>1 DEF Defined
<1>4. CodeGenInv'
  BY <1>1, <1>2
     DEF ReplInv, CodeGenInv, CodeGenTypeOK, CurrentInModule, DeclaredFromPrototypes,
         OperatorArity, DeclarationsCallNothing, CalleesKnown, Known, ModuleCallsResolve,
         CallsResolve
<1>5. \A n \in Defined(mod) : /\ Compiled(mod[n]) \in Symbol
                              /\ Compiled(mod[n]).uses \subseteq UserName \cap DOMAIN protos
  <2> SUFFICES ASSUME NEW n \in Defined(mod)
               PROVE  /\ Compiled(mod[n]) \in Symbol
                      /\ Compiled(mod[n]).uses \subseteq UserName \cap DOMAIN protos
    OBVIOUS
  <2>1. n \in DOMAIN mod /\ mod[n] \in Fn
    BY DEF Defined, ReplInv, CodeGenInv, CodeGenTypeOK
  <2>2. {c[1] : c \in mod[n].calls} \subseteq UserName \cap DOMAIN protos
    BY <2>1 DEF ReplInv, CodeGenInv, CalleesKnown, Known
  <2>3. UserName \subseteq Name
    BY DEF Name
  <2> QED
    BY <2>1, <2>2, <2>3 DEF Compiled, Symbol, Fn
<1>6. \A n \in DOMAIN jit' : jit'[n] \in Symbol
  BY <1>1, <1>5 DEF ReplInv, ReplTypeOK
<1>7. JitUsesKnown'
  BY <1>1, <1>5 DEF ReplInv, JitUsesKnown
<1>8. allIR' \subseteq Name
  BY <1>1 DEF ReplInv, ReplTypeOK, CodeGenTypeOK
<1>9. \A n \in DOMAIN jit' : jit'[n].code => n \in allIR'
  BY <1>1 DEF ReplInv, DumpComplete, Defined
<1> QED
  BY <1>1, <1>3, <1>4, <1>6, <1>7, <1>8, <1>9

LEMMA AddDefStep == ASSUME ReplInv, AddDef PROVE ReplInv'
<1>1. pc = "addDef" /\ HandOff /\ pc' = "ready" /\ tracked' = tracked
  BY DEF AddDef
<1>2. /\ CodeGenInv'
      /\ UNCHANGED <<protos, ops, cur, dangling>>
      /\ Defined(mod)' = {}
      /\ DOMAIN jit' = DOMAIN jit \cup Defined(mod)
      /\ \A n \in DOMAIN jit' : jit'[n] \in Symbol
      /\ JitUsesKnown'
      /\ allIR' \subseteq Name
      /\ \A n \in DOMAIN jit' : jit'[n].code => n \in allIR'
  BY <1>1, HandOffFacts
<1>3. ReplTypeOK'
  BY <1>1, <1>2 DEF ReplInv, ReplTypeOK, CodeGenInv, CodeGenTypeOK, Defined, Pc
<1>4. Phases' /\ OneBody' /\ ErasureIsSafe' /\ DumpComplete'
  BY <1>1, <1>2 DEF ReplInv, Phases, OneBody, ErasureIsSafe, DumpComplete
<1>5. TrackerHeld' /\ OperatorsServed'
  BY <1>1, <1>2 DEF ReplInv, OneBody, TrackerHeld, InFlight, OperatorsServed
<1> QED
  BY <1>2, <1>3, <1>4, <1>5 DEF ReplInv

LEMMA AddTopStep == ASSUME ReplInv, AddTop PROVE ReplInv'
<1>1. pc = "addTop" /\ tracked' = Defined(mod) /\ HandOff /\ pc' = "lookup"
  BY DEF AddTop
<1>2. /\ CodeGenInv'
      /\ UNCHANGED <<protos, ops, cur, dangling>>
      /\ Defined(mod)' = {}
      /\ DOMAIN jit' = DOMAIN jit \cup Defined(mod)
      /\ \A n \in DOMAIN jit' : jit'[n] \in Symbol
      /\ JitUsesKnown'
      /\ allIR' \subseteq Name
      /\ \A n \in DOMAIN jit' : jit'[n].code => n \in allIR'
  BY <1>1, HandOffFacts
<1>3. ReplTypeOK'
  BY <1>1, <1>2 DEF ReplInv, ReplTypeOK, CodeGenInv, CodeGenTypeOK, Defined, Pc
<1>4. Phases' /\ OneBody' /\ ErasureIsSafe' /\ DumpComplete'
  BY <1>1, <1>2 DEF ReplInv, Phases, OneBody, ErasureIsSafe, DumpComplete
<1>5. TrackerHeld' /\ OperatorsServed'
  BY <1>1, <1>2 DEF ReplInv, OneBody, TrackerHeld, InFlight, OperatorsServed
<1> QED
  BY <1>2, <1>3, <1>4, <1>5 DEF ReplInv

LEMMA DuplicateStep == ASSUME ReplInv, Duplicate PROVE ReplInv'
<1>1. /\ pc \in {"addDef", "addTop"}
      /\ Defined(mod) \cap DOMAIN jit # {}
      /\ pc' = "duplicate"
      /\ allIR' = allIR \cup DOMAIN mod
      /\ UNCHANGED <<cgVars, jit, tracked>>
  BY DEF Duplicate, Capture
<1>2. TopName \notin DOMAIN jit
  BY <1>1 DEF ReplInv, TrackerHeld, InFlight
<1>3. pc = "addDef" /\ TopName \notin Defined(mod)
  BY <1>1, <1>2 DEF ReplInv, OneBody
<1>4. CodeGenInv' /\ UNCHANGED <<mod, protos, ops, cur, dangling>> /\ Defined(mod)' = Defined(mod)
  BY <1>1, IdleStep DEF ReplInv, cgVars, Defined
<1>5. ReplTypeOK'
  BY <1>1, <1>4 DEF ReplInv, ReplTypeOK, CodeGenInv, CodeGenTypeOK, Pc, Ended
<1>6. Phases' /\ OneBody' /\ ErasureIsSafe' /\ DumpComplete'
  BY <1>1, <1>3, <1>4 DEF ReplInv, Phases, OneBody, ErasureIsSafe, DumpComplete
<1>7. TrackerHeld' /\ OperatorsServed' /\ JitUsesKnown'
  BY <1>1, <1>3, <1>4 DEF ReplInv, TrackerHeld, InFlight, OperatorsServed, JitUsesKnown
<1> QED
  BY <1>4, <1>5, <1>6, <1>7 DEF ReplInv

LEMMA LookupStep == ASSUME ReplInv, Lookup PROVE ReplInv'
<1>1. /\ pc = "lookup" /\ pc' = "evaluate"
      /\ Wanted \subseteq Process
      /\ DOMAIN jit' = DOMAIN jit \cup Wanted
      /\ \A n \in DOMAIN jit : jit'[n] = jit[n]
      /\ \A n \in Wanted : jit'[n] = Absolute
      /\ UNCHANGED <<cgVars, tracked, allIR>>
  BY DEF Lookup, Wanted
<1>2. Wanted \subseteq Name
  BY <1>1, ProcessAssumption DEF Name, UserName
<1>3. Absolute \in Symbol /\ ~Absolute.code /\ Absolute.uses = {}
  BY ParamsAssumption DEF Absolute, Symbol
<1>4. CodeGenInv' /\ UNCHANGED <<mod, protos, ops, cur, dangling>> /\ Defined(mod)' = Defined(mod)
  BY <1>1, IdleStep DEF ReplInv, cgVars, Defined
<1>5. ReplTypeOK'
  BY <1>1, <1>2, <1>3, <1>4 DEF ReplInv, ReplTypeOK, CodeGenInv, Pc, Ended
<1>6. Phases' /\ OneBody' /\ ErasureIsSafe'
  BY <1>1, <1>4 DEF ReplInv, Phases, OneBody, ErasureIsSafe
<1>7. DumpComplete' /\ JitUsesKnown'
  BY <1>1, <1>3, <1>4 DEF ReplInv, DumpComplete, JitUsesKnown
<1>8. TrackerHeld' /\ OperatorsServed'
  BY <1>1, <1>4 DEF ReplInv, TrackerHeld, InFlight, OperatorsServed
<1> QED
  BY <1>4, <1>5, <1>6, <1>7, <1>8 DEF ReplInv

LEMMA EvaluateStep == ASSUME ReplInv, Evaluate PROVE ReplInv'
<1>1. /\ pc = "evaluate" /\ pc' = "ready"
      /\ tracked = {TopName} /\ tracked' = {}
      /\ UNCHANGED <<cgVars, allIR>>
  BY DEF Evaluate, ReplInv, TrackerHeld, InFlight
<1>2. /\ DOMAIN jit' = DOMAIN jit \ {TopName}
      /\ \A n \in DOMAIN jit' : jit'[n] = jit[n]
  BY <1>1 DEF Evaluate, Removed
<1>3. CodeGenInv' /\ UNCHANGED <<mod, protos, ops, cur, dangling>> /\ Defined(mod)' = Defined(mod)
  BY <1>1, IdleStep DEF ReplInv, cgVars, Defined
<1>4. ReplTypeOK'
  BY <1>1, <1>2, <1>3 DEF ReplInv, ReplTypeOK, CodeGenInv, Pc, Ended
<1>5. Phases' /\ OneBody' /\ ErasureIsSafe'
  BY <1>1, <1>3 DEF ReplInv, Phases, OneBody, ErasureIsSafe
<1>6. DumpComplete' /\ JitUsesKnown' /\ TrackerHeld'
  BY <1>1, <1>2, <1>3 DEF ReplInv, DumpComplete, JitUsesKnown, TrackerHeld, InFlight
<1>7. OperatorsServed'
  <2> SUFFICES ASSUME NEW o \in ops \ Builtin PROVE BinaryName(o) \in DOMAIN jit'
    BY <1>3 DEF OperatorsServed
  <2>1. BinaryName(o) # TopName
    BY TopNameFacts DEF ReplInv, CodeGenInv, CodeGenTypeOK, BinName
  <2> QED
    BY <1>1, <1>2, <2>1 DEF ReplInv, OperatorsServed
<1> QED
  BY <1>3, <1>4, <1>5, <1>6, <1>7 DEF ReplInv

LEMMA EofStep == ASSUME ReplInv, Eof PROVE ReplInv'
<1>1. /\ pc = "ready" /\ pc' = "eof"
      /\ allIR' = allIR \cup DOMAIN mod
      /\ UNCHANGED <<cgVars, jit, tracked>>
  BY DEF Eof, Capture
<1>2. CodeGenInv' /\ UNCHANGED <<mod, protos, ops, cur, dangling>> /\ Defined(mod)' = Defined(mod)
  BY <1>1, IdleStep DEF ReplInv, cgVars, Defined
<1>3. ReplTypeOK'
  BY <1>1, <1>2 DEF ReplInv, ReplTypeOK, CodeGenInv, CodeGenTypeOK, Pc, Ended
<1>4. Phases' /\ OneBody' /\ ErasureIsSafe' /\ DumpComplete'
  BY <1>1, <1>2 DEF ReplInv, Phases, OneBody, ErasureIsSafe, DumpComplete
<1>5. TrackerHeld' /\ OperatorsServed' /\ JitUsesKnown'
  BY <1>1, <1>2 DEF ReplInv, TrackerHeld, InFlight, OperatorsServed, JitUsesKnown
<1> QED
  BY <1>2, <1>3, <1>4, <1>5 DEF ReplInv

LEMMA StutterStep ==
    ASSUME ReplInv, UNCHANGED <<cgVars, jit, tracked, allIR>>,
           pc' = pc \/ (pc = "lookup" /\ pc' = "unresolved")
    PROVE  ReplInv'
<1>1. CodeGenInv' /\ UNCHANGED <<mod, protos, ops, cur, dangling>> /\ Defined(mod)' = Defined(mod)
  BY IdleStep DEF ReplInv, cgVars, Defined
<1>2. ReplTypeOK'
  BY <1>1 DEF ReplInv, ReplTypeOK, CodeGenInv, Pc, Ended
<1>3. Phases' /\ OneBody' /\ ErasureIsSafe' /\ DumpComplete'
  BY <1>1 DEF ReplInv, Phases, OneBody, ErasureIsSafe, DumpComplete
<1>4. TrackerHeld' /\ OperatorsServed' /\ JitUsesKnown'
  BY <1>1 DEF ReplInv, TrackerHeld, InFlight, OperatorsServed, JitUsesKnown
<1> QED
  BY <1>1, <1>2, <1>3, <1>4 DEF ReplInv

LEMMA NextStep == ASSUME ReplInv, [Next]_vars PROVE ReplInv'
<1>1. CASE LookupFails
  BY <1>1, StutterStep DEF LookupFails
<1>2. CASE Stopped \/ UNCHANGED vars
  BY <1>2, StutterStep DEF Stopped, vars, cgVars
<1> QED
  BY <1>1, <1>2, ReadDefStep, ReadTopStep, ReadExternStep, EofStep, GenBodyStep, GenOkStep,
     GenFailStep, AddDefStep, AddTopStep, DuplicateStep, LookupStep, EvaluateStep
     DEF Next

-----------------------------------------------------------------------------
\* Every reachable state of the loop satisfies the inductive invariant.
THEOREM Invariance == Spec => []ReplInv
BY InitRepl, NextStep, PTL DEF Spec

\* The state has its type.
THEOREM TypeCorrect == Spec => []ReplTypeOK
<1>1. ReplInv => ReplTypeOK
  BY DEF ReplInv
<1> QED
  BY <1>1, Invariance, PTL

\* A call in the working module is to a function of the module and passes what it
\* takes, the calls of operators included, which the code never compares.
THEOREM CallsAlwaysResolve == Spec => []ModuleCallsResolve
<1>1. ReplInv => ModuleCallsResolve
  BY DEF ReplInv, CodeGenInv
<1> QED
  BY <1>1, Invariance, PTL

\* No failing definition of a session erases a function that has callers.
THEOREM ErasureAlwaysSafe == Spec => []ErasureIsSafe
<1>1. ReplInv => ErasureIsSafe
  BY DEF ReplInv
<1> QED
  BY <1>1, Invariance, PTL

\* Only a definition can end a session as a duplicate.
THEOREM ExpressionsNeverRefused == Spec => []ExpressionsNeverDuplicate
<1>1. ReplInv => ExpressionsNeverDuplicate
  BY DEF ReplInv, OneBody, ExpressionsNeverDuplicate
<1> QED
  BY <1>1, Invariance, PTL

\* Every function that JIT'd code calls has a prototype.
THEOREM UsesAlwaysDeclared == Spec => []UsesDeclared
<1>1. ReplInv => UsesDeclared
  BY DEF ReplInv, JitUsesKnown, UsesDeclared
<1> QED
  BY <1>1, Invariance, PTL

\* At the prompt, every operator the parser accepts and that is not builtin has
\* its function in the JIT.
THEOREM OperatorsAlwaysBacked == Spec => []OperatorsBacked
<1>1. ReplInv => OperatorsBacked
  BY DEF ReplInv, OperatorsServed, OperatorsBacked
<1> QED
  BY <1>1, Invariance, PTL

\* The IR shown at the end of input is complete.
THEOREM DumpAlwaysComplete == Spec => []DumpComplete
<1>1. ReplInv => DumpComplete
  BY DEF ReplInv
<1> QED
  BY <1>1, Invariance, PTL

-----------------------------------------------------------------------------
\* What one step can do to the dylib.
LEMMA JitStep ==
    ASSUME ReplInv, [Next]_vars
    PROVE  \/ jit' = jit
           \/ AddDef \/ AddTop \/ Lookup \/ Evaluate
BY DEF Next, vars, ReadDef, ReadTop, ReadExtern, ReplUnchanged, GenBody, GenOk, GenFail,
       Duplicate, LookupFails, Eof, Stopped

LEMMA KeepStep ==
    ASSUME ReplInv, [Next]_vars
    PROVE  \A n \in DOMAIN jit \ {TopName} : n \in DOMAIN jit' /\ jit'[n] = jit[n]
<1>1. CASE AddDef \/ AddTop
  BY <1>1 DEF AddDef, AddTop, HandOff
<1>2. CASE Lookup
  BY <1>2 DEF Lookup
<1>3. CASE Evaluate
  BY <1>3 DEF Evaluate, Removed, ReplInv, TrackerHeld
<1> QED
  BY <1>1, <1>2, <1>3, JitStep

\* A definition the JIT has taken keeps its code for the rest of the session.
THEOREM DefinitionsArePermanent == Spec => PermanentDefinitions
<1>1. ReplInv /\ [Next]_vars =>
        [\A n \in DOMAIN jit \ {TopName} : n \in DOMAIN jit' /\ jit'[n] = jit[n]]_vars
  BY KeepStep
<1> QED
  BY <1>1, Invariance, PTL DEF Spec, PermanentDefinitions
-----------------------------------------------------------------------------
\* What a lookup reaches is closed, holds where it starts, and is in every closed
\* set that does.
LEMMA ReachFacts ==
    ASSUME NEW env, NEW S
    PROVE  /\ S \subseteq Reach(env, S)
           /\ Closed(env, Reach(env, S))
           /\ Reach(env, S) \subseteq S \cup UNION {env[n].uses : n \in DOMAIN env}
           /\ \A T \in SUBSET (S \cup UNION {env[n].uses : n \in DOMAIN env}) :
                  S \subseteq T /\ Closed(env, T) => Reach(env, S) \subseteq T
<1> DEFINE all == S \cup UNION {env[n].uses : n \in DOMAIN env}
<1>1. Reach(env, S) = {n \in all : \A T \in SUBSET all : S \subseteq T /\ Closed(env, T) => n \in T}
  BY DEF Reach
<1>2. Closed(env, Reach(env, S))
  <2> SUFFICES ASSUME NEW n \in Reach(env, S) \cap DOMAIN env, NEW u \in env[n].uses
               PROVE  u \in Reach(env, S)
    BY DEF Closed
  <2>1. u \in all
    OBVIOUS
  <2>2. ASSUME NEW T \in SUBSET all, S \subseteq T, Closed(env, T) PROVE u \in T
    <3>1. n \in T
      BY <1>1, <2>2
    <3> QED
      BY <2>2, <3>1 DEF Closed
  <2> QED
    BY <1>1, <2>1, <2>2
<1> QED
  BY <1>1, <1>2

\* A step that leaves the dylib and the phase of the session alone is a stutter.
LEMMA SessionStutter ==
    ASSUME UserSymbols' = UserSymbols, pc # "evaluate", pc' # "evaluate",
           pc \in Ended <=> pc' \in Ended
    PROVE  UNCHANGED Abstract!svars
BY DEF Abstract!svars

LEMMA DefineStep ==
    ASSUME ReplInv, AddDef PROVE Abstract!Define
<1>1. pc = "addDef" /\ HandOff /\ pc' = "ready"
  BY DEF AddDef
<1>2. PICK n \in UserName : Defined(mod) = {n}
  BY <1>1 DEF ReplInv, OneBody
<1>3. /\ n \notin DOMAIN jit
      /\ n # TopName
      /\ mod[n] \in Fn
  BY <1>1, <1>2, TopNameFacts
     DEF HandOff, Defined, ReplInv, CodeGenInv, CodeGenTypeOK
<1>4. jit' = [k \in DOMAIN jit \cup {n} |-> IF k \in DOMAIN jit THEN jit[k] ELSE Compiled(mod[k])]
  BY <1>1, <1>2 DEF HandOff
<1>5. Compiled(mod[n]) \in Symbol
  BY <1>1, <1>2, <1>3, <1>4, HandOffFacts
<1>6. UserSymbols' = [k \in DOMAIN UserSymbols \cup {n} |->
                        IF k \in DOMAIN UserSymbols THEN UserSymbols[k] ELSE Compiled(mod[n])]
  BY <1>3, <1>4 DEF UserSymbols
<1>7. n \in UserName \ DOMAIN UserSymbols
  BY <1>3 DEF UserSymbols
<1> QED
  BY <1>1, <1>5, <1>6, <1>7 DEF Abstract!Define, Abstract!Bind, Ended

LEMMA StartStep ==
    ASSUME ReplInv, Lookup PROVE Abstract!Start
<1>1. /\ pc = "lookup" /\ pc' = "evaluate"
      /\ Wanted \subseteq Process
      /\ jit' = [n \in DOMAIN jit \cup Wanted |-> IF n \in DOMAIN jit THEN jit[n] ELSE Absolute]
  BY DEF Lookup
<1>2. Wanted \cap DOMAIN jit = {} /\ TopName \notin Wanted
  BY <1>1, ReplNames, ProcessAssumption DEF Wanted
<1>3. UserSymbols' = [n \in DOMAIN UserSymbols \cup Wanted |->
                        IF n \in DOMAIN UserSymbols THEN UserSymbols[n] ELSE Absolute]
  BY <1>1, <1>2 DEF UserSymbols
<1>4. Wanted \in SUBSET (Process \ DOMAIN UserSymbols)
  BY <1>1, <1>2 DEF UserSymbols
<1> DEFINE R == Reach(jit, {TopName})
           all == {TopName} \cup UNION {jit'[n].uses : n \in DOMAIN jit'}
           T == Reach(jit', {TopName}) \ {TopName}
<1>5. R \subseteq DOMAIN jit'
  BY <1>1 DEF Wanted
<1>6. R \in SUBSET all /\ {TopName} \subseteq R /\ Closed(jit', R)
  <2>1. \A n \in DOMAIN jit : n \in DOMAIN jit' /\ jit'[n] = jit[n]
    BY <1>1
  <2>2. R \subseteq {TopName} \cup UNION {jit[n].uses : n \in DOMAIN jit} /\ {TopName} \subseteq R
    BY ReachFacts
  <2>3. Closed(jit, R)
    BY ReachFacts
  <2>4. ASSUME NEW n \in R \cap DOMAIN jit' PROVE jit'[n].uses \subseteq R
    <3>1. CASE n \in DOMAIN jit
      BY <2>1, <2>3, <3>1 DEF Closed
    <3>2. CASE n \notin DOMAIN jit
      BY <1>1, <3>2 DEF Absolute
    <3> QED
      BY <3>1, <3>2
  <2> QED
    BY <2>1, <2>2, <2>4 DEF Closed
<1>7. /\ Reach(jit', {TopName}) \subseteq R
      /\ Closed(jit', Reach(jit', {TopName}))
  BY <1>6, ReachFacts
<1>8. T \in SUBSET (DOMAIN UserSymbols \cup Wanted)
  BY <1>1, <1>5, <1>7 DEF UserSymbols
<1>9. Abstract!Linked(UserSymbols', T)
  <2>1. DOMAIN UserSymbols' = DOMAIN UserSymbols \cup Wanted
    BY <1>3
  <2>2. ASSUME NEW n \in T PROVE UserSymbols'[n].uses \subseteq T
    <3>1. n \in DOMAIN jit' /\ n # TopName /\ UserSymbols'[n] = jit'[n]
      BY <1>5, <1>7 DEF UserSymbols
    <3>2. jit'[n].uses \subseteq Reach(jit', {TopName})
      BY <1>7, <3>1 DEF Closed
    <3>3. JitUsesKnown'
      BY LookupStep DEF ReplInv
    <3>4. TopName \notin jit'[n].uses
      BY <3>1, <3>3, TopNameFacts DEF JitUsesKnown
    <3> QED
      BY <3>1, <3>2, <3>4
  <2> QED
    BY <1>8, <2>1, <2>2 DEF Abstract!Linked
<1> HIDE DEF T
<1>10. (IF pc' = "evaluate" THEN Reach(jit', {TopName}) \ {TopName} ELSE {}) = T
  BY <1>1 DEF T
<1> QED
  BY <1>1, <1>3, <1>4, <1>8, <1>9, <1>10 DEF Abstract!Start, Abstract!Bind, Ended

LEMMA SessionStep ==
    ASSUME ReplInv, [Next]_vars PROVE [Abstract!Next]_Abstract!svars
<1>1. CASE AddDef
  BY <1>1, DefineStep DEF Abstract!Next
<1>2. CASE Lookup
  BY <1>2, StartStep DEF Abstract!Next
<1>3. CASE Evaluate
  <2>1. /\ pc = "evaluate" /\ pc' = "ready"
        /\ jit' = [n \in DOMAIN jit \ {TopName} |-> jit[n]]
    BY <1>3 DEF Evaluate, Removed, ReplInv, TrackerHeld, InFlight
  <2>2. UserSymbols' = UserSymbols
    BY <2>1 DEF UserSymbols
  <2> QED
    BY <2>1, <2>2 DEF Abstract!Next, Abstract!Finish, Ended
<1>4. CASE Duplicate \/ LookupFails \/ Eof
  <2>1. jit' = jit /\ pc \notin Ended /\ pc # "evaluate" /\ pc' \in Ended /\ pc' # "evaluate"
    BY <1>4 DEF Duplicate, LookupFails, Eof, Ended
  <2>2. UserSymbols' = UserSymbols
    BY <2>1 DEF UserSymbols
  <2> QED
    BY <2>1, <2>2 DEF Abstract!Next, Abstract!Close
<1>5. CASE AddTop
  <2>1. pc = "addTop" /\ pc' = "lookup" /\ HandOff
    BY <1>5 DEF AddTop
  <2>2. Defined(mod) = {TopName} /\ TopName \notin DOMAIN jit
    BY <2>1 DEF ReplInv, OneBody, TrackerHeld, InFlight
  <2>3. UserSymbols' = UserSymbols
    BY <2>1, <2>2 DEF HandOff, UserSymbols
  <2> QED
    BY <2>1, <2>3, SessionStutter DEF Ended
<1>6. CASE ReadDef \/ ReadTop \/ ReadExtern \/ GenBody \/ GenOk \/ GenFail
  <2>1. jit' = jit /\ pc \in {"ready", "codegen"} /\ pc' \in {"ready", "codegen", "addDef", "addTop"}
    BY <1>6 DEF ReadDef, ReadTop, ReadExtern, GenBody, GenOk, GenFail, AfterBody, ReplUnchanged
  <2>2. UserSymbols' = UserSymbols
    BY <2>1 DEF UserSymbols
  <2> QED
    BY <2>1, <2>2, SessionStutter DEF Ended
<1>7. CASE Stopped \/ UNCHANGED vars
  BY <1>7 DEF Stopped, vars, UserSymbols, Abstract!svars
<1> QED
  BY <1>1, <1>2, <1>3, <1>4, <1>5, <1>6, <1>7 DEF Next

\* The loop implements the session: definitions are only added, and an expression
\* runs only code that is defined and completely linked.
THEOREM Refinement == Spec => ImplementsSession
<1>1. Init => Abstract!Init
  BY DEF Init, CodeGenInit, EmptyMap, UserSymbols, Abstract!Init, Ended
<1>2. ReplInv /\ [Next]_vars => [Abstract!Next]_Abstract!svars
  BY SessionStep
<1> QED
  BY <1>1, <1>2, Invariance, PTL DEF Spec, ImplementsSession, Abstract!Spec
=============================================================================
