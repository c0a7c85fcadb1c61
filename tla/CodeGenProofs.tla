---------------------------- MODULE CodeGenProofs ----------------------------
(***************************************************************************)
(* What every operation of the code generator preserves, for every value   *)
(* of the constants.  ReplProofs and CompileProofs build on these lemmas:  *)
(* neither driver changes the state of the code generator otherwise,       *)
(* except that the loop of Repl opens an empty module.                     *)
(***************************************************************************)
EXTENDS CodeGen, TLAPS

\* The function being generated is in the module.
CurrentInModule == cur.kind # "none" => cur.fn \in DOMAIN mod

\* Functions are declared from prototypes, and prototypes are never removed.
DeclaredFromPrototypes == DOMAIN mod \subseteq DOMAIN protos

\* An operator has as many parameters as operands, which is why visitBinary and
\* visitUnary need not compare them.
OperatorArity ==
    /\ \A n \in DOMAIN mod : mod[n].params \in ParamsOf(n)
    /\ \A n \in DOMAIN protos : protos[n] \in ParamsOf(n)

\* Only a function with a body has calls.
DeclarationsCallNothing == \A n \in DOMAIN mod : mod[n].entry = "none" => mod[n].calls = {}

\* What is called has a prototype and a name that a program can give.
Known(calls) == \A c \in calls : c[1] \in UserName \cap DOMAIN protos
CalleesKnown == Known(cur.calls) /\ \A n \in DOMAIN mod : Known(mod[n].calls)

CodeGenInv ==
    /\ CodeGenTypeOK
    /\ CurrentInModule
    /\ DeclaredFromPrototypes
    /\ OperatorArity
    /\ DeclarationsCallNothing
    /\ CalleesKnown
    /\ ModuleCallsResolve

-----------------------------------------------------------------------------
LEMMA ParamsOfFacts ==
    ASSUME NEW n, NEW ps \in ParamsOf(n)
    PROVE  /\ ps \in Params
           /\ Len(ps) \in ArgCount
           /\ n \in BinName => Len(ps) = 2
           /\ n \in UnName => Len(ps) = 1
BY DEF ParamsOf, ArgCount

LEMMA InitCodeGen == CodeGenInit => CodeGenInv
<1> SUFFICES ASSUME CodeGenInit PROVE CodeGenInv
  OBVIOUS
<1>1. DOMAIN mod = {} /\ DOMAIN protos = {}
  BY DEF CodeGenInit, EmptyMap
<1>2. Idle \in Body /\ Idle.kind = "none" /\ Idle.calls = {}
  BY DEF Idle, Body, Name
<1> QED
  BY <1>1, <1>2, BuiltinAssumption
     DEF CodeGenInit, CodeGenInv, CodeGenTypeOK, CurrentInModule, DeclaredFromPrototypes,
         OperatorArity, DeclarationsCallNothing, CalleesKnown, Known, ModuleCallsResolve,
         CallsResolve

-----------------------------------------------------------------------------
\* A module that gains one declaration, of a name with a prototype, still has all
\* that concerns modules and calls.
LEMMA DeclareStep ==
    ASSUME CodeGenInv, NEW n \in Name, NEW p,
           DOMAIN protos \subseteq DOMAIN p,
           n \in DOMAIN p => p[n] \in ParamsOf(n),
           mod' = GetFunction(mod, p, n)
    PROVE  /\ DOMAIN mod \subseteq DOMAIN mod'
           /\ DOMAIN mod' \subseteq DOMAIN p
           /\ DOMAIN mod' \subseteq Name
           /\ \A k \in DOMAIN mod' : mod'[k] \in Fn /\ mod'[k].params \in ParamsOf(k)
           /\ \A k \in DOMAIN mod : mod'[k] = mod[k]
           /\ \A k \in DOMAIN mod' : mod'[k].entry = "none" => mod'[k].calls = {}
           /\ \A k \in DOMAIN mod' : \A c \in mod'[k].calls : c[1] \in UserName \cap DOMAIN p
           /\ \A c \in cur.calls : ~dangling =>
                  c[1] \in DOMAIN mod' /\ Len(mod'[c[1]].params) = c[2]
           /\ \A k \in DOMAIN mod' : \A c \in mod'[k].calls : ~dangling =>
                  c[1] \in DOMAIN mod' /\ Len(mod'[c[1]].params) = c[2]
<1>1. /\ DOMAIN mod' = DOMAIN mod \cup ({n} \cap DOMAIN p)
      /\ \A k \in DOMAIN mod : mod'[k] = mod[k]
      /\ n \in DOMAIN p \ DOMAIN mod => mod'[n] = Declaration(p[n])
  BY DEF GetFunction, Put
<1>2. n \in DOMAIN p \ DOMAIN mod =>
        /\ mod'[n] \in Fn
        /\ mod'[n].params \in ParamsOf(n)
        /\ mod'[n].calls = {}
  BY <1>1, ParamsOfFacts DEF Declaration, Fn
<1>3. \A k \in DOMAIN mod' : mod'[k] \in Fn /\ mod'[k].params \in ParamsOf(k)
  BY <1>1, <1>2 DEF CodeGenInv, CodeGenTypeOK, OperatorArity
<1>4. \A k \in DOMAIN mod' : mod'[k].entry = "none" => mod'[k].calls = {}
  BY <1>1, <1>2 DEF CodeGenInv, DeclarationsCallNothing
<1>5. DOMAIN mod' \subseteq DOMAIN p /\ DOMAIN mod' \subseteq Name
  BY <1>1 DEF CodeGenInv, CodeGenTypeOK, DeclaredFromPrototypes
<1>6. \A k \in DOMAIN mod' : \A c \in mod'[k].calls : ~dangling =>
          c[1] \in DOMAIN mod' /\ Len(mod'[c[1]].params) = c[2]
  <2> SUFFICES ASSUME NEW k \in DOMAIN mod', NEW c \in mod'[k].calls, ~dangling
               PROVE  c[1] \in DOMAIN mod' /\ Len(mod'[c[1]].params) = c[2]
    OBVIOUS
  <2>1. k \in DOMAIN mod /\ c \in mod[k].calls
    BY <1>1, <1>2
  <2> QED
    BY <2>1, <1>1 DEF CodeGenInv, ModuleCallsResolve, CallsResolve
<1>7. \A c \in cur.calls : ~dangling =>
          c[1] \in DOMAIN mod' /\ Len(mod'[c[1]].params) = c[2]
  BY <1>1 DEF CodeGenInv, ModuleCallsResolve, CallsResolve
<1>8. \A k \in DOMAIN mod' : \A c \in mod'[k].calls : c[1] \in UserName \cap DOMAIN p
  BY <1>1, <1>2 DEF CodeGenInv, CalleesKnown, Known
<1> QED
  BY <1>1, <1>3, <1>4, <1>5, <1>6, <1>7, <1>8

\* Starting a definition.
LEMMA BeginStep ==
    ASSUME CodeGenInv, NEW n \in Name, NEW ps \in ParamsOf(n), NEW k \in {"def", "top"},
           Begin(n, ps, k)
    PROVE  CodeGenInv'
<1>1. /\ DOMAIN protos' = DOMAIN protos \cup {n}
      /\ protos'[n] = ps
      /\ \A m \in DOMAIN protos : m # n => protos'[m] = protos[m]
  BY DEF Begin, Put
<1>2. mod' = GetFunction(mod, protos', n)
  BY DEF Begin
<1>3. /\ DOMAIN mod \subseteq DOMAIN mod'
      /\ DOMAIN mod' \subseteq DOMAIN protos'
      /\ DOMAIN mod' \subseteq Name
      /\ \A j \in DOMAIN mod' : mod'[j] \in Fn /\ mod'[j].params \in ParamsOf(j)
      /\ \A j \in DOMAIN mod' : mod'[j].entry = "none" => mod'[j].calls = {}
      /\ \A j \in DOMAIN mod' : \A c \in mod'[j].calls : c[1] \in UserName \cap DOMAIN protos'
      /\ \A j \in DOMAIN mod' : \A c \in mod'[j].calls : ~dangling =>
             c[1] \in DOMAIN mod' /\ Len(mod'[c[1]].params) = c[2]
  BY <1>1, <1>2, DeclareStep
<1>4. n \in DOMAIN mod'
  BY <1>1, <1>2 DEF GetFunction, Put
<1>5. /\ cur' = [fn |-> n, kind |-> k, calls |-> {}, ok |-> TRUE, visible |-> ops]
      /\ dangling' = dangling
      /\ ops' \subseteq BinOp
  BY DEF Begin, SetPrecedence, OpOf, CodeGenInv, CodeGenTypeOK
<1>6. cur' \in Body
  BY <1>5 DEF Body, CodeGenInv, CodeGenTypeOK
<1>7. CodeGenTypeOK'
  <2>1. \A m \in DOMAIN protos' : protos'[m] \in Params
    BY <1>1, ParamsOfFacts DEF CodeGenInv, CodeGenTypeOK
  <2> QED
    BY <1>1, <1>3, <1>5, <1>6, <2>1 DEF CodeGenInv, CodeGenTypeOK
<1>8. OperatorArity'
  BY <1>1, <1>3 DEF OperatorArity, CodeGenInv
<1>9. CurrentInModule' /\ DeclaredFromPrototypes' /\ DeclarationsCallNothing'
  BY <1>3, <1>4, <1>5 DEF CurrentInModule, DeclaredFromPrototypes, DeclarationsCallNothing
<1>10. CalleesKnown' /\ ModuleCallsResolve'
  BY <1>3, <1>5 DEF CalleesKnown, Known, ModuleCallsResolve, CallsResolve
<1> QED
  BY <1>7, <1>8, <1>9, <1>10 DEF CodeGenInv

\* Visiting a part of the body.
LEMMA VisitStep == ASSUME CodeGenInv, Visit PROVE CodeGenInv'
<1>1. ASSUME NEW v \in Var, VisitVariable(v) PROVE CodeGenInv'
  <2>1. cur' \in Body /\ cur'.calls = cur.calls /\ cur'.fn = cur.fn /\ cur'.kind = cur.kind
    BY <1>1 DEF VisitVariable, CodeGenInv, CodeGenTypeOK, Body
  <2> QED
    BY <1>1, <2>1
       DEF VisitVariable, CodeGenInv, CodeGenTypeOK, CurrentInModule, DeclaredFromPrototypes,
           OperatorArity, DeclarationsCallNothing, CalleesKnown, Known, ModuleCallsResolve,
           CallsResolve
<1>2. ASSUME NEW n \in UserName, NEW k,
             cur.kind # "none",
             mod' = GetFunction(mod, protos, n),
             \/ /\ CanGet(n)
                /\ k \in ArgCount
                /\ Len(mod'[n].params) = k
                /\ AddCall(n, k)
             \/ cur' = [cur EXCEPT !.ok = FALSE],
             UNCHANGED <<protos, ops, dangling>>
      PROVE  CodeGenInv'
  <2>1. n \in Name /\ (n \in DOMAIN protos => protos[n] \in ParamsOf(n))
    BY DEF Name, CodeGenInv, OperatorArity
  <2>2. /\ DOMAIN mod \subseteq DOMAIN mod'
        /\ DOMAIN mod' \subseteq DOMAIN protos
        /\ DOMAIN mod' \subseteq Name
        /\ \A j \in DOMAIN mod' : mod'[j] \in Fn /\ mod'[j].params \in ParamsOf(j)
        /\ \A j \in DOMAIN mod' : mod'[j].entry = "none" => mod'[j].calls = {}
        /\ \A j \in DOMAIN mod' : \A c \in mod'[j].calls : c[1] \in UserName \cap DOMAIN protos
        /\ \A c \in cur.calls : ~dangling =>
               c[1] \in DOMAIN mod' /\ Len(mod'[c[1]].params) = c[2]
        /\ \A j \in DOMAIN mod' : \A c \in mod'[j].calls : ~dangling =>
               c[1] \in DOMAIN mod' /\ Len(mod'[c[1]].params) = c[2]
    BY <1>2, <2>1, DeclareStep
  <2>3. CanGet(n) => n \in DOMAIN mod'
    BY <1>2 DEF CanGet, GetFunction, Put
  <2>4. /\ cur' \in Body
        /\ cur'.fn = cur.fn
        /\ \A c \in cur'.calls : c \in cur.calls \/
               (c = <<n, k>> /\ n \in DOMAIN mod' /\ Len(mod'[n].params) = k)
    <3>1. cur \in Body /\ <<n, k>>[1] = n /\ <<n, k>>[2] = k
      BY DEF CodeGenInv, CodeGenTypeOK
    <3>2. CASE CanGet(n) /\ k \in ArgCount /\ Len(mod'[n].params) = k /\ AddCall(n, k)
      <4>1. <<n, k>> \in Call
        BY <2>1, <3>2 DEF Call
      <4>2. cur' = [cur EXCEPT !.calls = @ \cup {<<n, k>>}]
        BY <3>2 DEF AddCall
      <4> QED
        BY <2>3, <3>1, <3>2, <4>1, <4>2 DEF Body
    <3>3. CASE cur' = [cur EXCEPT !.ok = FALSE]
      BY <3>1, <3>3 DEF Body
    <3> QED
      BY <1>2, <3>2, <3>3
  <2>5. CodeGenTypeOK' /\ OperatorArity'
    BY <1>2, <2>2, <2>4 DEF CodeGenInv, CodeGenTypeOK, OperatorArity
  <2>6. CurrentInModule' /\ DeclaredFromPrototypes' /\ DeclarationsCallNothing'
    BY <1>2, <2>2, <2>4
       DEF CodeGenInv, CurrentInModule, DeclaredFromPrototypes, DeclarationsCallNothing
  <2>7. CalleesKnown'
    BY <1>2, <2>2, <2>4 DEF CodeGenInv, CalleesKnown, Known
  <2>8. ModuleCallsResolve'
    BY <1>2, <2>2, <2>4 DEF ModuleCallsResolve, CallsResolve
  <2> QED
    BY <2>5, <2>6, <2>7, <2>8 DEF CodeGenInv
<1>3. ASSUME NEW n \in Ident, NEW k \in ArgCount, VisitCall(n, k) PROVE CodeGenInv'
  BY <1>2, <1>3 DEF VisitCall, Takes, UserName
<1>4. ASSUME NEW n \in BinName \cup UnName, NEW k,
             \A ps \in ParamsOf(n) : Len(ps) = k,
             VisitOperator(n, k)
      PROVE  CodeGenInv'
  <2>1. /\ n \in UserName
        /\ n \in Name
        /\ n \in DOMAIN protos => protos[n] \in ParamsOf(n)
    BY DEF UserName, Name, CodeGenInv, OperatorArity
  <2>2. mod' = GetFunction(mod, protos, n)
    BY <1>4 DEF VisitOperator
  <2>3. \A j \in DOMAIN mod' : mod'[j].params \in ParamsOf(j)
    BY <2>1, <2>2, DeclareStep
  <2>4. CanGet(n) => mod'[n].params \in ParamsOf(n)
    BY <2>2, <2>3 DEF CanGet, GetFunction, Put
  <2>5. CanGet(n) => Len(mod'[n].params) = k /\ k \in ArgCount
    BY <1>4, <2>4 DEF ParamsOf, ArgCount
  <2> QED
    BY <1>2, <1>4, <2>1, <2>5 DEF VisitOperator
<1>5. ASSUME NEW o \in BinOp, VisitBinary(o) PROVE CodeGenInv'
  <2>1. BinaryName(o) \in BinName
    BY DEF BinName
  <2> QED
    BY <1>4, <1>5, <2>1 DEF VisitBinary, ParamsOf
<1>6. ASSUME NEW o \in UnOp, VisitUnary(o) PROVE CodeGenInv'
  <2>1. UnaryName(o) \in UnName
    BY DEF UnName
  <2> QED
    BY <1>4, <1>6, <2>1 DEF VisitUnary, ParamsOf
<1> QED
  BY <1>1, <1>3, <1>5, <1>6 DEF Visit

\* Ending a definition whose body was generated.
LEMMA FinishOkStep == ASSUME CodeGenInv, FinishOk PROVE CodeGenInv'
<1>1. /\ cur \in Body
      /\ cur.fn \in DOMAIN mod
      /\ mod[cur.fn] \in Fn
  BY DEF FinishOk, CodeGenInv, CodeGenTypeOK, CurrentInModule
<1>2. /\ DOMAIN mod' = DOMAIN mod
      /\ \A n \in DOMAIN mod : n # cur.fn => mod'[n] = mod[n]
      /\ mod'[cur.fn] = WithBody(mod[cur.fn])
  BY <1>1 DEF FinishOk
<1>3. /\ mod'[cur.fn] \in Fn
      /\ mod'[cur.fn].params = mod[cur.fn].params
      /\ mod'[cur.fn].entry # "none"
      /\ mod'[cur.fn].calls = mod[cur.fn].calls \cup cur.calls
  BY <1>1, <1>2 DEF Fn, Body, FinishOk, WithBody
<1>4. /\ UNCHANGED <<protos, ops, dangling>>
      /\ cur' = Idle
  BY DEF FinishOk
<1>5. Idle \in Body /\ Idle.kind = "none" /\ Idle.calls = {}
  BY DEF Idle, Body, Name
<1>6. \A n \in DOMAIN mod : mod'[n] \in Fn /\ mod'[n].params = mod[n].params
  BY <1>2, <1>3 DEF CodeGenInv, CodeGenTypeOK
<1>7. CodeGenTypeOK' /\ OperatorArity'
  BY <1>2, <1>4, <1>5, <1>6 DEF CodeGenInv, CodeGenTypeOK, OperatorArity
<1>8. CurrentInModule' /\ DeclaredFromPrototypes' /\ DeclarationsCallNothing'
  BY <1>2, <1>3, <1>4, <1>5
     DEF CodeGenInv, CurrentInModule, DeclaredFromPrototypes, DeclarationsCallNothing
<1>9. CalleesKnown'
  BY <1>2, <1>3, <1>4, <1>5 DEF CodeGenInv, CalleesKnown, Known
<1>10. ModuleCallsResolve'
  BY <1>2, <1>3, <1>4, <1>5, <1>6 DEF CodeGenInv, ModuleCallsResolve, CallsResolve
<1> QED
  BY <1>7, <1>8, <1>9, <1>10 DEF CodeGenInv

\* Ending one that failed.
LEMMA FinishFailStep == ASSUME CodeGenInv, FinishFail PROVE CodeGenInv'
<1>1. /\ DOMAIN mod' = DOMAIN mod \ {cur.fn}
      /\ \A n \in DOMAIN mod' : mod'[n] = mod[n]
  BY DEF FinishFail, Drop
<1>2. /\ protos' = protos
      /\ ops' \subseteq ops
      /\ dangling' = (dangling \/ Callers(mod, cur.fn) \ {cur.fn} # {})
      /\ cur' = Idle
  BY DEF FinishFail, Erase
<1>3. Idle \in Body /\ Idle.kind = "none" /\ Idle.calls = {}
  BY DEF Idle, Body, Name
<1>4. CodeGenTypeOK' /\ OperatorArity'
  BY <1>1, <1>2, <1>3 DEF CodeGenInv, CodeGenTypeOK, OperatorArity
<1>5. CurrentInModule' /\ DeclaredFromPrototypes' /\ DeclarationsCallNothing' /\ CalleesKnown'
  BY <1>1, <1>2, <1>3
     DEF CodeGenInv, CurrentInModule, DeclaredFromPrototypes, DeclarationsCallNothing,
         CalleesKnown, Known
<1>6. ASSUME ~dangling', NEW n \in DOMAIN mod', NEW c \in mod'[n].calls
      PROVE  c[1] \in DOMAIN mod' /\ Len(mod'[c[1]].params) = c[2]
  <2>1. n \in DOMAIN mod /\ n # cur.fn /\ c \in mod[n].calls
    BY <1>1
  <2>2. c[1] # cur.fn
    BY <1>2, <1>6, <2>1 DEF Callers
  <2> QED
    BY <1>1, <1>2, <1>6, <2>1, <2>2 DEF CodeGenInv, ModuleCallsResolve, CallsResolve
<1>7. ModuleCallsResolve'
  BY <1>2, <1>3, <1>6 DEF ModuleCallsResolve, CallsResolve
<1> QED
  BY <1>4, <1>5, <1>7 DEF CodeGenInv

\* An extern.
LEMMA ExternStep ==
    ASSUME CodeGenInv, NEW n \in Name, NEW ps \in ParamsOf(n), Extern(n, ps)
    PROVE  CodeGenInv'
<1>1. /\ DOMAIN protos' = DOMAIN protos \cup {n}
      /\ protos'[n] = ps
      /\ \A m \in DOMAIN protos : m # n => protos'[m] = protos[m]
      /\ UNCHANGED <<ops, cur, dangling>>
  BY DEF Extern, AddPrototype, Put
<1>2. mod' = GetFunction(mod, protos', n)
  BY <1>1 DEF Extern, AddPrototype, GetFunction, Put
<1>3. /\ DOMAIN mod \subseteq DOMAIN mod'
      /\ DOMAIN mod' \subseteq DOMAIN protos'
      /\ DOMAIN mod' \subseteq Name
      /\ \A j \in DOMAIN mod' : mod'[j] \in Fn /\ mod'[j].params \in ParamsOf(j)
      /\ \A j \in DOMAIN mod' : mod'[j].entry = "none" => mod'[j].calls = {}
      /\ \A j \in DOMAIN mod' : \A c \in mod'[j].calls : c[1] \in UserName \cap DOMAIN protos'
      /\ \A c \in cur.calls : ~dangling =>
             c[1] \in DOMAIN mod' /\ Len(mod'[c[1]].params) = c[2]
      /\ \A j \in DOMAIN mod' : \A c \in mod'[j].calls : ~dangling =>
             c[1] \in DOMAIN mod' /\ Len(mod'[c[1]].params) = c[2]
  BY <1>1, <1>2, DeclareStep
<1>4. CodeGenTypeOK'
  <2>1. \A m \in DOMAIN protos' : protos'[m] \in Params
    BY <1>1, ParamsOfFacts DEF CodeGenInv, CodeGenTypeOK
  <2> QED
    BY <1>1, <1>3, <2>1 DEF CodeGenInv, CodeGenTypeOK
<1>5. OperatorArity'
  BY <1>1, <1>3 DEF OperatorArity, CodeGenInv
<1>6. CurrentInModule' /\ DeclaredFromPrototypes' /\ DeclarationsCallNothing'
  BY <1>1, <1>3
     DEF CodeGenInv, CurrentInModule, DeclaredFromPrototypes, DeclarationsCallNothing
<1>7. CalleesKnown' /\ ModuleCallsResolve'
  BY <1>1, <1>3 DEF CodeGenInv, CalleesKnown, Known, ModuleCallsResolve, CallsResolve
<1> QED
  BY <1>4, <1>5, <1>6, <1>7 DEF CodeGenInv

\* A step of the driver that leaves the code generator alone.
LEMMA IdleStep == ASSUME CodeGenInv, UNCHANGED cgVars PROVE CodeGenInv'
BY DEF cgVars, CodeGenInv, CodeGenTypeOK, CurrentInModule, DeclaredFromPrototypes,
       OperatorArity, DeclarationsCallNothing, CalleesKnown, Known, ModuleCallsResolve,
       CallsResolve
=============================================================================
