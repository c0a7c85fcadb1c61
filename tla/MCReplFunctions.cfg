SPECIFICATION Spec
CONSTANTS
    x = x
    y = y
    Ident = {f, putchard}
    TopName = anon
    BinOp = {}
    UnOp = {}
    Builtin = {}
    Var = {x, y}
    Params <- UpToTwo
    MaxCalls = 1
    Process = {putchard}
    ExternName = {f, putchard}
INVARIANT ReplTypeOK
INVARIANT ModuleCallsResolve
INVARIANT ExpressionsNeverDuplicate
INVARIANT UsesDeclared
INVARIANT DumpComplete
INVARIANT ErasureIsSafe
PROPERTY PermanentDefinitions
PROPERTY ImplementsSession
