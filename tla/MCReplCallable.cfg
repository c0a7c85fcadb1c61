SPECIFICATION Spec
CONSTANTS
    x = x
    y = y
    Ident = {f}
    TopName = anon
    BinOp = {}
    UnOp = {}
    Builtin = {}
    Var = {x, y}
    Params <- UpToTwo
    MaxCalls = 1
    Process = {}
    ExternName = {}
INVARIANT CallableAsDefined
