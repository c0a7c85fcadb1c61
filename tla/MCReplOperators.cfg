SPECIFICATION Spec
CONSTANTS
    x = x
    y = y
    Ident = {f}
    TopName = anon
    BinOp = {bar, plus}
    UnOp = {}
    Builtin = {plus}
    Var = {x, y}
    Params <- NoneOrTwo
    MaxCalls = 1
    Process = {}
    ExternName = {f}
INVARIANT OperatorsBacked
