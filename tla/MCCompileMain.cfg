SPECIFICATION Spec
CONSTANTS
    x = x
    y = y
    Ident = {main}
    TopName = main
    BinOp = {}
    UnOp = {}
    Builtin = {}
    Var = {x, y}
    Params <- UpToOne
    MaxCalls = 1
    MaxTokens = 3
INVARIANT TopLevelIsMain
