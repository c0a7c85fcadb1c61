SPECIFICATION FairSpec
CONSTANTS
    x = x
    y = y
    Ident = {main}
    TopName = main
    BinOp = {bar, plus}
    UnOp = {neg}
    Builtin = {plus}
    Var = {x, y}
    Params <- UpToTwo
    MaxCalls = 1
    MaxTokens = 4
INVARIANT CompileTypeOK
INVARIANT ModuleCallsResolve
INVARIANT OutputOnlyIfAccepted
INVARIANT EmittedModuleIsSound
INVARIANT StatusTellsOutput
INVARIANT OperatorsDefined
PROPERTY Terminates
