SPECIFICATION Spec
CONSTANTS
    x = x
    y = y
    Var = {x, y}
    ArgLists <- NoneOrX
    VarLists <- Lists
    Operands = {0, 1}
    MaxNodes = 3
INVARIANT LoopsPointAtFor
