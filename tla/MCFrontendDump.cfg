SPECIFICATION Spec
CONSTANTS
    Char <- ASCII
    Ident = {"x", "y"}
    Number = {"1", "5.5", "0", "101"}
    Halves <- InHalves
    Text <- AllTexts
    Mode = {"compile"}
    DumpAST = {TRUE}
INVARIANT EveryConstructDumped
