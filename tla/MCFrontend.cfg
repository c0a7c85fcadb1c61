SPECIFICATION Spec
CONSTANTS
    Char <- ASCII
    Ident = {"x", "y"}
    Number = {"1", "5.5", "0", "101"}
    Halves <- InHalves
    Text <- AllTexts
    Mode = {"interactive", "compile"}
    DumpAST = {TRUE}
INVARIANT FrontendTypeOK
INVARIANT TreeMatchesTokens
INVARIANT GroupsByPrecedence
INVARIANT OneDiagnostic
INVARIANT KeywordsBeginConstructs
INVARIANT OperatorsHoldForWhatFollows
INVARIANT ReadsBack
INVARIANT DumpShowsTheTree
PROPERTY ImplementsReader
