SPECIFICATION Spec
CONSTANTS
    Letter = {"i", "f"}
    Digit = {"1"}
    Operator = {"+"}
    Keyword <- If
    MaxLength = 5
    MaxCalls = 7
INVARIANT LexTypeOK
INVARIANT EveryCharacterOnce
INVARIANT TokensAreMaximal
INVARIANT LocationsExact
INVARIANT HadErrorExact
PROPERTY CallsReturn
