SPECIFICATION Spec
CONSTANTS
    File = {"a.ks", "b.ks"}
    MaxArgs = 4
INVARIANT CommandLineTypeOK
INVARIANT OptionsFollowArguments
